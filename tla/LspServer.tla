------------------------------- MODULE LspServer -------------------------------
(***************************************************************************)
(* The language server's transport and handler (internal/lsp/server.go and *)
(* handler.go): Serve reads one message after the other and dispatches     *)
(* each in a goroutine; a command goes on in a second goroutine after its  *)
(* request was answered.  All of them write frames to one stdout under     *)
(* s.mu.  What a command does to files and connections is left to the      *)
(* modules ClientCache, FileUpload and SyncDir: here it just succeeds or   *)
(* fails.                                                                  *)
(***************************************************************************)
EXTENDS Naturals, Sequences, FiniteSets

CONSTANTS
  Sessions  \* what an editor may send: sequences of [method, request] records

Methods == {"initialize", "initialized", "shutdown", "exit", "executeCommand",
            "didSave", "unknown", "response"}

ASSUME SessionAssumption ==
  \A s \in Sessions : s \in Seq([method : Methods, request : BOOLEAN])

VARIABLES
  session,  \* the messages this editor sends
  read,     \* how many of them Serve has read
  configs,  \* has initialize loaded sftp.json?
  main,     \* control point of each message's dispatch goroutine
  work,     \* control point of the goroutine a command or a save goes on in
  todo,     \* frames each goroutine has still to write
  mu,       \* the goroutine that holds s.mu
  half,     \* frames whose header is on stdout and whose body is not
  sent,     \* frames on stdout
  exited    \* has the process ended?

output == <<todo, mu, half, sent>>
vars == <<session, read, configs, main, work, output, exited>>

Position == UNION {DOMAIN s : s \in Sessions}
Msg == DOMAIN session
Thread == {"main", "work"}
Nobody == <<0, "none">>
Method(m) == session[m].method
IsRequest(m) == session[m].request

\* A frame is named by the message that caused it and by what it carries.
Answer == {"result", "InternalError"}
Content == Answer \cup {"create", "begin", "end", "show"}

TypeOK ==
  /\ session \in Sessions
  /\ read \in 0 .. Len(session)
  /\ configs \in BOOLEAN /\ exited \in BOOLEAN
  /\ main \in [Msg -> {"unread", "handle", "write", "done"}]
  /\ work \in [Msg -> {"none", "run", "write", "done"}]
  /\ DOMAIN todo = Msg \X Thread
  /\ \A g \in Msg \X Thread : todo[g] \in Seq({g[1]} \X Content)
  /\ mu \in (Msg \X Thread) \cup {Nobody}
  /\ half \cup sent \subseteq Msg \X Content
  /\ mu = Nobody <=> half = {}
  /\ \A m \in Msg : (main[m] = "unread") = (m > read)

Answered(m) == \E a \in Answer : <<m, a>> \in sent

--------------------------------------------------------------------------------

Init ==
  /\ session \in Sessions
  /\ read = 0
  /\ configs = FALSE
  /\ main = [m \in Msg |-> "unread"]
  /\ work = [m \in Msg |-> "none"]
  /\ todo = [g \in Msg \X Thread |-> <<>>]
  /\ mu = Nobody
  /\ half = {}
  /\ sent = {}
  /\ exited = FALSE

\* readMessage and the go statement.  The editor waits for the answers to its
\* initialize and shutdown requests before it sends more.
Read ==
  /\ ~exited
  /\ read < Len(session)
  /\ \A m \in 1 .. read : Method(m) \in {"initialize", "shutdown"} /\ IsRequest(m) => Answered(m)
  /\ read' = read + 1
  /\ main' = [main EXCEPT ![read + 1] = "handle"]
  /\ UNCHANGED <<session, configs, work, output, exited>>

\* Faulty variant: notifications are answered like requests.
Reply_ToNotifications(m, before, answer) ==
  /\ LET frames == before \o <<answer>>
     IN /\ todo' = [todo EXCEPT ![<<m, "main">>] = [i \in DOMAIN frames |-> <<m, frames[i]>>]]
        /\ main' = [main EXCEPT ![m] = "write"]
  /\ UNCHANGED <<session, read, mu, half, sent, exited>>

\* Handle returns: the answer a request gets goes after the frames sent before it.
Reply(m, before, answer) ==
  /\ LET frames == before \o (IF IsRequest(m) THEN <<answer>> ELSE <<>>)
     IN /\ todo' = [todo EXCEPT ![<<m, "main">>] = [i \in DOMAIN frames |-> <<m, frames[i]>>]]
        /\ main' = [main EXCEPT ![m] = IF frames = <<>> THEN "done" ELSE "write"]
  /\ UNCHANGED <<session, read, mu, half, sent, exited>>

\* dispatch sends this code, whatever code the error Handle returned carries.
ErrorCode == "InternalError"

Handling(m, methods) == ~exited /\ main[m] = "handle" /\ Method(m) \in methods

\* handleInitialize: sftp.json is missing, invalid (a warning is shown) or loaded;
\* parameters that cannot be read are an error.
Initialize(m) ==
  /\ Handling(m, {"initialize"})
  /\ \/ configs' = TRUE /\ Reply(m, <<>>, "result")
     \/ UNCHANGED configs /\ Reply(m, <<>>, ErrorCode)
     \/ UNCHANGED configs /\ \E warning \in {<<>>, <<"show">>} : Reply(m, warning, "result")
  /\ UNCHANGED work

\* Methods Handle answers at once: initialized, shutdown, and a response of the
\* editor, which dispatch ignores.
AnswerAtOnce(m) ==
  /\ Handling(m, {"initialized", "shutdown", "response"})
  /\ Reply(m, <<>>, "result")
  /\ UNCHANGED <<configs, work>>

Unknown(m) ==
  /\ Handling(m, {"unknown"})
  /\ Reply(m, <<>>, ErrorCode)
  /\ UNCHANGED <<configs, work>>

\* Faulty variant: the command's goroutine is started before begin is sent.
ExecuteCommand_StartsEarly(m) ==
  /\ Handling(m, {"executeCommand"})
  /\ configs /\ Reply(m, <<"create", "begin">>, "result")
  /\ work' = [work EXCEPT ![m] = "run"]
  /\ UNCHANGED configs

\* handleExecuteCommand: bad arguments, no configuration or an unknown profile is
\* an error; otherwise the progress is created and begun, then the request answered.
ExecuteCommand(m) ==
  /\ Handling(m, {"executeCommand"})
  /\ \/ Reply(m, <<>>, ErrorCode)
     \/ configs /\ Reply(m, <<"create", "begin">>, "result")
  /\ UNCHANGED <<configs, work>>

\* go handleDidSave: it goes on only with a configuration that has uploadOnSave.
DidSave(m) ==
  /\ Handling(m, {"didSave"})
  /\ Reply(m, <<>>, "result")
  /\ work' = [work EXCEPT ![m] = IF configs THEN "run" ELSE "done"]
  /\ UNCHANGED configs

\* The exit notification: os.Exit, whatever is under way.
ExitNotified(m) ==
  /\ Handling(m, {"exit"})
  /\ exited' = TRUE
  /\ UNCHANGED <<session, read, configs, main, work, output>>

\* Faulty variant: a failed command does not end its progress.
RunCommand_NoEnd(m, fails) ==
  /\ ~exited
  /\ work[m] = "run"
  /\ LET frames == IF fails THEN <<"show">> ELSE
                   IF Method(m) = "executeCommand" THEN <<"end">> ELSE <<>>
     IN /\ todo' = [todo EXCEPT ![<<m, "work">>] = [i \in DOMAIN frames |-> <<m, frames[i]>>]]
        /\ work' = [work EXCEPT ![m] = IF frames = <<>> THEN "done" ELSE "write"]
  /\ UNCHANGED <<session, read, configs, main, mu, half, sent, exited>>

\* runCommand has returned: a failure is shown, a command's progress ended.
RunCommand(m, fails) ==
  /\ ~exited
  /\ work[m] = "run"
  /\ LET frames == (IF fails THEN <<"show">> ELSE <<>>) \o
                   (IF Method(m) = "executeCommand" THEN <<"end">> ELSE <<>>)
     IN /\ todo' = [todo EXCEPT ![<<m, "work">>] = [i \in DOMAIN frames |-> <<m, frames[i]>>]]
        /\ work' = [work EXCEPT ![m] = IF frames = <<>> THEN "done" ELSE "write"]
  /\ UNCHANGED <<session, read, configs, main, mu, half, sent, exited>>

\* Faulty variant: writeMessage without the lock.
WriteHeader_Unlocked(g) ==
  /\ ~exited
  /\ todo[g] # <<>>
  /\ Head(todo[g]) \notin half
  /\ half' = half \cup {Head(todo[g])}
  /\ mu' = g
  /\ UNCHANGED <<session, read, configs, main, work, todo, sent, exited>>

\* writeMessage: s.mu.Lock and the header.
WriteHeader(g) ==
  /\ ~exited
  /\ todo[g] # <<>>
  /\ mu = Nobody
  /\ mu' = g
  /\ half' = half \cup {Head(todo[g])}
  /\ UNCHANGED <<session, read, configs, main, work, todo, sent, exited>>

\* writeMessage: the body, and the unlock.  After begin, handleExecuteCommand starts
\* the goroutine that runs the command.
WriteBody(g) ==
  /\ ~exited
  /\ mu = g
  /\ half' = half \ {Head(todo[g])}
  /\ sent' = sent \cup {Head(todo[g])}
  /\ todo' = [todo EXCEPT ![g] = Tail(@)]
  /\ mu' = Nobody
  /\ LET m == g[1]
         last == Len(todo[g]) = 1
     IN /\ main' = [main EXCEPT ![m] = IF g[2] = "main" /\ last THEN "done" ELSE @]
        /\ work' = [work EXCEPT ![m] = IF Head(todo[g]) = <<m, "begin">> THEN "run"
                                       ELSE IF g[2] = "work" /\ last THEN "done" ELSE @]
  /\ UNCHANGED <<session, read, configs, exited>>

\* stdin ends, or a message cannot be read: Serve returns and so does main.
HangUp ==
  /\ ~exited
  /\ exited' = TRUE
  /\ UNCHANGED <<session, read, configs, main, work, output>>

Terminated == exited /\ UNCHANGED vars

HandleMessage(m) ==
  Initialize(m) \/ AnswerAtOnce(m) \/ Unknown(m) \/ ExecuteCommand(m) \/ DidSave(m) \/ ExitNotified(m)

Next ==
  \/ Read
  \/ \E m \in Msg : HandleMessage(m) \/ \E fails \in BOOLEAN : RunCommand(m, fails)
  \/ \E g \in Msg \X Thread : WriteHeader(g) \/ WriteBody(g)
  \/ HangUp
  \/ Terminated

Spec == Init /\ [][Next]_vars

\* Goroutines run, commands return, and whenever s.mu is free one of the goroutines
\* that wait for it gets it.
Fairness ==
  /\ WF_vars(\E m \in Msg : HandleMessage(m))
  /\ WF_vars(\E m \in Msg, fails \in BOOLEAN : RunCommand(m, fails))
  /\ WF_vars(\E g \in Msg \X Thread : WriteHeader(g))
  /\ WF_vars(\E g \in Msg \X Thread : WriteBody(g))

FairSpec == Spec /\ Fairness

--------------------------------------------------------------------------------

\* "guards writer": a header is followed by its own body, never by another frame.
FramesWhole == Cardinality(half) <= 1

\* What the editor sees of a command's progress is create, begin, end, in this
\* order, although begin and end come from different goroutines.
ProgressInOrder ==
  \A m \in Msg :
    LET begun(c) == <<m, c>> \in half \cup sent
    IN /\ begun("end") => <<m, "begin">> \in sent
       /\ begun("begin") => <<m, "create">> \in sent

\* A request gets one answer at most and a notification none; no frame is sent
\* twice.
AnsweredOnce ==
  /\ half \cap sent = {}
  /\ \A m \in Msg :
       /\ Cardinality({a \in Answer : <<m, a>> \in half \cup sent}) <= 1
       /\ Answered(m) => IsRequest(m)

\* Every request that was read is answered, unless the process ends first.
RequestsAnswered ==
  \A m \in Position :
    (m \in Msg /\ m <= read /\ IsRequest(m)) ~> (exited \/ Answered(m))

\* A progress that was begun is ended, unless the process ends first.
ProgressEnds ==
  \A m \in Position :
    <<m, "begin">> \in sent ~> (exited \/ <<m, "end">> \in sent)

\* What the editor waits for comes: no request and no progress stays open.
NothingLeftOpen == RequestsAnswered /\ ProgressEnds
================================================================================

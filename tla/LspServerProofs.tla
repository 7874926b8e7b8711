----------------------------- MODULE LspServerProofs -----------------------------
(***************************************************************************)
(* Proofs about LspServer, for any sessions an editor may hold: any number *)
(* of messages in any order, commands that succeed or fail, and an exit    *)
(* at any moment.                                                          *)
(***************************************************************************)
EXTENDS LspServer, TLAPS, FiniteSetTheorems, SequenceTheorems

\* Concatenations of known sequences.
LEMMA Two ==
  ASSUME NEW a, NEW b
  PROVE  <<a>> \o <<b>> = <<a, b>>
<1> DEFINE S == {a, b}  s == <<a>> \o <<b>>  t == <<a, b>>
<1>1. <<a>> \in Seq(S) /\ <<b>> \in Seq(S) /\ Len(<<a>>) = 1 /\ Len(<<b>>) = 1
  OBVIOUS
<1>2. s \in Seq(S) /\ t \in Seq(S) /\ Len(s) = 2 /\ Len(t) = 2
  BY <1>1
<1>3. s[1] = a /\ s[2] = b /\ t[1] = a /\ t[2] = b
  BY <1>1
<1>4. \A i \in 1 .. Len(s) : s[i] = t[i]
  <2> SUFFICES ASSUME NEW i \in 1 .. 2 PROVE s[i] = t[i]
    BY <1>2
  <2>1. i = 1 \/ i = 2
    OBVIOUS
  <2> QED
    BY <2>1, <1>3
<1> HIDE DEF s, t
<1> QED
  BY <1>2, <1>4, SeqEqual DEF s, t

LEMMA Three ==
  ASSUME NEW a, NEW b, NEW c
  PROVE  <<a, b>> \o <<c>> = <<a, b, c>>
<1> DEFINE S == {a, b, c}  s == <<a, b>> \o <<c>>  t == <<a, b, c>>
<1>1. <<a, b>> \in Seq(S) /\ <<c>> \in Seq(S) /\ Len(<<a, b>>) = 2 /\ Len(<<c>>) = 1
  OBVIOUS
<1>2. s \in Seq(S) /\ t \in Seq(S) /\ Len(s) = 3 /\ Len(t) = 3
  BY <1>1
<1>3. s[1] = a /\ s[2] = b /\ s[3] = c /\ t[1] = a /\ t[2] = b /\ t[3] = c
  BY <1>1
<1>4. \A i \in 1 .. Len(s) : s[i] = t[i]
  <2> SUFFICES ASSUME NEW i \in 1 .. 3 PROVE s[i] = t[i]
    BY <1>2
  <2>1. i = 1 \/ i = 2 \/ i = 3
    OBVIOUS
  <2> QED
    BY <2>1, <1>3
<1> HIDE DEF s, t
<1> QED
  BY <1>2, <1>4, SeqEqual DEF s, t

\* The frames of message m with the contents of s, and those that are left in s.
Frames(m, s) == [i \in DOMAIN s |-> <<m, s[i]>>]
In(s) == {s[i] : i \in 1 .. Len(s)}

\* What Handle sends before and with its answer, and what a command's goroutine sends.
Replies(m) ==
  LET answers == IF IsRequest(m) THEN {<<"result">>, <<"InternalError">>} ELSE {<<>>}
  IN answers
       \cup (IF Method(m) = "initialize"
             THEN IF IsRequest(m) THEN {<<"show", "result">>} ELSE {<<"show">>} ELSE {})
       \cup (IF Method(m) = "executeCommand"
             THEN IF IsRequest(m) THEN {<<"create", "begin", "result">>}
                  ELSE {<<"create", "begin">>} ELSE {})
Reports(m) ==
  IF Method(m) = "executeCommand" THEN {<<"end">>, <<"show", "end">>} ELSE {<<>>, <<"show">>}

\* Every action of Handle ends in Reply with one of these.
LEMMA HandleReplies ==
  ASSUME NEW m \in Msg, HandleMessage(m), main[m] = "handle"
  PROVE  \/ ExitNotified(m)
         \/ /\ \E s \in Replies(m) :
                 /\ todo' = [todo EXCEPT ![<<m, "main">>] = Frames(m, s)]
                 /\ main' = [main EXCEPT ![m] = IF s = <<>> THEN "done" ELSE "write"]
            /\ UNCHANGED <<session, read, mu, half, sent, exited>>
            /\ configs' \in {configs, TRUE}
            /\ \/ work' = work
               \/ \E w \in {"run", "done"} : Method(m) = "didSave" /\ work' = [work EXCEPT ![m] = w]
<1> DEFINE Tells(s) ==
      /\ todo' = [todo EXCEPT ![<<m, "main">>] = Frames(m, s)]
      /\ main' = [main EXCEPT ![m] = IF s = <<>> THEN "done" ELSE "write"]
      /\ UNCHANGED <<session, read, mu, half, sent, exited>>
<1>1. ASSUME NEW answer \in Answer, Reply(m, <<>>, answer)
      PROVE  \E s \in Replies(m) : Tells(s)
  <2>1. CASE IsRequest(m)
    <3>1. <<>> \o <<answer>> = <<answer>>
      OBVIOUS
    <3>2. Tells(<<answer>>)
      BY <1>1, <2>1, <3>1 DEF Reply, Frames
    <3>3. <<answer>> \in Replies(m)
      BY <2>1 DEF Replies, Answer
    <3> QED
      BY <3>2, <3>3
  <2>2. CASE ~IsRequest(m)
    <3>1. <<>> \o <<>> = <<>>
      OBVIOUS
    <3>2. Tells(<<>>)
      BY <1>1, <2>2, <3>1 DEF Reply, Frames
    <3>3. <<>> \in Replies(m)
      BY <2>2 DEF Replies
    <3> QED
      BY <3>2, <3>3
  <2> QED
    BY <2>1, <2>2
<1>2. ASSUME Method(m) = "initialize", Reply(m, <<"show">>, "result")
      PROVE  \E s \in Replies(m) : Tells(s)
  <2>1. CASE IsRequest(m)
    <3>1. <<"show">> \o <<"result">> = <<"show", "result">>
      BY Two
    <3>2. Tells(<<"show", "result">>)
      BY <1>2, <2>1, <3>1 DEF Reply, Frames
    <3>3. <<"show", "result">> \in Replies(m)
      BY <1>2, <2>1 DEF Replies
    <3> QED
      BY <3>2, <3>3
  <2>2. CASE ~IsRequest(m)
    <3>1. <<"show">> \o <<>> = <<"show">>
      OBVIOUS
    <3>2. Tells(<<"show">>)
      BY <1>2, <2>2, <3>1 DEF Reply, Frames
    <3>3. <<"show">> \in Replies(m)
      BY <1>2, <2>2 DEF Replies
    <3> QED
      BY <3>2, <3>3
  <2> QED
    BY <2>1, <2>2
<1>3. ASSUME Method(m) = "executeCommand", Reply(m, <<"create", "begin">>, "result")
      PROVE  \E s \in Replies(m) : Tells(s)
  <2>1. CASE IsRequest(m)
    <3>1. <<"create", "begin">> \o <<"result">> = <<"create", "begin", "result">>
      BY Three
    <3>2. Tells(<<"create", "begin", "result">>)
      BY <1>3, <2>1, <3>1 DEF Reply, Frames
    <3>3. <<"create", "begin", "result">> \in Replies(m)
      BY <1>3, <2>1 DEF Replies
    <3> QED
      BY <3>2, <3>3
  <2>2. CASE ~IsRequest(m)
    <3>1. <<"create", "begin">> \o <<>> = <<"create", "begin">>
      OBVIOUS
    <3>2. Tells(<<"create", "begin">>)
      BY <1>3, <2>2, <3>1 DEF Reply, Frames
    <3>3. <<"create", "begin">> \in Replies(m)
      BY <1>3, <2>2 DEF Replies
    <3> QED
      BY <3>2, <3>3
  <2> QED
    BY <2>1, <2>2
<1>4. "result" \in Answer /\ ErrorCode \in Answer
  BY DEF Answer, ErrorCode
<1> HIDE DEF Tells
<1>5. CASE Initialize(m)
  <2>1. Method(m) = "initialize" /\ work' = work /\ configs' \in {configs, TRUE}
    BY <1>5 DEF Initialize, Handling
  <2>2. \E s \in Replies(m) : Tells(s)
    BY <1>1, <1>2, <1>4, <1>5, <2>1 DEF Initialize
  <2> QED
    BY <2>1, <2>2 DEF Tells
<1>6. CASE AnswerAtOnce(m) \/ Unknown(m)
  <2>1. \E s \in Replies(m) : Tells(s)
    BY <1>1, <1>4, <1>6 DEF AnswerAtOnce, Unknown
  <2> QED
    BY <2>1, <1>6 DEF Tells, AnswerAtOnce, Unknown
<1>7. CASE ExecuteCommand(m)
  <2>1. Method(m) = "executeCommand" /\ work' = work /\ configs' = configs
    BY <1>7 DEF ExecuteCommand, Handling
  <2>2. \E s \in Replies(m) : Tells(s)
    BY <1>1, <1>3, <1>4, <1>7, <2>1 DEF ExecuteCommand
  <2> QED
    BY <2>1, <2>2 DEF Tells
<1>8. CASE DidSave(m)
  <2>1. \E s \in Replies(m) : Tells(s)
    BY <1>1, <1>4, <1>8 DEF DidSave
  <2>2. Method(m) = "didSave" /\ configs' = configs
    BY <1>8 DEF DidSave, Handling
  <2>3. \E w \in {"run", "done"} : work' = [work EXCEPT ![m] = w]
    BY <1>8 DEF DidSave
  <2> QED
    BY <2>1, <2>2, <2>3 DEF Tells
<1> QED
  BY <1>5, <1>6, <1>7, <1>8 DEF HandleMessage

--------------------------------------------------------------------------------

\* The shape of what Handle has written, and of what a command has written.
Apart(s) == \A i, j \in 1 .. Len(s) : s[i] = s[j] => i = j
ReplyShape(m, s) ==
  /\ s \in Seq(Content)
  /\ Apart(s)
  /\ \A i \in 1 .. Len(s) :
       /\ s[i] # "end"
       /\ s[i] = "show" => Method(m) = "initialize"
       /\ s[i] = "begin" => /\ Method(m) = "executeCommand"
                            /\ \E j \in 1 .. Len(s) : j < i /\ s[j] = "create"
       /\ s[i] \in Answer => /\ IsRequest(m)
                             /\ \A j \in 1 .. Len(s) : s[j] \in Answer => j = i
ReportShape(m, s) ==
  /\ s \in Seq(Content)
  /\ Apart(s)
  /\ \A i \in 1 .. Len(s) :
       /\ s[i] \in {"show", "end"}
       /\ s[i] = "end" => Method(m) = "executeCommand"

LEMMA Shapes ==
  ASSUME NEW m \in Msg
  PROVE  /\ \A s \in Replies(m) : ReplyShape(m, s)
         /\ \A s \in Reports(m) : ReportShape(m, s)
<1>1. ASSUME NEW s \in Replies(m) PROVE ReplyShape(m, s)
  <2> USE DEF ReplyShape, Apart, Content, Answer
  <2>1. CASE s = <<>>
    BY <2>1
  <2>2. CASE IsRequest(m) /\ s \in {<<"result">>, <<"InternalError">>}
    <3>1. \E a \in Answer : s = <<a>>
      BY <2>2
    <3>2. PICK a \in Answer : s = <<a>>
      BY <3>1
    <3>3. Len(s) = 1 /\ s[1] = a /\ a \in Content /\ s \in Seq(Content)
      BY <3>2
    <3> QED
      BY <2>2, <3>3
  <2>3. CASE Method(m) = "initialize" /\ IsRequest(m) /\ s = <<"show", "result">>
    <3>1. Len(s) = 2 /\ s[1] = "show" /\ s[2] = "result" /\ s \in Seq(Content)
      BY <2>3
    <3> QED
      BY <2>3, <3>1
  <2>4. CASE Method(m) = "initialize" /\ s = <<"show">>
    <3>1. Len(s) = 1 /\ s[1] = "show" /\ s \in Seq(Content)
      BY <2>4
    <3> QED
      BY <2>4, <3>1
  <2>5. CASE Method(m) = "executeCommand" /\ IsRequest(m) /\ s = <<"create", "begin", "result">>
    <3>1. Len(s) = 3 /\ s[1] = "create" /\ s[2] = "begin" /\ s[3] = "result" /\ s \in Seq(Content)
      BY <2>5
    <3> QED
      BY <2>5, <3>1
  <2>6. CASE Method(m) = "executeCommand" /\ s = <<"create", "begin">>
    <3>1. Len(s) = 2 /\ s[1] = "create" /\ s[2] = "begin" /\ s \in Seq(Content)
      BY <2>6
    <3> QED
      BY <2>6, <3>1
  <2> QED
    BY <2>1, <2>2, <2>3, <2>4, <2>5, <2>6 DEF Replies
<1>2. ASSUME NEW s \in Reports(m) PROVE ReportShape(m, s)
  <2> USE DEF ReportShape, Apart, Content, Answer
  <2>1. CASE s = <<>>
    BY <2>1
  <2>2. CASE s = <<"show">>
    <3>1. Len(s) = 1 /\ s[1] = "show" /\ s \in Seq(Content)
      BY <2>2
    <3> QED
      BY <3>1
  <2>3. CASE Method(m) = "executeCommand" /\ s = <<"end">>
    <3>1. Len(s) = 1 /\ s[1] = "end" /\ s \in Seq(Content)
      BY <2>3
    <3> QED
      BY <2>3, <3>1
  <2>4. CASE Method(m) = "executeCommand" /\ s = <<"show", "end">>
    <3>1. Len(s) = 2 /\ s[1] = "show" /\ s[2] = "end" /\ s \in Seq(Content)
      BY <2>4
    <3> QED
      BY <2>4, <3>1
  <2> QED
    BY <2>1, <2>2, <2>3, <2>4 DEF Reports
<1> QED
  BY <1>1, <1>2

\* RunCommand sends one of Reports.
LEMMA CommandReports ==
  ASSUME NEW m \in Msg, NEW fails \in BOOLEAN, RunCommand(m, fails)
  PROVE  \E s \in Reports(m) :
           /\ todo' = [todo EXCEPT ![<<m, "work">>] = Frames(m, s)]
           /\ work' = [work EXCEPT ![m] = IF s = <<>> THEN "done" ELSE "write"]
<1> DEFINE a == IF fails THEN <<"show">> ELSE <<>>
           b == IF Method(m) = "executeCommand" THEN <<"end">> ELSE <<>>
           Tells(s) == /\ todo' = [todo EXCEPT ![<<m, "work">>] = Frames(m, s)]
                       /\ work' = [work EXCEPT ![m] = IF s = <<>> THEN "done" ELSE "write"]
<1>1. Tells(a \o b)
  BY DEF RunCommand, Frames
<1>2. a \o b \in Reports(m)
  <2>1. <<"show">> \o <<"end">> = <<"show", "end">>
    BY Two
  <2>2. /\ <<"show">> \o <<>> = <<"show">>
        /\ <<>> \o <<"end">> = <<"end">>
        /\ <<>> \o <<>> = <<>>
    OBVIOUS
  <2> QED
    BY <2>1, <2>2 DEF Reports
<1> HIDE DEF a, b, Tells
<1>3. \E s \in Reports(m) : Tells(s)
  BY <1>1, <1>2
<1> QED
  BY <1>3 DEF Tells

--------------------------------------------------------------------------------

\* The holder of s.mu is writing the first frame it has left.
Locks ==
  \A g \in Msg \X Thread : mu = g => todo[g] # <<>> /\ half = {Head(todo[g])}

\* A message that was not handled has left no trace.
Fresh(m) ==
  main[m] \in {"unread", "handle"} =>
    todo[<<m, "main">>] = <<>> /\ work[m] = "none" /\ \A c \in Content : <<m, c>> \notin sent

\* A command's goroutine runs after begin, and writes when it is done.
Idle(m) ==
  /\ work[m] \in {"none", "run"} =>
       /\ todo[<<m, "work">>] = <<>>
       /\ <<m, "end">> \notin sent
       /\ <<m, "show">> \in sent => Method(m) = "initialize"
  /\ work[m] # "none" => Method(m) \in {"executeCommand", "didSave"}
  /\ work[m] = "run" /\ Method(m) = "executeCommand" => <<m, "begin">> \in sent

\* What the dispatch goroutine has left to write.
Plain(m, t, i) ==
  /\ t[i] \notin sent
  /\ t[i] # <<m, "end">>
  /\ t[i] = <<m, "show">> => Method(m) = "initialize"
Begins(m, t, i) ==
  t[i] = <<m, "begin">> =>
    /\ Method(m) = "executeCommand" /\ work[m] = "none"
    /\ \/ <<m, "create">> \in sent
       \/ \E j \in 1 .. Len(t) : j < i /\ t[j] = <<m, "create">>
Answers(m, t, i) ==
  \A a \in Answer : t[i] = <<m, a>> =>
    /\ IsRequest(m)
    /\ \A b \in Answer :
         <<m, b>> \notin sent /\ \A j \in 1 .. Len(t) : t[j] = <<m, b>> => j = i
MainTodo(m) ==
  LET t == todo[<<m, "main">>]
  IN /\ Apart(t)
     /\ \A i \in 1 .. Len(t) : Plain(m, t, i) /\ Begins(m, t, i) /\ Answers(m, t, i)

\* What the command's goroutine has left to write.
WorkTodo(m) ==
  LET t == todo[<<m, "work">>]
  IN /\ Apart(t)
     /\ \A i \in 1 .. Len(t) :
          /\ t[i] \notin sent
          /\ t[i] \in {<<m, "show">>, <<m, "end">>}
          /\ t[i] = <<m, "end">> => <<m, "begin">> \in sent

\* What the editor has got.
Order(m) ==
  /\ <<m, "end">> \in sent => <<m, "begin">> \in sent
  /\ <<m, "begin">> \in sent => <<m, "create">> \in sent
  /\ \A a \in Answer : <<m, a>> \in sent =>
       IsRequest(m) /\ \A b \in Answer : <<m, b>> \in sent => a = b

MsgInv(m) == Fresh(m) /\ Idle(m) /\ MainTodo(m) /\ WorkTodo(m) /\ Order(m)

Inv == TypeOK /\ Locks /\ \A m \in Msg : MsgInv(m)

\* A message a step has nothing to do with.
Untouched(m) ==
  /\ session' = session
  /\ main'[m] = main[m] /\ work'[m] = work[m]
  /\ todo'[<<m, "main">>] = todo[<<m, "main">>] /\ todo'[<<m, "work">>] = todo[<<m, "work">>]
  /\ \A x : <<m, x>> \in sent' <=> <<m, x>> \in sent

LEMMA Messages ==
  ASSUME TypeOK
  PROVE  /\ Msg = 1 .. Len(session) /\ Len(session) \in Nat
         /\ Nobody \notin Msg \X Thread
         /\ \A m \in Msg : Method(m) \in Methods /\ IsRequest(m) \in BOOLEAN
<1>1. session \in Seq([method : Methods, request : BOOLEAN])
  BY SessionAssumption DEF TypeOK
<1>2. Msg = 1 .. Len(session) /\ Len(session) \in Nat
  BY <1>1 DEF Msg
<1>3. ASSUME NEW m \in Msg PROVE Method(m) \in Methods /\ IsRequest(m) \in BOOLEAN
  <2> DEFINE R == [method : Methods, request : BOOLEAN]
  <2> HIDE DEF R
  <2>0. session \in Seq(R)
    BY <1>1 DEF R
  <2>1. session[m] \in R
    BY <2>0, <1>2
  <2> QED
    BY <2>1 DEF R, Method, IsRequest
<1>4. Nobody \notin Msg \X Thread
  BY DEF Nobody, Thread
<1> QED
  BY <1>2, <1>3, <1>4

LEMMA FrameOf ==
  ASSUME TypeOK, NEW m \in Msg, NEW k \in Thread
  PROVE  /\ todo[<<m, k>>] \in Seq({m} \X Content)
         /\ \A i \in 1 .. Len(todo[<<m, k>>]) : \E c \in Content : todo[<<m, k>>][i] = <<m, c>>
<1> DEFINE t == todo[<<m, k>>]
<1>1. t \in Seq({m} \X Content)
  BY DEF TypeOK
<1> HIDE DEF t
<1>2. ASSUME NEW i \in 1 .. Len(t) PROVE \E c \in Content : t[i] = <<m, c>>
  <2>1. t[i] \in {m} \X Content
    BY <1>1
  <2> QED
    BY <2>1
<1> QED
  BY <1>1, <1>2 DEF t

LEMMA StaysSo ==
  ASSUME TypeOK, NEW m \in Msg, MsgInv(m), Untouched(m)
  PROVE  MsgInv(m)'
<1> USE DEF Untouched
<1>0. Method(m)' = Method(m) /\ IsRequest(m)' = IsRequest(m)
  BY DEF Method, IsRequest
<1>1. \A i \in 1 .. Len(todo[<<m, "main">>]) :
        todo[<<m, "main">>][i] \in sent' <=> todo[<<m, "main">>][i] \in sent
  BY FrameOf DEF Thread
<1>2. \A i \in 1 .. Len(todo[<<m, "work">>]) :
        todo[<<m, "work">>][i] \in sent' <=> todo[<<m, "work">>][i] \in sent
  BY FrameOf DEF Thread
<1>3. Fresh(m)'
  BY DEF MsgInv, Fresh
<1>4. Idle(m)'
  BY <1>0 DEF MsgInv, Idle
<1>5. MainTodo(m)'
  <2> DEFINE t == todo[<<m, "main">>]
  <2>1. Apart(t)'
    BY DEF MsgInv, MainTodo, Apart
  <2>2. t' = t
    OBVIOUS
  <2> HIDE DEF t
  <2>3. ASSUME NEW i \in 1 .. Len(t) PROVE Plain(m, t, i)'
    BY <1>0, <1>1, <2>2 DEF MsgInv, MainTodo, Plain, t
  <2>4. ASSUME NEW i \in 1 .. Len(t) PROVE Begins(m, t, i)'
    BY <1>0, <2>2 DEF MsgInv, MainTodo, Begins, t
  <2>5. ASSUME NEW i \in 1 .. Len(t) PROVE Answers(m, t, i)'
    BY <1>0, <2>2 DEF MsgInv, MainTodo, Answers, t
  <2> QED
    BY <2>1, <2>2, <2>3, <2>4, <2>5 DEF MainTodo, t
<1>6. WorkTodo(m)'
  BY <1>2 DEF MsgInv, WorkTodo, Apart
<1>7. Order(m)'
  BY <1>0 DEF MsgInv, Order
<1> QED
  BY <1>3, <1>4, <1>5, <1>6, <1>7 DEF MsgInv

LEMMA InvInit == Init => Inv
<1> SUFFICES ASSUME Init PROVE Inv
  OBVIOUS
<1>0. session \in Seq([method : Methods, request : BOOLEAN])
  BY SessionAssumption DEF Init
<1>1. TypeOK
  <2>1. \A g \in Msg \X Thread : todo[g] \in Seq({g[1]} \X Content)
    BY DEF Init
  <2>2. \A m \in Msg : m > read
    BY <1>0 DEF Init, Msg
  <2>3. read \in 0 .. Len(session)
    BY <1>0 DEF Init
  <2> QED
    BY <2>1, <2>2, <2>3 DEF Init, TypeOK
<1>2. Locks
  BY <1>1, Messages DEF Init, Locks
<1>3. ASSUME NEW m \in Msg PROVE MsgInv(m)
  <2>1. todo[<<m, "main">>] = <<>> /\ todo[<<m, "work">>] = <<>> /\ work[m] = "none" /\ sent = {}
    BY DEF Init, Thread
  <2> QED
    BY <2>1 DEF MsgInv, Fresh, Idle, MainTodo, WorkTodo, Order, Apart
<1> QED
  BY <1>1, <1>2, <1>3 DEF Inv

LEMMA InvRead == Inv /\ Read => Inv'
<1> SUFFICES ASSUME Inv, Read PROVE Inv'
  OBVIOUS
<1> DEFINE r == read + 1
<1>1. TypeOK /\ r \in Msg /\ Msg' = Msg /\ session' = session /\ read \in Nat
  BY Messages DEF Inv, Read, TypeOK, Msg
<1>2. /\ main' = [main EXCEPT ![r] = "handle"] /\ read' = r
      /\ UNCHANGED <<session, configs, work, todo, mu, half, sent, exited>>
  BY DEF Read, output
<1> HIDE DEF r
<1>3. TypeOK'
  <2>1. main' \in [Msg -> {"unread", "handle", "write", "done"}]
    BY <1>1, <1>2 DEF TypeOK
  <2>2. ASSUME NEW m \in Msg PROVE (main'[m] = "unread") = (m > read')
    <3>1. m \in Nat /\ r \in Nat /\ r = read + 1
      BY <1>1, Messages DEF r
    <3>2. (main[m] = "unread") = (m > read) /\ main'[m] = IF m = r THEN "handle" ELSE main[m]
      BY <1>1, <1>2 DEF TypeOK
    <3>3. CASE m = r
      BY <3>1, <3>2, <3>3, <1>2
    <3>4. CASE m # r
      <4>1. (m > read) = (m > r)
        BY <3>1, <3>4, <1>1
      <4> QED
        BY <4>1, <3>2, <3>4, <1>2
    <3> QED
      BY <3>3, <3>4
  <2>3. read' \in 0 .. Len(session)
    BY <1>1, <1>2, Messages DEF r
  <2> QED
    BY <1>1, <1>2, <2>1, <2>2, <2>3 DEF TypeOK
<1>4. Locks'
  BY <1>1, <1>2 DEF Inv, Locks
<1>5. ASSUME NEW m \in Msg PROVE MsgInv(m)'
  <2>1. CASE m # r
    <3>1. Untouched(m)
      BY <1>1, <1>2, <2>1 DEF Untouched, TypeOK
    <3> QED
      BY <3>1, <1>1, StaysSo DEF Inv
  <2>2. CASE m = r
    <3>1. main[m] = "unread" /\ MsgInv(m)
      BY <1>1, <2>2, Messages DEF Inv, TypeOK, r
    <3>2. Fresh(m)'
      BY <1>2, <3>1 DEF MsgInv, Fresh
    <3>3. Idle(m)' /\ WorkTodo(m)' /\ Order(m)'
      BY <1>2, <3>1 DEF MsgInv, Idle, WorkTodo, Order, Apart, Method, IsRequest
    <3>4. todo'[<<m, "main">>] = <<>>
      BY <1>2, <3>1 DEF MsgInv, Fresh
    <3>5. MainTodo(m)'
      BY <3>4 DEF MainTodo, Apart
    <3> QED
      BY <3>2, <3>3, <3>5 DEF MsgInv
  <2> QED
    BY <2>1, <2>2
<1> QED
  BY <1>1, <1>3, <1>4, <1>5 DEF Inv

\* The frames of a sequence of contents.
LEMMA FramesFacts ==
  ASSUME NEW m, NEW s \in Seq(Content)
  PROVE  /\ Frames(m, s) \in Seq({m} \X Content)
         /\ Len(Frames(m, s)) = Len(s)
         /\ \A i \in 1 .. Len(s) : Frames(m, s)[i] = <<m, s[i]>>
         /\ Frames(m, s) = <<>> <=> s = <<>>
<1> DEFINE n == Len(s)  t == Frames(m, s)
<1>1. n \in Nat /\ DOMAIN s = 1 .. n /\ \A i \in 1 .. n : s[i] \in Content
  OBVIOUS
<1>2. t = [i \in 1 .. n |-> <<m, s[i]>>]
  BY <1>1 DEF Frames
<1> HIDE DEF n, t
<1>3. \A i \in 1 .. n : t[i] = <<m, s[i]>> /\ t[i] \in {m} \X Content
  BY <1>1, <1>2
<1>4. t \in [1 .. n -> {m} \X Content]
  BY <1>2, <1>3
<1>5. t \in Seq({m} \X Content) /\ Len(t) = n
  BY <1>1, <1>4
<1>6. t = <<>> <=> s = <<>>
  BY <1>5 DEF n
<1> QED
  BY <1>3, <1>5, <1>6 DEF n, t

\* Handle's frames are queued while none of the message's is out.
LEMMA InvReply ==
  ASSUME Inv, NEW m \in Msg, NEW s \in Replies(m), main[m] = "handle",
         todo' = [todo EXCEPT ![<<m, "main">>] = Frames(m, s)],
         main' = [main EXCEPT ![m] = IF s = <<>> THEN "done" ELSE "write"],
         UNCHANGED <<session, read, mu, half, sent, exited>>, configs' \in {configs, TRUE},
         \/ work' = work
         \/ \E w \in {"run", "done"} : Method(m) = "didSave" /\ work' = [work EXCEPT ![m] = w]
  PROVE  Inv'
<1>1. TypeOK /\ Msg' = Msg /\ session' = session /\ sent' = sent
  BY DEF Inv, Msg
<1>2. ReplyShape(m, s) /\ s \in Seq(Content)
  BY Shapes DEF ReplyShape
<1> DEFINE f == Frames(m, s)
<1>3. /\ f \in Seq({m} \X Content) /\ Len(f) = Len(s)
      /\ \A i \in 1 .. Len(s) : f[i] = <<m, s[i]>>
  BY <1>2, FramesFacts
<1> HIDE DEF f
<1>4. \A g \in Msg \X Thread : todo'[g] = IF g = <<m, "main">> THEN f ELSE todo[g]
  BY <1>1 DEF TypeOK, f
<1>5. /\ todo[<<m, "main">>] = <<>> /\ work[m] = "none"
      /\ \A c \in Content : <<m, c>> \notin sent
  BY DEF Inv, MsgInv, Fresh
<1>6. \E w \in {"none", "run", "done"} :
        /\ work' = [work EXCEPT ![m] = w]
        /\ w # "none" => Method(m) = "didSave"
  BY <1>1, <1>5 DEF TypeOK
<1>7. TypeOK'
  <2>1. main' \in [Msg -> {"unread", "handle", "write", "done"}]
    BY <1>1 DEF TypeOK
  <2>2. work' \in [Msg -> {"none", "run", "write", "done"}]
    BY <1>1, <1>6 DEF TypeOK
  <2>3. \A k \in Msg : (main'[k] = "unread") = (main[k] = "unread")
    BY <1>1 DEF TypeOK
  <2>4. \A g \in Msg \X Thread : todo'[g] \in Seq({g[1]} \X Content)
    BY <1>1, <1>3, <1>4 DEF TypeOK
  <2>5. DOMAIN todo' = Msg \X Thread
    BY <1>1 DEF TypeOK
  <2>6. configs' \in BOOLEAN
    BY <1>1 DEF TypeOK
  <2> QED
    BY <1>1, <2>1, <2>2, <2>3, <2>4, <2>5, <2>6 DEF TypeOK
<1>8. Locks'
  BY <1>1, <1>4, <1>5 DEF Inv, Locks
<1>9. ASSUME NEW k \in Msg PROVE MsgInv(k)'
  <2>1. CASE k # m
    <3>1. Untouched(k)
      BY <1>1, <1>4, <1>6, <2>1 DEF Untouched, TypeOK, Thread
    <3> QED
      BY <3>1, <1>1, StaysSo DEF Inv
  <2>2. CASE k = m
    <3>1. Method(m)' = Method(m) /\ IsRequest(m)' = IsRequest(m)
      BY <1>1 DEF Method, IsRequest
    <3>2. PICK w \in {"none", "run", "done"} :
            /\ work' = [work EXCEPT ![m] = w]
            /\ w # "none" => Method(m) = "didSave"
      BY <1>6
    <3>3. work'[m] = w /\ main'[m] \in {"write", "done"}
      BY <1>1, <3>2 DEF TypeOK
    <3>4. todo'[<<m, "main">>] = f /\ todo'[<<m, "work">>] = todo[<<m, "work">>]
      BY <1>4 DEF Thread
    <3>5. todo[<<m, "work">>] = <<>>
      BY <1>5 DEF Inv, MsgInv, Idle
    <3>6. Fresh(m)'
      BY <3>3 DEF Fresh
    <3>7. Idle(m)'
      BY <1>1, <1>5, <3>1, <3>2, <3>3, <3>4, <3>5 DEF Idle, Content
    <3>8. MainTodo(m)'
      <4>1. Apart(f)
        BY <1>2, <1>3 DEF ReplyShape, Apart
      <4>2. ASSUME NEW i \in 1 .. Len(f)
            PROVE  Plain(m, f, i)' /\ Begins(m, f, i)' /\ Answers(m, f, i)'
        <5>1. f[i] = <<m, s[i]>> /\ s[i] \in Content /\ i \in 1 .. Len(s) /\ f' = f
          BY <1>2, <1>3 DEF f, Frames
        <5>2. Plain(m, f, i)'
          BY <1>1, <1>2, <1>5, <3>1, <5>1 DEF ReplyShape, Plain
        <5>3. Begins(m, f, i)'
          <6>1. f[i] = <<m, "begin">> =>
                  /\ Method(m) = "executeCommand"
                  /\ \E j \in 1 .. Len(f) : j < i /\ f[j] = <<m, "create">>
            BY <1>2, <1>3, <5>1 DEF ReplyShape
          <6> QED
            BY <6>1, <3>1, <3>2, <3>3, <5>1 DEF Begins
        <5>4. Answers(m, f, i)'
          <6>1. ASSUME NEW a \in Answer, f[i] = <<m, a>>
                PROVE  /\ IsRequest(m)
                       /\ \A b \in Answer :
                            <<m, b>> \notin sent /\ \A j \in 1 .. Len(f) : f[j] = <<m, b>> => j = i
            <7>1. s[i] = a
              BY <5>1, <6>1
            <7>2. IsRequest(m) /\ \A j \in 1 .. Len(s) : s[j] \in Answer => j = i
              BY <1>2, <5>1, <7>1 DEF ReplyShape
            <7>3. \A b \in Answer : <<m, b>> \notin sent
              BY <1>5 DEF Content
            <7>4. \A b \in Answer, j \in 1 .. Len(f) : f[j] = <<m, b>> => s[j] = b
              BY <1>3
            <7>5. ASSUME NEW b \in Answer, NEW j \in 1 .. Len(f), f[j] = <<m, b>> PROVE j = i
              <8>1. s[j] = b /\ j \in 1 .. Len(s)
                BY <1>3, <7>4, <7>5
              <8> QED
                BY <7>2, <8>1
            <7> QED
              BY <7>2, <7>3, <7>5
          <6> QED
            BY <6>1, <1>1, <3>1, <5>1 DEF Answers
        <5> QED
          BY <5>2, <5>3, <5>4
      <4>3. f' = f
        BY DEF f, Frames
      <4> QED
        BY <4>1, <4>2, <4>3, <3>4 DEF MainTodo
    <3>9. WorkTodo(m)'
      BY <3>4, <3>5 DEF WorkTodo, Apart
    <3>10. Order(m)'
      BY <1>1, <1>5 DEF Order, Content
    <3> QED
      BY <2>2, <3>6, <3>7, <3>8, <3>9, <3>10 DEF MsgInv
  <2> QED
    BY <2>1, <2>2
<1> QED
  BY <1>1, <1>7, <1>8, <1>9 DEF Inv

LEMMA InvUnchanged ==
  ASSUME Inv, UNCHANGED <<session, read, configs, main, work, todo, mu, half, sent>>,
         exited' \in BOOLEAN
  PROVE  Inv'
<1>1. TypeOK' /\ Locks' /\ Msg' = Msg
  BY DEF Inv, TypeOK, Locks, Msg
<1>2. \A m \in Msg : Untouched(m)
  BY DEF Untouched
<1> QED
  BY <1>1, <1>2, StaysSo DEF Inv

LEMMA InvHandle ==
  ASSUME Inv, NEW m \in Msg, HandleMessage(m)
  PROVE  Inv'
<1>1. main[m] = "handle"
  BY DEF HandleMessage, Initialize, AnswerAtOnce, Unknown, ExecuteCommand, DidSave, ExitNotified, Handling
<1>2. CASE ExitNotified(m)
  BY <1>2, InvUnchanged DEF ExitNotified, output
<1>3. CASE ~ExitNotified(m)
  BY <1>1, <1>3, HandleReplies, InvReply
<1> QED
  BY <1>2, <1>3

LEMMA InvRun ==
  ASSUME Inv, NEW m \in Msg, NEW fails \in BOOLEAN, RunCommand(m, fails)
  PROVE  Inv'
<1>1. /\ TypeOK /\ Msg' = Msg /\ sent' = sent
      /\ UNCHANGED <<session, read, configs, main, mu, half, sent, exited>>
  BY DEF Inv, Msg, RunCommand
<1>2. PICK s \in Reports(m) :
           /\ todo' = [todo EXCEPT ![<<m, "work">>] = Frames(m, s)]
           /\ work' = [work EXCEPT ![m] = IF s = <<>> THEN "done" ELSE "write"]
  BY CommandReports
<1>3. ReportShape(m, s) /\ s \in Seq(Content)
  BY Shapes DEF ReportShape
<1> DEFINE f == Frames(m, s)
<1>4. /\ f \in Seq({m} \X Content) /\ Len(f) = Len(s)
      /\ \A i \in 1 .. Len(s) : f[i] = <<m, s[i]>>
  BY <1>3, FramesFacts
<1>5. f' = f
  BY DEF f, Frames
<1>6. todo' = [todo EXCEPT ![<<m, "work">>] = f]
  BY <1>2 DEF f
<1> HIDE DEF f
<1>7. \A g \in Msg \X Thread : todo'[g] = IF g = <<m, "work">> THEN f ELSE todo[g]
  BY <1>1, <1>6 DEF TypeOK
<1>8. /\ work[m] = "run" /\ todo[<<m, "work">>] = <<>>
      /\ <<m, "end">> \notin sent
      /\ <<m, "show">> \in sent => Method(m) = "initialize"
      /\ Method(m) \in {"executeCommand", "didSave"}
      /\ Method(m) = "executeCommand" => <<m, "begin">> \in sent
  BY DEF RunCommand, Inv, MsgInv, Idle
<1>9. TypeOK'
  <2>1. work' \in [Msg -> {"none", "run", "write", "done"}]
    BY <1>1, <1>2 DEF TypeOK
  <2>2. \A g \in Msg \X Thread : todo'[g] \in Seq({g[1]} \X Content)
    BY <1>1, <1>4, <1>7 DEF TypeOK
  <2>3. DOMAIN todo' = Msg \X Thread
    BY <1>1, <1>6 DEF TypeOK
  <2> QED
    BY <1>1, <2>1, <2>2, <2>3 DEF TypeOK
<1>10. Locks'
  BY <1>1, <1>7, <1>8 DEF Inv, Locks
<1>11. ASSUME NEW k \in Msg PROVE MsgInv(k)'
  <2>1. CASE k # m
    <3>1. Untouched(k)
      BY <1>1, <1>2, <1>7, <2>1 DEF Untouched, TypeOK, Thread
    <3> QED
      BY <3>1, <1>1, StaysSo DEF Inv
  <2>2. CASE k = m
    <3>1. Method(m)' = Method(m) /\ IsRequest(m)' = IsRequest(m)
      BY <1>1 DEF Method, IsRequest
    <3>2. work'[m] \in {"write", "done"}
      BY <1>1, <1>2 DEF TypeOK
    <3>3. todo'[<<m, "work">>] = f /\ todo'[<<m, "main">>] = todo[<<m, "main">>]
      BY <1>7 DEF Thread
    <3>4. Fresh(m)'
      BY <1>1, <1>8 DEF Inv, MsgInv, Fresh
    <3>5. Idle(m)'
      BY <1>8, <3>1, <3>2 DEF Idle
    <3>6. MainTodo(m)'
      <4> DEFINE t == todo[<<m, "main">>]
      <4>1. t' = t
        BY <3>3
      <4>2. MainTodo(m)
        BY DEF Inv, MsgInv
      <4>3. Apart(t)
        BY <4>2 DEF MainTodo
      <4> HIDE DEF t
      <4>4. ASSUME NEW i \in 1 .. Len(t)
            PROVE  Plain(m, t, i)' /\ Begins(m, t, i)' /\ Answers(m, t, i)'
        <5>1. Plain(m, t, i) /\ Begins(m, t, i) /\ Answers(m, t, i)
          BY <4>2 DEF MainTodo, t
        <5>2. t[i] # <<m, "begin">>
          BY <5>1, <1>8 DEF Begins
        <5> QED
          BY <1>1, <3>1, <4>1, <5>1, <5>2 DEF Plain, Begins, Answers
      <4> QED
        BY <4>1, <4>3, <4>4 DEF MainTodo, t, Apart
    <3>7. WorkTodo(m)'
      <4>1. Apart(f)
        BY <1>3, <1>4 DEF ReportShape, Apart
      <4>2. ASSUME NEW i \in 1 .. Len(f)
            PROVE  /\ f[i] \notin sent
                   /\ f[i] \in {<<m, "show">>, <<m, "end">>}
                   /\ f[i] = <<m, "end">> => <<m, "begin">> \in sent
        <5>1. f[i] = <<m, s[i]>> /\ s[i] \in {"show", "end"} /\ (s[i] = "end" => Method(m) = "executeCommand")
          BY <1>3, <1>4 DEF ReportShape
        <5> QED
          BY <5>1, <1>8
      <4> QED
        BY <1>1, <3>3, <4>1, <4>2 DEF WorkTodo
    <3>8. Order(m)'
      BY <1>1, <3>1 DEF Inv, MsgInv, Order
    <3> QED
      BY <2>2, <3>4, <3>5, <3>6, <3>7, <3>8 DEF MsgInv
  <2> QED
    BY <2>1, <2>2
<1> QED
  BY <1>1, <1>9, <1>10, <1>11 DEF Inv

LEMMA InvHeader ==
  ASSUME Inv, NEW g \in Msg \X Thread, WriteHeader(g)
  PROVE  Inv'
<1>1. /\ TypeOK /\ Msg' = Msg /\ todo[g] # <<>> /\ mu = Nobody /\ mu' = g
      /\ half' = half \cup {Head(todo[g])}
      /\ UNCHANGED <<session, read, configs, main, work, todo, sent, exited>>
  BY DEF Inv, Msg, WriteHeader
<1>2. half = {}
  BY <1>1 DEF TypeOK
<1>3. Head(todo[g]) \in Msg \X Content /\ Nobody # g
  <2>1. todo[g] \in Seq({g[1]} \X Content)
    BY <1>1 DEF TypeOK
  <2>2. Head(todo[g]) \in {g[1]} \X Content
    BY <1>1, <2>1
  <2> QED
    BY <1>1, <2>2, Messages
<1>4. TypeOK'
  BY <1>1, <1>2, <1>3 DEF TypeOK
<1>5. Locks'
  BY <1>1, <1>2 DEF Locks
<1>6. \A m \in Msg : Untouched(m)
  BY <1>1 DEF Untouched
<1> QED
  BY <1>1, <1>4, <1>5, <1>6, StaysSo DEF Inv

\* A frame leaves the front of a queue.
LEMMA Rest ==
  ASSUME NEW S, NEW t \in Seq(S), t # <<>>
  PROVE  /\ Tail(t) \in Seq(S) /\ Head(t) \in S /\ Head(t) = t[1] /\ 1 \in 1 .. Len(t)
         /\ Len(Tail(t)) = Len(t) - 1 /\ Len(t) \in Nat
         /\ \A i \in 1 .. Len(Tail(t)) : i + 1 \in 1 .. Len(t) /\ Tail(t)[i] = t[i + 1]
OBVIOUS

LEMMA RestApart ==
  ASSUME NEW S, NEW t \in Seq(S), t # <<>>, Apart(t)
  PROVE  Apart(Tail(t)) /\ \A i \in 1 .. Len(Tail(t)) : Tail(t)[i] # Head(t)
<1>1. \A i, j \in 1 .. Len(Tail(t)) : Tail(t)[i] = Tail(t)[j] => i = j
  <2> SUFFICES ASSUME NEW i \in 1 .. Len(Tail(t)), NEW j \in 1 .. Len(Tail(t)),
                      Tail(t)[i] = Tail(t)[j]
               PROVE  i = j
    OBVIOUS
  <2>1. i + 1 \in 1 .. Len(t) /\ j + 1 \in 1 .. Len(t) /\ t[i + 1] = t[j + 1]
    BY Rest
  <2>2. i + 1 = j + 1
    BY <2>1 DEF Apart
  <2> QED
    BY <2>2
<1>2. ASSUME NEW i \in 1 .. Len(Tail(t)) PROVE Tail(t)[i] # Head(t)
  <2>1. i + 1 \in 1 .. Len(t) /\ 1 \in 1 .. Len(t) /\ i + 1 # 1
        /\ Tail(t)[i] = t[i + 1] /\ Head(t) = t[1]
    BY Rest
  <2> QED
    BY <2>1 DEF Apart
<1> QED
  BY <1>1, <1>2 DEF Apart

\* The body of a frame of message m, written by its goroutine k.
LEMMA InvBody ==
  ASSUME Inv, NEW m \in Msg, NEW k \in Thread, WriteBody(<<m, k>>)
  PROVE  Inv'
<1> DEFINE g == <<m, k>>
           t == todo[g]
           r == Tail(t)
           f == Head(t)
<1>1. /\ TypeOK /\ Msg' = Msg /\ session' = session
      /\ Method(m)' = Method(m) /\ IsRequest(m)' = IsRequest(m)
      /\ UNCHANGED <<session, read, configs, exited>>
  BY DEF Inv, Msg, WriteBody, Method, IsRequest
<1>2. /\ mu = g /\ mu' = Nobody /\ half' = half \ {f} /\ sent' = sent \cup {f}
      /\ todo' = [todo EXCEPT ![g] = r]
      /\ main' = [main EXCEPT ![m] = IF k = "main" /\ Len(t) = 1 THEN "done" ELSE @]
      /\ work' = [work EXCEPT ![m] = IF f = <<m, "begin">> THEN "run"
                                     ELSE IF k = "work" /\ Len(t) = 1 THEN "done" ELSE @]
  BY DEF WriteBody
<1>3. t # <<>> /\ half = {f}
  BY <1>2 DEF Inv, Locks
<1>4. /\ t \in Seq({m} \X Content)
      /\ \A i \in 1 .. Len(t) : \E c \in Content : t[i] = <<m, c>>
  BY <1>1, FrameOf
<1>5. /\ r \in Seq({m} \X Content) /\ f = t[1] /\ 1 \in 1 .. Len(t)
      /\ Len(r) = Len(t) - 1 /\ Len(t) \in Nat
      /\ \A i \in 1 .. Len(r) : i + 1 \in 1 .. Len(t) /\ r[i] = t[i + 1]
  BY <1>3, <1>4, Rest
<1>6. PICK c \in Content : f = <<m, c>>
  BY <1>4, <1>5
<1>7. \A h \in Msg \X Thread : todo'[h] = IF h = g THEN r ELSE todo[h]
  BY <1>1, <1>2 DEF TypeOK
<1>8. half' = {}
  BY <1>2, <1>3
<1>9. MsgInv(m)
  BY DEF Inv
<1>10. main[m] \notin {"unread", "handle"}
  BY <1>3, <1>9 DEF MsgInv, Fresh, Idle, Thread
<1>11. k = "work" => work[m] \notin {"none", "run"} /\ c \in {"show", "end"}
  BY <1>3, <1>5, <1>6, <1>9 DEF MsgInv, Idle, WorkTodo
<1>12. k = "main" => /\ c # "end"
                     /\ c = "show" => Method(m) = "initialize"
                     /\ c = "begin" => /\ Method(m) = "executeCommand" /\ work[m] = "none"
                                       /\ <<m, "create">> \in sent
  <2>1. k = "main" => Plain(m, t, 1) /\ Begins(m, t, 1)
    BY <1>5, <1>9 DEF MsgInv, MainTodo
  <2>2. \A j \in 1 .. Len(t) : ~(j < 1)
    BY <1>5
  <2> QED
    BY <1>5, <1>6, <2>1, <2>2 DEF Plain, Begins
<1>13. Apart(t) /\ f \notin sent
  <2>1. CASE k = "main"
    BY <2>1, <1>5, <1>9 DEF MsgInv, MainTodo, Plain
  <2>2. CASE k = "work"
    BY <2>2, <1>5, <1>9 DEF MsgInv, WorkTodo
  <2> QED
    BY <2>1, <2>2 DEF Thread
<1>14. Apart(r) /\ \A i \in 1 .. Len(r) : r[i] # f
  BY <1>3, <1>4, <1>13, RestApart
<1> HIDE DEF t, r, f
<1>15. TypeOK'
  <2>1. main' \in [Msg -> {"unread", "handle", "write", "done"}]
    BY <1>1, <1>2 DEF TypeOK
  <2>2. work' \in [Msg -> {"none", "run", "write", "done"}]
    BY <1>1, <1>2 DEF TypeOK
  <2>3. \A h \in Msg : (main'[h] = "unread") = (main[h] = "unread")
    BY <1>1, <1>2, <1>10 DEF TypeOK
  <2>4. \A h \in Msg \X Thread : todo'[h] \in Seq({h[1]} \X Content)
    BY <1>1, <1>5, <1>7 DEF TypeOK
  <2>5. DOMAIN todo' = Msg \X Thread
    BY <1>1, <1>2 DEF TypeOK
  <2>6. half' \cup sent' \subseteq Msg \X Content /\ (mu' = Nobody <=> half' = {})
    BY <1>1, <1>2, <1>6, <1>8 DEF TypeOK
  <2>7. mu' \in (Msg \X Thread) \cup {Nobody}
    BY <1>2
  <2> QED
    BY <1>1, <2>1, <2>2, <2>3, <2>4, <2>5, <2>6, <2>7 DEF TypeOK
<1>16. Locks'
  BY <1>1, <1>2, Messages DEF Locks
<1>17. ASSUME NEW h \in Msg, h # m PROVE MsgInv(h)'
  <2>1. \A x : <<h, x>> \in sent' <=> <<h, x>> \in sent
    BY <1>2, <1>6, <1>17
  <2>2. main'[h] = main[h] /\ work'[h] = work[h]
    BY <1>1, <1>2, <1>17 DEF TypeOK
  <2>3. todo'[<<h, "main">>] = todo[<<h, "main">>] /\ todo'[<<h, "work">>] = todo[<<h, "work">>]
    BY <1>7, <1>17 DEF Thread
  <2>4. Untouched(h)
    BY <1>1, <2>1, <2>2, <2>3 DEF Untouched
  <2> QED
    BY <1>1, <2>4, StaysSo DEF Inv
<1>18. /\ main'[m] = IF k = "main" /\ Len(t) = 1 THEN "done" ELSE main[m]
       /\ work'[m] = IF f = <<m, "begin">> THEN "run"
                     ELSE IF k = "work" /\ Len(t) = 1 THEN "done" ELSE work[m]
  BY <1>1, <1>2 DEF TypeOK
<1>19. \A x : <<m, x>> \in sent' <=> <<m, x>> \in sent \/ x = c
  BY <1>2, <1>6
<1>20. Fresh(m)'
  BY <1>10, <1>18 DEF Fresh
<1>21. ASSUME k = "main" PROVE MsgInv(m)'
  <2>1. todo'[<<m, "main">>] = r /\ todo'[<<m, "work">>] = todo[<<m, "work">>] /\ t = todo[<<m, "main">>]
    BY <1>7, <1>21 DEF t, Thread
  <2>2. work'[m] = IF c = "begin" THEN "run" ELSE work[m]
    BY <1>6, <1>18, <1>21
  <2>3. Idle(m)'
    BY <1>1, <1>9, <1>12, <1>19, <1>21, <2>1, <2>2 DEF MsgInv, Idle
  <2>4. WorkTodo(m)'
    <3> DEFINE w == todo[<<m, "work">>]
    <3>1. WorkTodo(m)
      BY <1>9 DEF MsgInv
    <3>2. c # "end" /\ (w # <<>> => c # "show")
      BY <1>9, <1>12, <1>21 DEF MsgInv, Idle
    <3>3. Apart(w) /\ \A i \in 1 .. Len(w) :
             /\ w[i] \notin sent
             /\ w[i] \in {<<m, "show">>, <<m, "end">>}
             /\ w[i] = <<m, "end">> => <<m, "begin">> \in sent
      BY <3>1 DEF WorkTodo
    <3>4. w \in Seq({m} \X Content)
      BY <1>1, FrameOf DEF Thread
    <3> HIDE DEF w
    <3>5. ASSUME NEW i \in 1 .. Len(w) PROVE w[i] \notin sent'
      <4>1. w # <<>>
        BY <3>4, <3>5
      <4>2. w[i] # f
        BY <3>2, <3>3, <4>1, <1>6
      <4> QED
        BY <3>3, <4>2, <1>2
    <3>6. todo'[<<m, "work">>] = w
      BY <2>1 DEF w
    <3> QED
      BY <1>2, <3>3, <3>5, <3>6 DEF WorkTodo
  <2>5. MainTodo(m)'
    <3>1. \A i \in 1 .. Len(t) : Plain(m, t, i) /\ Begins(m, t, i) /\ Answers(m, t, i)
      BY <1>9, <2>1 DEF MsgInv, MainTodo
    <3>2. ASSUME NEW i \in 1 .. Len(r)
          PROVE  /\ r[i] \notin sent'
                 /\ r[i] # <<m, "end">>
                 /\ r[i] = <<m, "show">> => Method(m) = "initialize"
      BY <3>1, <1>2, <1>5, <1>14 DEF Plain
    <3>3. ASSUME NEW i \in 1 .. Len(r), r[i] = <<m, "begin">>
          PROVE  /\ Method(m) = "executeCommand" /\ work'[m] = "none"
                 /\ \/ <<m, "create">> \in sent'
                    \/ \E j \in 1 .. Len(r) : j < i /\ r[j] = <<m, "create">>
      <4>1. i + 1 \in 1 .. Len(t) /\ t[i + 1] = <<m, "begin">> /\ f # <<m, "begin">>
        BY <1>5, <1>14, <3>3
      <4>2. /\ Method(m) = "executeCommand" /\ work[m] = "none"
            /\ \/ <<m, "create">> \in sent
               \/ \E j \in 1 .. Len(t) : j < i + 1 /\ t[j] = <<m, "create">>
        BY <3>1, <4>1 DEF Begins
      <4>3. work'[m] = "none"
        BY <1>6, <2>2, <4>1, <4>2
      <4>4. CASE <<m, "create">> \in sent
        BY <1>2, <4>2, <4>3, <4>4
      <4>5. ASSUME NEW j \in 1 .. Len(t), j < i + 1, t[j] = <<m, "create">>
            PROVE  \/ <<m, "create">> \in sent'
                   \/ \E l \in 1 .. Len(r) : l < i /\ r[l] = <<m, "create">>
        <5>1. CASE j = 1
          BY <1>2, <1>5, <4>5, <5>1
        <5>2. CASE j # 1
          <6>1. j - 1 \in 1 .. Len(r) /\ j - 1 < i /\ (j - 1) + 1 = j
            BY <1>5, <4>5, <5>2
          <6>2. r[j - 1] = t[j]
            BY <1>5, <6>1
          <6> QED
            BY <4>5, <6>1, <6>2
        <5> QED
          BY <5>1, <5>2
      <4> QED
        BY <4>2, <4>3, <4>4, <4>5
    <3>4. ASSUME NEW i \in 1 .. Len(r), NEW a \in Answer, r[i] = <<m, a>>
          PROVE  /\ IsRequest(m)
                 /\ \A b \in Answer :
                      <<m, b>> \notin sent' /\ \A j \in 1 .. Len(r) : r[j] = <<m, b>> => j = i
      <4>1. i + 1 \in 1 .. Len(t) /\ t[i + 1] = <<m, a>>
        BY <1>5, <3>4
      <4>2. /\ IsRequest(m)
            /\ \A b \in Answer :
                 <<m, b>> \notin sent /\ \A j \in 1 .. Len(t) : t[j] = <<m, b>> => j = i + 1
        BY <3>1, <4>1 DEF Answers
      <4>3. 1 # i + 1
        BY <1>5
      <4>4. ASSUME NEW b \in Answer PROVE <<m, b>> \notin sent'
        <5>1. t[1] # <<m, b>>
          BY <1>5, <4>2, <4>3
        <5> QED
          BY <1>2, <1>5, <4>2, <5>1
      <4>5. ASSUME NEW b \in Answer, NEW j \in 1 .. Len(r), r[j] = <<m, b>> PROVE j = i
        <5>1. j + 1 \in 1 .. Len(t) /\ t[j + 1] = <<m, b>>
          BY <1>5, <4>5
        <5>2. j + 1 = i + 1
          BY <4>2, <5>1
        <5> QED
          BY <5>2
      <4> QED
        BY <4>2, <4>4, <4>5
    <3>5. todo'[<<m, "main">>] = r
      BY <2>1
    <3> DEFINE q == todo[<<m, "main">>]
    <3>6. q' = r
      BY <3>5
    <3> HIDE DEF q
    <3>7. ASSUME NEW i \in 1 .. Len(r) PROVE (Plain(m, q, i) /\ Begins(m, q, i) /\ Answers(m, q, i))'
      <4>1. Plain(m, q, i)'
        BY <1>1, <3>2, <3>6 DEF Plain
      <4>2. Begins(m, q, i)'
        BY <1>1, <3>3, <3>6 DEF Begins
      <4>3. Answers(m, q, i)'
        BY <1>1, <3>4, <3>6 DEF Answers
      <4> QED
        BY <4>1, <4>2, <4>3
    <3>8. Apart(q)'
      BY <1>14, <3>6 DEF Apart
    <3> QED
      BY <3>6, <3>7, <3>8 DEF MainTodo, q
  <2>6. Order(m)'
    <3>1. Answers(m, t, 1)
      BY <1>5, <1>9, <2>1 DEF MsgInv, MainTodo
    <3>2. c \in Answer => IsRequest(m) /\ \A b \in Answer : <<m, b>> \notin sent
      BY <1>5, <1>6, <3>1 DEF Answers
    <3>3. /\ <<m, "end">> \in sent' => <<m, "begin">> \in sent'
          /\ <<m, "begin">> \in sent' => <<m, "create">> \in sent'
      BY <1>9, <1>12, <1>19, <1>21 DEF MsgInv, Order
    <3>4. ASSUME NEW a \in Answer, <<m, a>> \in sent'
          PROVE  IsRequest(m) /\ \A b \in Answer : <<m, b>> \in sent' => a = b
      BY <1>9, <1>19, <3>2, <3>4 DEF MsgInv, Order
    <3> QED
      BY <1>1, <3>3, <3>4 DEF Order
  <2> QED
    BY <1>20, <2>3, <2>4, <2>5, <2>6 DEF MsgInv
<1>22. ASSUME k = "work" PROVE MsgInv(m)'
  <2>1. todo'[<<m, "work">>] = r /\ todo'[<<m, "main">>] = todo[<<m, "main">>] /\ t = todo[<<m, "work">>]
    BY <1>7, <1>22 DEF t, Thread
  <2>2. work'[m] \in {work[m], "done"} /\ work'[m] \notin {"none", "run"}
    BY <1>6, <1>11, <1>18, <1>22
  <2>3. Idle(m)'
    BY <1>1, <1>9, <1>11, <1>22, <2>2 DEF MsgInv, Idle
  <2>4. WorkTodo(m)'
    <3>1. \A i \in 1 .. Len(t) :
             /\ t[i] \notin sent
             /\ t[i] \in {<<m, "show">>, <<m, "end">>}
             /\ t[i] = <<m, "end">> => <<m, "begin">> \in sent
      BY <1>9, <2>1 DEF MsgInv, WorkTodo
    <3>2. ASSUME NEW i \in 1 .. Len(r)
          PROVE  /\ r[i] \notin sent'
                 /\ r[i] \in {<<m, "show">>, <<m, "end">>}
                 /\ r[i] = <<m, "end">> => <<m, "begin">> \in sent'
      BY <3>1, <1>2, <1>5, <1>14
    <3> QED
      BY <1>14, <2>1, <3>2 DEF WorkTodo
  <2>5. MainTodo(m)'
    <3> DEFINE q == todo[<<m, "main">>]
    <3>1. Apart(q) /\ \A i \in 1 .. Len(q) : Plain(m, q, i) /\ Begins(m, q, i) /\ Answers(m, q, i)
      BY <1>9 DEF MsgInv, MainTodo
    <3>2. q' = q
      BY <2>1
    <3> HIDE DEF q
    <3>3. work[m] # "none" /\ Method(m) \in {"executeCommand", "didSave"}
      BY <1>9, <1>11, <1>22 DEF MsgInv, Idle
    <3>4. ASSUME NEW i \in 1 .. Len(q)
          PROVE  (Plain(m, q, i) /\ Begins(m, q, i) /\ Answers(m, q, i))'
      <4>1. Plain(m, q, i) /\ Begins(m, q, i) /\ Answers(m, q, i)
        BY <3>1
      <4>2. q[i] # f
        BY <4>1, <1>6, <1>11, <1>22, <3>3 DEF Plain
      <4>3. Plain(m, q, i)'
        BY <1>1, <1>2, <3>2, <4>1, <4>2 DEF Plain
      <4>4. Begins(m, q, i)'
        BY <3>2, <3>3, <4>1 DEF Begins
      <4>5. Answers(m, q, i)'
        <5>1. \A b \in Answer : b # c
          BY <1>11, <1>22 DEF Answer
        <5> QED
          BY <1>1, <1>19, <3>2, <4>1, <5>1 DEF Answers
      <4> QED
        BY <4>3, <4>4, <4>5
    <3> QED
      BY <3>1, <3>2, <3>4 DEF MainTodo, q, Apart
  <2>6. Order(m)'
    <3>1. c = "end" => <<m, "begin">> \in sent
      BY <1>5, <1>6, <1>9, <2>1 DEF MsgInv, WorkTodo
    <3>2. c \notin Answer /\ c # "begin"
      BY <1>11, <1>22 DEF Answer
    <3> QED
      BY <1>1, <1>9, <1>19, <3>1, <3>2 DEF MsgInv, Order
  <2> QED
    BY <1>20, <2>3, <2>4, <2>5, <2>6 DEF MsgInv
<1>23. MsgInv(m)'
  BY <1>21, <1>22 DEF Thread
<1> QED
  BY <1>1, <1>15, <1>16, <1>17, <1>23 DEF Inv

--------------------------------------------------------------------------------

THEOREM InvCorrect == Spec => []Inv
<1>1. Inv /\ [Next]_vars => Inv'
  <2> SUFFICES ASSUME Inv, [Next]_vars PROVE Inv'
    OBVIOUS
  <2>1. CASE Read
    BY <2>1, InvRead
  <2>2. ASSUME NEW m \in Msg, HandleMessage(m) PROVE Inv'
    BY <2>2, InvHandle
  <2>3. ASSUME NEW m \in Msg, NEW fails \in BOOLEAN, RunCommand(m, fails) PROVE Inv'
    BY <2>3, InvRun
  <2>4. ASSUME NEW g \in Msg \X Thread, WriteHeader(g) PROVE Inv'
    BY <2>4, InvHeader
  <2>5. ASSUME NEW g \in Msg \X Thread, WriteBody(g) PROVE Inv'
    <3>1. PICK m \in Msg, k \in Thread : g = <<m, k>>
      OBVIOUS
    <3> QED
      BY <2>5, <3>1, InvBody
  <2>6. CASE HangUp
    BY <2>6, InvUnchanged DEF HangUp, output
  <2>7. CASE Terminated \/ UNCHANGED vars
    <3>1. UNCHANGED <<session, read, configs, main, work, todo, mu, half, sent>> /\ exited' = exited
      BY <2>7 DEF Terminated, vars, output
    <3> QED
      BY <3>1, InvUnchanged DEF Inv, TypeOK
  <2> QED
    BY <2>1, <2>2, <2>3, <2>4, <2>5, <2>6, <2>7 DEF Next
<1> QED
  BY <1>1, InvInit, PTL DEF Spec

\* Types: the variables stay in their ranges, every goroutine has only frames of its own
\* message left, and s.mu is free exactly when no frame is begun and not finished.
THEOREM TypeCorrect == Spec => []TypeOK
<1>1. Inv => TypeOK
  BY DEF Inv
<1> QED
  BY <1>1, InvCorrect, PTL

\* What half holds while somebody writes.
LEMMA HalfFrame ==
  ASSUME Inv
  PROVE  \/ half = {}
         \/ \E m \in Msg, k \in Thread :
              /\ todo[<<m, k>>] \in Seq({m} \X Content) /\ todo[<<m, k>>] # <<>>
              /\ half = {todo[<<m, k>>][1]} /\ 1 \in 1 .. Len(todo[<<m, k>>])
<1>1. CASE mu = Nobody
  BY <1>1 DEF Inv, TypeOK
<1>2. CASE mu # Nobody
  <2>1. PICK m \in Msg, k \in Thread : mu = <<m, k>>
    BY <1>2 DEF Inv, TypeOK
  <2>2. todo[<<m, k>>] # <<>> /\ half = {Head(todo[<<m, k>>])}
    BY <2>1 DEF Inv, Locks
  <2>3. todo[<<m, k>>] \in Seq({m} \X Content)
    BY FrameOf DEF Inv
  <2> QED
    BY <2>2, <2>3, Rest
<1> QED
  BY <1>1, <1>2

\* A set without two members.
LEMMA AtMostOne ==
  ASSUME NEW A, \A a, b \in A : a = b
  PROVE  Cardinality(A) <= 1
<1>1. CASE A = {}
  BY <1>1, FS_EmptySet
<1>2. ASSUME NEW a \in A PROVE Cardinality(A) <= 1
  <2>1. A = {a}
    BY <1>2
  <2>2. Cardinality({a}) = 1
    BY FS_Singleton
  <2> QED
    BY <2>1, <2>2
<1> QED
  BY <1>1, <1>2

\* A header is followed by its own body, for any number of goroutines that write
\* (server.go, writeMessage).
THEOREM FramesWholeCorrect == Spec => []FramesWhole
<1>1. Inv => FramesWhole
  <2> SUFFICES ASSUME Inv PROVE Cardinality(half) <= 1
    BY DEF FramesWhole
  <2>1. \A e, f \in half : e = f
    BY HalfFrame
  <2> QED
    BY <2>1, AtMostOne
<1> QED
  BY <1>1, InvCorrect, PTL

\* A frame being written is not on stdout yet, and keeps the order.
LEMMA HalfOrder ==
  ASSUME Inv, NEW m \in Msg, NEW c \in Content, <<m, c>> \in half
  PROVE  /\ half = {<<m, c>>} /\ <<m, c>> \notin sent
         /\ c = "end" => <<m, "begin">> \in sent
         /\ c = "begin" => <<m, "create">> \in sent
         /\ c \in Answer => IsRequest(m) /\ \A b \in Answer : <<m, b>> \notin sent
<1>1. PICK n \in Msg, k \in Thread :
              /\ todo[<<n, k>>] \in Seq({n} \X Content) /\ todo[<<n, k>>] # <<>>
              /\ half = {todo[<<n, k>>][1]} /\ 1 \in 1 .. Len(todo[<<n, k>>])
  BY HalfFrame
<1> DEFINE t == todo[<<n, k>>]
<1>2. t[1] = <<m, c>> /\ half = {<<m, c>>}
  BY <1>1
<1>3. n = m
  <2>1. t[1] \in {n} \X Content
    BY <1>1
  <2> QED
    BY <1>2, <2>1
<1>4. MsgInv(m)
  BY DEF Inv
<1>5. CASE k = "main"
  <2>1. Plain(m, t, 1) /\ Begins(m, t, 1) /\ Answers(m, t, 1)
    BY <1>1, <1>3, <1>4, <1>5 DEF MsgInv, MainTodo
  <2>2. <<m, c>> \notin sent /\ c # "end"
    BY <1>2, <2>1 DEF Plain
  <2>3. c = "begin" => <<m, "create">> \in sent
    <3>1. \A j \in 1 .. Len(t) : ~(j < 1)
      BY <1>1
    <3> QED
      BY <1>2, <2>1, <3>1 DEF Begins
  <2>4. c \in Answer => IsRequest(m) /\ \A b \in Answer : <<m, b>> \notin sent
    BY <1>2, <2>1 DEF Answers
  <2> QED
    BY <1>2, <2>2, <2>3, <2>4
<1>6. CASE k = "work"
  <2>1. /\ t[1] \notin sent
        /\ t[1] \in {<<m, "show">>, <<m, "end">>}
        /\ t[1] = <<m, "end">> => <<m, "begin">> \in sent
    BY <1>1, <1>3, <1>4, <1>6 DEF MsgInv, WorkTodo
  <2>2. c \in {"show", "end"}
    BY <1>2, <2>1
  <2> QED
    BY <1>2, <2>1, <2>2 DEF Answer
<1> QED
  BY <1>5, <1>6 DEF Thread

\* The editor sees of each progress create, begin, end, in this order, for any number of
\* commands at once (handler.go, handleExecuteCommand and its goroutine).
THEOREM ProgressInOrderCorrect == Spec => []ProgressInOrder
<1>1. Inv => ProgressInOrder
  <2> SUFFICES ASSUME Inv, NEW m \in Msg
               PROVE  /\ <<m, "end">> \in half \cup sent => <<m, "begin">> \in sent
                      /\ <<m, "begin">> \in half \cup sent => <<m, "create">> \in sent
    BY DEF ProgressInOrder
  <2>1. Order(m) /\ "end" \in Content /\ "begin" \in Content
    BY DEF Inv, MsgInv, Content
  <2> QED
    BY <2>1, HalfOrder DEF Order
<1> QED
  BY <1>1, InvCorrect, PTL

\* A request gets at most one answer and a notification none, and no frame is sent twice
\* (server.go, dispatch), for any number of messages handled at once.
THEOREM AnsweredOnceCorrect == Spec => []AnsweredOnce
<1>1. Inv => AnsweredOnce
  <2> SUFFICES ASSUME Inv PROVE AnsweredOnce
    OBVIOUS
  <2>1. half \cap sent = {}
    <3>1. half \cup sent \subseteq Msg \X Content
      BY DEF Inv, TypeOK
    <3>2. ASSUME NEW f \in half PROVE f \notin sent
      <4>1. PICK m \in Msg, c \in Content : f = <<m, c>>
        BY <3>1, <3>2
      <4> QED
        BY <3>2, <4>1, HalfOrder
    <3> QED
      BY <3>2
  <2>2. ASSUME NEW m \in Msg
        PROVE  Cardinality({a \in Answer : <<m, a>> \in half \cup sent}) <= 1
    <3> DEFINE A == {a \in Answer : <<m, a>> \in half \cup sent}
    <3>1. Order(m) /\ Answer \subseteq Content
      BY DEF Inv, MsgInv, Content
    <3>2. ASSUME NEW a \in A, NEW b \in A PROVE a = b
      <4>1. CASE <<m, a>> \in half
        <5>1. \A x \in Answer : <<m, x>> \notin sent
          BY <3>1, <4>1, HalfOrder
        <5>2. half = {<<m, a>>}
          BY <3>1, <4>1, HalfOrder
        <5> QED
          BY <5>1, <5>2
      <4>2. CASE <<m, b>> \in half
        <5>1. \A x \in Answer : <<m, x>> \notin sent
          BY <3>1, <4>2, HalfOrder
        <5>2. half = {<<m, b>>}
          BY <3>1, <4>2, HalfOrder
        <5> QED
          BY <5>1, <5>2
      <4>3. CASE <<m, a>> \in sent /\ <<m, b>> \in sent
        BY <3>1, <4>3 DEF Order
      <4> QED
        BY <4>1, <4>2, <4>3
    <3> HIDE DEF A
    <3>3. Cardinality(A) <= 1
      BY <3>2, AtMostOne
    <3> QED
      BY <3>3 DEF A
  <2>3. \A m \in Msg : Answered(m) => IsRequest(m)
    BY DEF Inv, MsgInv, Order, Answered
  <2> QED
    BY <2>1, <2>2, <2>3 DEF AnsweredOnce
<1> QED
  BY <1>1, InvCorrect, PTL
================================================================================

------------------------------- MODULE Scheduler -------------------------------
(***************************************************************************)
(* transfer.Scheduler (internal/transfer/scheduler.go): RunAll starts one  *)
(* goroutine per task, each holding a token of the buffered channel s.sem, *)
(* then waits on a WaitGroup and returns the error that sync.Once kept.    *)
(*                                                                         *)
(* The select of lines 34-39 leaves only the select with its `break`, not  *)
(* the for loop: once ctx is done, a task may be started WITHOUT a token,  *)
(* yet its goroutine still receives one from s.sem when it leaves.         *)
(***************************************************************************)
EXTENDS Integers, FiniteSets

CONSTANTS
  NTasks,       \* len(tasks)
  Concurrency   \* the argument of NewScheduler, cfg.Concurrency in every caller

ASSUME SchedulerAssumption ==
  /\ NTasks \in Nat
  /\ Concurrency \in Int

\* cap(s.sem), as NewScheduler makes it.
Capacity == IF Concurrency <= 0 THEN 4 ELSE Concurrency

Task == 1 .. NTasks
Nil == 0       \* the nil error; the error of task t is named t
CtxErr == -1   \* ctx.Err()

VARIABLES
  next,      \* the task the loop of RunAll is at, NTasks + 1 after the loop
  sem,       \* number of tokens in s.sem
  task,      \* control point of each task's goroutine
  firstErr,  \* the variable the sync.Once guards
  ctxDone,   \* is ctx.Done() closed?
  returned,  \* has RunAll returned?
  failed     \* history: the tasks whose function returned an error

vars == <<next, sem, task, firstErr, ctxDone, returned, failed>>

\* "waiting": not started; "running": inside t(ctx); "leaving": in the deferred
\* function, before it took a token back; "done": after wg.Done.
TaskState == {"waiting", "running", "leaving", "done"}

TypeOK ==
  /\ next \in 1 .. NTasks + 1
  /\ sem \in 0 .. Capacity
  /\ task \in [Task -> TaskState]
  /\ firstErr \in Task \cup {Nil, CtxErr}
  /\ ctxDone \in BOOLEAN
  /\ returned \in BOOLEAN
  /\ failed \subseteq Task

Running == {t \in Task : task[t] = "running"}
Active == {t \in Task : task[t] \in {"running", "leaving"}}

--------------------------------------------------------------------------------

Init ==
  /\ next = 1
  /\ sem = 0
  /\ task = [t \in Task |-> "waiting"]
  /\ firstErr = Nil
  /\ ctxDone = FALSE
  /\ returned = FALSE
  /\ failed = {}

\* Faulty variant: the tokens are counted, but a full channel does not block.
StartTask_Unbounded ==
  /\ next \in Task
  /\ sem' = sem + 1
  /\ task' = [task EXCEPT ![next] = "running"]
  /\ next' = next + 1
  /\ UNCHANGED <<firstErr, ctxDone, returned, failed>>

\* The send on s.sem is chosen; wg.Add and the go statement follow.
StartTask ==
  /\ next \in Task
  /\ sem < Capacity
  /\ sem' = sem + 1
  /\ task' = [task EXCEPT ![next] = "running"]
  /\ next' = next + 1
  /\ UNCHANGED <<firstErr, ctxDone, returned, failed>>

\* Faulty variant: the Once is left out of the cancellation branch.
StartCancelled_Overwrites ==
  /\ next \in Task
  /\ ctxDone
  /\ firstErr' = CtxErr
  /\ task' = [task EXCEPT ![next] = "running"]
  /\ next' = next + 1
  /\ UNCHANGED <<sem, ctxDone, returned, failed>>

\* ctx.Done() is chosen: the task is started all the same, without a token.
StartCancelled ==
  /\ next \in Task
  /\ ctxDone
  /\ firstErr' = IF firstErr = Nil THEN CtxErr ELSE firstErr
  /\ task' = [task EXCEPT ![next] = "running"]
  /\ next' = next + 1
  /\ UNCHANGED <<sem, ctxDone, returned, failed>>

\* t(ctx) returns, with an error or without; once.Do keeps the first error.
FinishTask(t, fails) ==
  /\ task[t] = "running"
  /\ task' = [task EXCEPT ![t] = "leaving"]
  /\ firstErr' = IF fails /\ firstErr = Nil THEN t ELSE firstErr
  /\ failed' = IF fails THEN failed \cup {t} ELSE failed
  /\ UNCHANGED <<next, sem, ctxDone, returned>>

\* Faulty variant: the token is not given back.
LeaveTask_KeepsToken(t) ==
  /\ task[t] = "leaving"
  /\ task' = [task EXCEPT ![t] = "done"]
  /\ UNCHANGED <<next, sem, firstErr, ctxDone, returned, failed>>

\* The deferred function: receive from s.sem (blocking while it is empty), then
\* wg.Done.
LeaveTask(t) ==
  /\ task[t] = "leaving"
  /\ sem > 0
  /\ sem' = sem - 1
  /\ task' = [task EXCEPT ![t] = "done"]
  /\ UNCHANGED <<next, firstErr, ctxDone, returned, failed>>

\* Faulty variant: no wg.Wait.
Return_NoWait ==
  /\ ~returned
  /\ next = NTasks + 1
  /\ returned' = TRUE
  /\ UNCHANGED <<next, sem, task, firstErr, ctxDone, failed>>

\* wg.Wait lets RunAll go on when every goroutine it started has ended.
Return ==
  /\ ~returned
  /\ next = NTasks + 1
  /\ Active = {}
  /\ returned' = TRUE
  /\ UNCHANGED <<next, sem, task, firstErr, ctxDone, failed>>

\* The caller's context is cancelled (the present callers pass one that is not).
Cancel ==
  /\ ~ctxDone
  /\ ~returned
  /\ ctxDone' = TRUE
  /\ UNCHANGED <<next, sem, task, firstErr, returned, failed>>

\* RunAll has returned: nothing is left to do.
Terminated == returned /\ UNCHANGED vars

Next ==
  \/ StartTask
  \/ StartCancelled
  \/ \E t \in Task, fails \in BOOLEAN : FinishTask(t, fails)
  \/ \E t \in Task : LeaveTask(t)
  \/ Return
  \/ Cancel
  \/ Terminated

Spec == Init /\ [][Next]_vars

\* Goroutines that can run are run, and every task's function returns.
Fairness ==
  /\ WF_vars(StartTask \/ StartCancelled)
  /\ \A t \in Task : WF_vars(\E fails \in BOOLEAN : FinishTask(t, fails))
  /\ \A t \in Task : WF_vars(LeaveTask(t))
  /\ WF_vars(Return)

FairSpec == Spec /\ Fairness

--------------------------------------------------------------------------------

\* RunAll's comment: "executes all tasks concurrently up to the concurrency
\* limit".  Until ctx is done, no more task functions are executing than
\* NewScheduler's limit.
ConcurrencyBound == ~ctxDone => Cardinality(Running) <= Capacity

\* Until ctx is done, the tokens in s.sem are exactly those of the goroutines that
\* must still take one back, so the receive of a leaving goroutine never blocks.
TokensHeld == ~ctxDone => sem = Cardinality(Active)

\* RunAll's comment: it "waits for all started tasks to finish".  When it has
\* returned, every task was started and its goroutine is over; the result is nil
\* only if every task succeeded and ctx was not seen done, and otherwise the error
\* of a task that really failed, or of a ctx that really was.
Outcome ==
  returned =>
    /\ \A t \in Task : task[t] = "done"
    /\ \/ firstErr = Nil /\ failed = {}
       \/ firstErr \in failed
       \/ firstErr = CtxErr /\ ctxDone

\* RunAll's comment: "returns the first error encountered": once an error is
\* recorded no later failure and no cancellation replaces it.
FirstErrorKept == [][firstErr # Nil => firstErr' = firstErr]_vars

\* Unless ctx is done in between, RunAll returns when every task's function does:
\* neither the loop waiting for a token nor a leaving goroutine waits for ever.
ReturnsUncancelled == <>(returned \/ ctxDone)

\* RunAll implements the pool its callers rely on.
Pool == INSTANCE TaskPool WITH
          running <- Running,
          finished <- {t \in Task : task[t] \in {"leaving", "done"}}

ImplementsPool == Pool!PoolSpec
================================================================================

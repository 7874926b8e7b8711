------------------------------- MODULE TaskPool -------------------------------
(***************************************************************************)
(* What Scheduler.RunAll promises its callers (internal/transfer), with    *)
(* nothing said of how: tasks run in any order, at most Capacity at once   *)
(* until the context is cancelled; the call returns only after every task  *)
(* has run; the error it returns is the first: that of the task that       *)
(* failed first, or the context's.                                         *)
(***************************************************************************)
EXTENDS Naturals, FiniteSets

CONSTANTS
  Task,      \* the tasks handed to RunAll; a task also names its own error
  Capacity,  \* the concurrency limit
  Nil,       \* the nil error
  CtxErr     \* the error of a cancelled context

VARIABLES
  running,   \* tasks being executed
  finished,  \* tasks whose function has returned
  firstErr,  \* the error RunAll will return
  ctxDone,   \* is the context cancelled?
  returned   \* has RunAll returned?

poolVars == <<running, finished, firstErr, ctxDone, returned>>

PoolInit ==
  /\ running = {}
  /\ finished = {}
  /\ firstErr = Nil
  /\ ctxDone = FALSE
  /\ returned = FALSE

Record(err) == firstErr' = IF firstErr = Nil THEN err ELSE firstErr

PoolStart(t) ==
  /\ ~returned
  /\ t \notin running \cup finished
  /\ \/ Cardinality(running) < Capacity /\ UNCHANGED firstErr
     \/ ctxDone /\ (UNCHANGED firstErr \/ Record(CtxErr))
  /\ running' = running \cup {t}
  /\ UNCHANGED <<finished, ctxDone, returned>>

\* Only the first failure is kept.
PoolFinish(t, fails) ==
  /\ t \in running
  /\ running' = running \ {t}
  /\ finished' = finished \cup {t}
  /\ IF fails THEN Record(t) ELSE UNCHANGED firstErr
  /\ UNCHANGED <<ctxDone, returned>>

PoolReturn ==
  /\ ~returned
  /\ finished = Task
  /\ returned' = TRUE
  /\ UNCHANGED <<running, finished, firstErr, ctxDone>>

PoolCancel ==
  /\ ~ctxDone
  /\ ctxDone' = TRUE
  /\ UNCHANGED <<running, finished, firstErr, returned>>

PoolNext ==
  \/ \E t \in Task : PoolStart(t)
  \/ \E t \in Task, fails \in BOOLEAN : PoolFinish(t, fails)
  \/ PoolReturn
  \/ PoolCancel

PoolSpec == PoolInit /\ [][PoolNext]_poolVars
===============================================================================

----------------------------- MODULE SchedulerProofs -----------------------------
(***************************************************************************)
(* Proofs about Scheduler, for every number of tasks and every concurrency *)
(* argument, whether and whenever the context is cancelled.                *)
(***************************************************************************)
EXTENDS Scheduler, TLAPS, FiniteSetTheorems

\* NewScheduler always makes a channel with room for at least one token.
LEMMA CapacityType == Capacity \in Nat \ {0}
BY SchedulerAssumption DEF Capacity

\* Every step keeps each variable in its range.
THEOREM TypeCorrect == Spec => []TypeOK
<1>1. Init => TypeOK
  <2> SUFFICES ASSUME Init PROVE TypeOK
    OBVIOUS
  <2>1. task \in [Task -> TaskState]
    BY DEF Init, TaskState
  <2>2. next \in 1 .. NTasks + 1 /\ sem \in 0 .. Capacity
    BY SchedulerAssumption, CapacityType DEF Init
  <2> QED
    BY <2>1, <2>2 DEF Init, TypeOK
<1>2. TypeOK /\ [Next]_vars => TypeOK'
  <2> SUFFICES ASSUME TypeOK, [Next]_vars PROVE TypeOK'
    OBVIOUS
  <2> USE SchedulerAssumption, CapacityType DEF TypeOK, Task, TaskState
  <2>1. CASE StartTask
    BY <2>1 DEF StartTask
  <2>2. CASE StartCancelled
    BY <2>2 DEF StartCancelled
  <2>3. ASSUME NEW t \in Task, NEW fails \in BOOLEAN, FinishTask(t, fails) PROVE TypeOK'
    BY <2>3 DEF FinishTask
  <2>4. ASSUME NEW t \in Task, LeaveTask(t) PROVE TypeOK'
    BY <2>4 DEF LeaveTask
  <2>5. CASE Return
    BY <2>5 DEF Return
  <2>6. CASE Cancel
    BY <2>6 DEF Cancel
  <2>7. CASE UNCHANGED vars
    BY <2>7 DEF vars
  <2> QED
    BY <2>1, <2>2, <2>3, <2>4, <2>5, <2>6, <2>7 DEF Next, Terminated
<1> QED
  BY <1>1, <1>2, PTL DEF Spec

--------------------------------------------------------------------------------

\* The loop has started exactly the tasks before the one it is at, and RunAll
\* returns only after the loop and after every goroutine it started.
Progress ==
  /\ \A t \in Task : task[t] = "waiting" <=> t >= next
  /\ returned => next = NTasks + 1 /\ \A t \in Task : task[t] = "done"

\* The recorded error is nil only while nothing failed, and otherwise real.
ErrorReal ==
  /\ firstErr = Nil => failed = {}
  /\ firstErr \in failed \cup {Nil, CtxErr}
  /\ firstErr = CtxErr => ctxDone

\* Both are inductive, given the types.
Inv == Progress /\ ErrorReal

LEMMA InvCorrect == Spec => []Inv
<1>1. Init => Inv
  BY SchedulerAssumption DEF Init, Inv, Progress, ErrorReal, Task, Nil, CtxErr
<1>2. TypeOK /\ Inv /\ [Next]_vars => Inv'
  <2> SUFFICES ASSUME TypeOK, Inv, [Next]_vars PROVE Progress' /\ ErrorReal'
    BY DEF Inv
  <2> USE SchedulerAssumption DEF TypeOK, Inv, Progress, ErrorReal, Task, TaskState, Nil, CtxErr
  <2>1. CASE StartTask
    BY <2>1 DEF StartTask
  <2>2. CASE StartCancelled
    BY <2>2 DEF StartCancelled
  <2>3. ASSUME NEW t \in Task, NEW fails \in BOOLEAN, FinishTask(t, fails)
        PROVE Progress' /\ ErrorReal'
    BY <2>3 DEF FinishTask
  <2>4. ASSUME NEW t \in Task, LeaveTask(t) PROVE Progress' /\ ErrorReal'
    BY <2>4 DEF LeaveTask
  <2>5. CASE Return
    BY <2>5 DEF Return, Active
  <2>6. CASE Cancel
    BY <2>6 DEF Cancel
  <2>7. CASE UNCHANGED vars
    BY <2>7 DEF vars
  <2> QED
    BY <2>1, <2>2, <2>3, <2>4, <2>5, <2>6, <2>7 DEF Next, Terminated
<1> QED
  BY <1>1, <1>2, TypeCorrect, PTL DEF Spec

\* What RunAll returns is what happened: all tasks are over, nil means that all
\* succeeded, an error is that of a task that failed or of the context.
THEOREM OutcomeCorrect == Spec => []Outcome
<1>1. Inv => Outcome
  BY DEF Inv, Progress, ErrorReal, Outcome
<1> QED
  BY <1>1, InvCorrect, PTL

\* The sync.Once: no step replaces an error once recorded.
THEOREM FirstErrorStays == Spec => FirstErrorKept
<1>1. [Next]_vars => [firstErr # Nil => firstErr' = firstErr]_vars
  BY DEF Next, vars, StartTask, StartCancelled, FinishTask, LeaveTask, Return, Cancel,
         Terminated
<1> QED
  BY <1>1, PTL DEF Spec, FirstErrorKept

--------------------------------------------------------------------------------

\* Sets of tasks are finite, and one task more or less is one more or less.
LEMMA TaskCount ==
  ASSUME NEW S \in SUBSET Task
  PROVE  /\ IsFiniteSet(S)
         /\ Cardinality(S) \in Nat
         /\ \A t \in Task : t \notin S => Cardinality(S \cup {t}) = Cardinality(S) + 1
         /\ \A t \in S : Cardinality(S \ {t}) = Cardinality(S) - 1
<1>1. IsFiniteSet(Task)
  BY SchedulerAssumption, FS_Interval DEF Task
<1>2. IsFiniteSet(S)
  BY <1>1, FS_Subset
<1> QED
  BY <1>2, FS_CardinalityType, FS_AddElement, FS_RemoveElement

\* Started goroutines and tokens go together, whatever fails, until ctx is done.
THEOREM TokensHeldCorrect == Spec => []TokensHeld
<1>1. Init => TokensHeld
  <2> SUFFICES ASSUME Init PROVE TokensHeld
    OBVIOUS
  <2>1. Active = {}
    BY DEF Init, Active
  <2> QED
    BY <2>1, FS_EmptySet DEF Init, TokensHeld
<1>2. TypeOK /\ Inv /\ TokensHeld /\ [Next]_vars => TokensHeld'
  <2> SUFFICES ASSUME TypeOK, Inv, TokensHeld, [Next]_vars PROVE TokensHeld'
    OBVIOUS
  <2> USE SchedulerAssumption DEF TypeOK, TokensHeld
  <2>1. CASE StartTask
    <3>1. next \in Task /\ next \notin Active /\ Active' = Active \cup {next}
      BY <2>1 DEF StartTask, Active, Inv, Progress, Task
    <3> QED
      BY <3>1, <2>1, TaskCount DEF StartTask, Active
  <2>2. CASE StartCancelled
    BY <2>2 DEF StartCancelled
  <2>3. ASSUME NEW t \in Task, NEW fails \in BOOLEAN, FinishTask(t, fails) PROVE TokensHeld'
    <3>1. Active' = Active
      BY <2>3 DEF FinishTask, Active
    <3> QED
      BY <3>1, <2>3 DEF FinishTask
  <2>4. ASSUME NEW t \in Task, LeaveTask(t) PROVE TokensHeld'
    <3>1. t \in Active /\ Active' = Active \ {t}
      BY <2>4 DEF LeaveTask, Active
    <3> QED
      BY <3>1, <2>4, TaskCount DEF LeaveTask, Active
  <2>5. CASE Return
    BY <2>5 DEF Return, Active
  <2>6. CASE Cancel
    BY <2>6 DEF Cancel
  <2>7. CASE UNCHANGED vars
    BY <2>7 DEF vars, Active
  <2> QED
    BY <2>1, <2>2, <2>3, <2>4, <2>5, <2>6, <2>7 DEF Next, Terminated
<1> QED
  BY <1>1, <1>2, TypeCorrect, InvCorrect, PTL DEF Spec

\* Never more task functions run at once than the limit, because each running one
\* has a token and the channel holds no more than Capacity.
THEOREM BoundCorrect == Spec => []ConcurrencyBound
<1>1. TypeOK /\ TokensHeld => ConcurrencyBound
  <2> SUFFICES ASSUME TypeOK, TokensHeld, ~ctxDone PROVE Cardinality(Running) <= Capacity
    BY DEF ConcurrencyBound
  <2>1. Running \subseteq Active /\ IsFiniteSet(Active)
    BY TaskCount DEF Running, Active
  <2>2. Cardinality(Running) <= Cardinality(Active)
    BY <2>1, FS_Subset
  <2>3. Cardinality(Running) \in Nat /\ Cardinality(Active) \in Nat
    BY TaskCount DEF Running, Active
  <2> QED
    BY <2>2, <2>3, CapacityType DEF TypeOK, TokensHeld
<1> QED
  BY <1>1, TypeCorrect, TokensHeldCorrect, PTL

--------------------------------------------------------------------------------

\* RunAll refines the abstract pool: starting, finishing, returning and cancelling
\* are the pool's steps, taking a token back is invisible.
THEOREM RefinesPool == Spec => ImplementsPool
<1> DEFINE Over == {t \in Task : task[t] \in {"leaving", "done"}}
<1>1. Init => Pool!PoolInit
  BY DEF Init, Running, Pool!PoolInit
<1>2. TypeOK /\ Inv /\ TokensHeld /\ [Next]_vars
      => [Pool!PoolNext]_Pool!poolVars
  <2> SUFFICES ASSUME TypeOK, Inv, TokensHeld, [Next]_vars
               PROVE  Pool!PoolNext \/ UNCHANGED Pool!poolVars
    OBVIOUS
  <2> USE SchedulerAssumption DEF TypeOK
  <2>1. ASSUME next \in Task, task' = [task EXCEPT ![next] = "running"]
        PROVE  /\ ~returned
               /\ next \notin Running \cup Over
               /\ Running' = Running \cup {next}
               /\ Over' = Over
    <3>1. task[next] = "waiting" /\ ~returned
      BY <2>1 DEF Inv, Progress, Task
    <3> QED
      BY <3>1, <2>1 DEF Running
  <2>2. CASE StartTask
    <3>1. Running' = Running \cup {next} /\ next \notin Running \cup Over /\ Over' = Over
      BY <2>1, <2>2 DEF StartTask
    <3>2. ~ctxDone => Cardinality(Running) < Capacity
      <4>1. Running \subseteq Active /\ IsFiniteSet(Active)
        BY TaskCount DEF Running, Active
      <4>2. Cardinality(Running) <= Cardinality(Active)
        BY <4>1, FS_Subset
      <4>3. Cardinality(Running) \in Nat /\ Cardinality(Active) \in Nat
        BY TaskCount DEF Running, Active
      <4> QED
        BY <4>2, <4>3, <2>2, CapacityType DEF StartTask, TokensHeld
    <3>3. Pool!Cardinality(Running) = Cardinality(Running)
      BY DEF Pool!Cardinality, Cardinality
    <3>4. Pool!PoolStart(next)
      BY <3>1, <3>2, <3>3, <2>1, <2>2 DEF StartTask, Pool!PoolStart
    <3> QED
      BY <3>4, <2>2 DEF StartTask, Pool!PoolNext
  <2>3. CASE StartCancelled
    <3>1. Running' = Running \cup {next} /\ next \notin Running \cup Over /\ Over' = Over
      BY <2>1, <2>3 DEF StartCancelled
    <3>2. Pool!PoolStart(next)
      BY <3>1, <2>1, <2>3 DEF StartCancelled, Pool!PoolStart, Pool!Record
    <3> QED
      BY <3>2, <2>3 DEF StartCancelled, Pool!PoolNext
  <2>4. ASSUME NEW t \in Task, NEW fails \in BOOLEAN, FinishTask(t, fails)
        PROVE  Pool!PoolNext
    <3>1. t \in Running /\ Running' = Running \ {t} /\ Over' = Over \cup {t}
      BY <2>4 DEF FinishTask, Running
    <3>2. Pool!PoolFinish(t, fails)
      BY <3>1, <2>4 DEF FinishTask, Pool!PoolFinish, Pool!Record
    <3> QED
      BY <3>2 DEF Pool!PoolNext
  <2>5. ASSUME NEW t \in Task, LeaveTask(t) PROVE UNCHANGED Pool!poolVars
    <3>1. Running' = Running /\ Over' = Over
      BY <2>5 DEF LeaveTask, Running
    <3> QED
      BY <3>1, <2>5 DEF LeaveTask, Pool!poolVars
  <2>6. CASE Return
    <3>1. Over = Task /\ Running' = Running /\ Over' = Over
      BY <2>6 DEF Return, Active, Inv, Progress, Task, TaskState, Running
    <3>2. Pool!PoolReturn
      BY <3>1, <2>6 DEF Return, Pool!PoolReturn
    <3> QED
      BY <3>2 DEF Pool!PoolNext
  <2>7. CASE Cancel
    <3>1. Running' = Running /\ Over' = Over
      BY <2>7 DEF Cancel, Running
    <3> QED
      BY <3>1, <2>7 DEF Cancel, Pool!PoolCancel, Pool!PoolNext
  <2>8. CASE UNCHANGED vars
    BY <2>8 DEF vars, Pool!poolVars, Running
  <2> QED
    BY <2>2, <2>3, <2>4, <2>5, <2>6, <2>7, <2>8 DEF Next, Terminated
<1> QED
  BY <1>1, <1>2, TypeCorrect, InvCorrect, TokensHeldCorrect, PTL
     DEF Spec, ImplementsPool, Pool!PoolSpec
================================================================================

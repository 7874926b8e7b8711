------------------------------ MODULE TransferTree ------------------------------
(***************************************************************************)
(* Engine.Transfer of a directory tree (internal/transfer/transfer.go):    *)
(* transferDir lists the source directory, makes the destination directory *)
(* and calls Transfer for every entry with RunAll, with a Scheduler of its *)
(* own at every level.  A task that is a directory holds its token while   *)
(* all of its own tasks run.                                               *)
(*                                                                         *)
(* Upload and download differ in which side is the source and in nothing   *)
(* else: ignore patterns are matched against the local path either way.    *)
(* What a copy does with a temporary file is in FileUpload; here a file is *)
(* written in place, as without useTempFile and in every download.         *)
(***************************************************************************)
EXTENDS Integers, SequencesExt

CONSTANTS
  Name,         \* names of directory entries
  Depth,        \* length of the longest path
  Calls,        \* calls of Transfer: the two trees, Concurrency and DryRun
  Ignored,      \* names the Ignore patterns match
  MaxEdits,     \* bound on the source files removed meanwhile
  MaxFaults     \* bound on the calls that fail

Path == UNION {[1 .. k -> Name] : k \in 0 .. Depth}
Root == <<>>
Entry == Path \ {Root}
Above(q, p) == IsPrefix(q, p) /\ q # p

ASSUME TreeAssumption ==
  /\ Depth \in Nat \ {0} /\ {MaxEdits, MaxFaults} \subseteq Nat
  /\ Ignored \subseteq Name
  /\ \A t \in Calls :
       /\ t.concurrency \in Int /\ t.dryRun \in BOOLEAN
       /\ t.src \in [Path -> {"none", "dir", "new"}] /\ t.src[Root] = "dir"
       /\ t.dst \in [Path -> {"none", "dir", "old"}]
       /\ \A s \in {t.src, t.dst}, p \in Entry, q \in Path :
            s[p] # "none" /\ Above(q, p) => s[q] = "dir"

VARIABLES
  concurrency,  \* opts.Concurrency
  dryRun,  \* opts.DryRun
  src,     \* source: path -> "dir", "new" (a file) or "none"
  dst,     \* destination: the same, with "old" and "torn" files
  pc,      \* control point of the Transfer call of each path
  edits,   \* source files removed so far
  faults,  \* calls that failed so far
  dst0     \* history: the destination at the start

opts == <<concurrency, dryRun>>
vars == <<opts, src, dst, pc, edits, faults, dst0>>

\* "none": no task; "waiting": in tasks, not started; "mkdir" and "run": a directory
\* that was listed, and one inside RunAll; "copy": a file whose target is open.
Control == {"none", "waiting", "stat", "list", "mkdir", "run", "put", "copy", "done", "failed"}
Ended == {"done", "failed"}
Kids(d) == {p \in Entry : Front(p) = d}
Capacity == IF concurrency <= 0 THEN 4 ELSE concurrency

\* The tasks of d that hold a token of d's Scheduler.
Started(d) == {p \in Kids(d) : pc[p] \notin {"none", "waiting"} \cup Ended}
Copying == {p \in Path : pc[p] = "copy"}

TypeOK ==
  /\ concurrency \in Int /\ dryRun \in BOOLEAN
  /\ src \in [Path -> {"none", "dir", "new"}]
  /\ dst \in [Path -> {"none", "dir", "old", "new", "torn"}]
  /\ pc \in [Path -> Control] /\ pc[Root] \notin {"none", "waiting"}
  /\ edits \in 0 .. MaxEdits /\ faults \in 0 .. MaxFaults
  /\ \A p \in Entry : /\ dst[p] # "none" => dst[Front(p)] = "dir"
                      /\ pc[Front(p)] = "done" => pc[p] \in {"none", "done"}
                      /\ pc[p] \notin {"none", "waiting"} \cup Ended => pc[Front(p)] = "run"

--------------------------------------------------------------------------------

Init ==
  /\ \E t \in Calls : /\ src = t.src /\ dst = t.dst
                       /\ concurrency = t.concurrency /\ dryRun = t.dryRun
  /\ dst0 = dst
  /\ pc = [p \in Path |-> IF p = Root THEN "stat" ELSE "none"]
  /\ edits = 0
  /\ faults = 0

\* Faulty variant: one Scheduler for all levels.
MayStart_Shared(p) == Cardinality(UNION {Started(d) : d \in Path}) < Capacity
\* Faulty variant: the goroutines are started without a token.
MayStart_Unbounded(p) == TRUE

\* A token of the parent's Scheduler is free.
MayStart(p) == Cardinality(Started(Front(p))) < Capacity

\* RunAll of the parent starts the task of p.
Start(p) ==
  /\ p # Root
  /\ pc[p] = "waiting"
  /\ pc[Front(p)] = "run"
  /\ MayStart(p)
  /\ pc' = [pc EXCEPT ![p] = "stat"]
  /\ UNCHANGED <<opts, src, dst, edits, faults, dst0>>

\* A call of the task of p fails: the error is returned, and RunAll keeps it.
Fail(p, injected) ==
  /\ injected => faults < MaxFaults
  /\ faults' = faults + (IF injected THEN 1 ELSE 0)
  /\ pc' = [pc EXCEPT ![p] = "failed"]
  /\ UNCHANGED <<opts, src, edits, dst0>>

Go(p, where) == pc' = [pc EXCEPT ![p] = where] /\ UNCHANGED <<opts, src, edits, faults, dst0>>

\* statSource; a file goes to transferFile, which does nothing in a dry run.
StatSource(p) ==
  /\ pc[p] = "stat"
  /\ UNCHANGED dst
  /\ CASE src[p] = "none" -> Fail(p, FALSE)
       [] src[p] = "dir"  -> Go(p, "list")
       [] src[p] = "new"  -> Go(p, IF dryRun THEN "done" ELSE "put")

IsIgnored(p) == Last(p) \in Ignored

\* The entries transferDir makes tasks of.
Tasks(d) == {p \in Kids(d) : src[p] # "none" /\ ~IsIgnored(p)}

\* listSource and the loop over the entries.
ListSource(d) ==
  /\ pc[d] = "list"
  /\ pc' = [p \in Path |-> IF p = d THEN "mkdir" ELSE IF p \in Tasks(d) THEN "waiting" ELSE pc[p]]
  /\ UNCHANGED <<opts, src, dst, edits, faults, dst0>>

\* Faulty variant: --dry-run is not asked.
MakeDestination_NoDryRun(d) ==
  /\ pc[d] = "mkdir"
  /\ \/ dst[d] \in {"none", "dir"} /\ dst' = [dst EXCEPT ![d] = "dir"] /\ Go(d, "run")
     \/ dst[d] \notin {"none", "dir"} /\ Fail(d, FALSE) /\ UNCHANGED dst

\* "Create destination directory": all of its parents are there, made by the calls
\* this one is a task of.  A root that is not there yet is made with its parents.
MakeDestination(d) ==
  /\ pc[d] = "mkdir"
  /\ \/ dryRun /\ Go(d, "run") /\ UNCHANGED dst
     \/ ~dryRun /\ dst[d] \in {"none", "dir"} /\ dst' = [dst EXCEPT ![d] = "dir"] /\ Go(d, "run")
     \/ ~dryRun /\ dst[d] \notin {"none", "dir"} /\ Fail(d, FALSE) /\ UNCHANGED dst

\* putFile or getFile: the source is opened, then Put creates or truncates the
\* target.  Either can be impossible.
OpenTarget(p) ==
  /\ pc[p] = "put"
  /\ IF src[p] = "none" \/ dst[p] = "dir"
     THEN Fail(p, FALSE) /\ UNCHANGED dst
     ELSE dst' = [dst EXCEPT ![p] = "torn"] /\ Go(p, "copy")

\* Put has copied everything.
CloseTarget(p) ==
  /\ pc[p] = "copy"
  /\ dst' = [dst EXCEPT ![p] = "new"]
  /\ Go(p, "done")

\* A call fails.  What it has done so far stays: a directory or a whole file is
\* there when only the Chmod after it failed.
Fault(p) ==
  /\ pc[p] \in {"stat", "list", "mkdir", "put", "copy"}
  /\ ~(dryRun /\ pc[p] = "mkdir")
  /\ Fail(p, TRUE)
  /\ \/ UNCHANGED dst
     \/ pc[p] = "mkdir" /\ dst[p] = "none" /\ dst' = [dst EXCEPT ![p] = "dir"]
     \/ pc[p] = "copy" /\ dst' = [dst EXCEPT ![p] = "new"]

\* Faulty variant: the errors of the tasks are dropped.
Outcome_Nil(d) == "done"

\* What RunAll returns.
Outcome(d) == IF \E p \in Kids(d) : pc[p] = "failed" THEN "failed" ELSE "done"

\* RunAll returns when all of its tasks have ended.
Return(d) ==
  /\ pc[d] = "run"
  /\ \A p \in Kids(d) : pc[p] \in Ended \cup {"none"}
  /\ Go(d, Outcome(d))
  /\ UNCHANGED dst

\* A source file is removed while the transfer runs.
RemoveSource(p) ==
  /\ edits < MaxEdits
  /\ pc[Root] \notin Ended
  /\ src[p] = "new"
  /\ src' = [src EXCEPT ![p] = "none"]
  /\ edits' = edits + 1
  /\ UNCHANGED <<opts, dst, pc, faults, dst0>>

Terminated == pc[Root] \in Ended /\ UNCHANGED vars

Step(p) ==
  \/ Start(p)
  \/ StatSource(p)
  \/ ListSource(p)
  \/ MakeDestination(p)
  \/ OpenTarget(p)
  \/ CloseTarget(p)
  \/ Return(p)

Next ==
  \/ \E p \in Path : Step(p) \/ Fault(p) \/ RemoveSource(p)
  \/ Terminated

Spec == Init /\ [][Next]_vars

\* Every call of the file systems returns, and goroutines that can run are run.
FairSpec == Spec /\ WF_vars(\E p \in Path : Step(p))

--------------------------------------------------------------------------------

Visible(p) == \A i \in DOMAIN p : p[i] \notin Ignored

\* "Transfer uploads or downloads a single file or directory tree": when it returns
\* nil, every file still in the source and not ignored at any level has arrived.
Arrived ==
  pc[Root] = "done" /\ ~dryRun =>
    \A p \in Entry : src[p] = "new" /\ Visible(p) => dst[p] = "new"

\* At every moment the destination differs from what it was only where a source
\* entry that is not ignored went, in a dry run nowhere, and a target that is not
\* whole is being written or accounts for an error at every level above it.
Confined ==
  \A p \in Path :
    /\ dst[p] # dst0[p] => ~dryRun /\ Visible(p) /\ pc[p] # "none"
    /\ dst[p] = "torn" =>
         \/ pc[p] = "copy"
         \/ pc[p] = "failed" /\ \A q \in Path : IsPrefix(q, p) => pc[q] # "done"

\* Schedulers are nested, so the limit holds per directory: at a depth of Depth up
\* to Capacity to the power of Depth files are open for writing at once, and never
\* more: as many as there are words of Depth tokens.
CopiesBounded == Cardinality(Copying) <= Cardinality([1 .. Depth -> 1 .. Capacity])

\* Transfer returns: tasks that hold a token while they wait for tasks of their own
\* never wait for each other.
TransferReturns == <>(pc[Root] \in Ended)
================================================================================

-------------------------------- MODULE SyncDir --------------------------------
(***************************************************************************)
(* transfer.Sync (internal/transfer/sync.go): syncDir lists a directory on *)
(* both sides, recurses into the source's subdirectories while it visits   *)
(* the source's entries, and only then runs one task per remaining entry   *)
(* with RunAll (module TaskPool says what RunAll promises).                *)
(*                                                                         *)
(* A path is a sequence of names under the two roots.  A file's content is *)
(* the side it came from; "torn" is what an interrupted Put leaves.        *)
(***************************************************************************)
EXTENDS Integers, FiniteSets, SequencesExt

CONSTANTS
  Name,           \* names of directory entries
  Depth,          \* length of the longest path
  Calls,          \* calls of Sync: its options, the two trees, and how often the
                  \* user makes the call, one after the other
  Ignored,        \* names the Ignore patterns match
  Now,            \* the local clock when Sync is called first
  MaxFaults,      \* bound on MkdirAll, Put, Remove and RemoveAll calls that fail
  MaxListFaults   \* bound on List calls that fail on a directory that exists

Side == {"local", "remote"}
Other(s) == IF s = "local" THEN "remote" ELSE "local"

Path == UNION {[1 .. k -> Name] : k \in 0 .. Depth}
Root == <<>>
\* Directories an entry can be added to within Depth, and all other paths.
Inner == {p \in Path : Len(p) < Depth}
Entry == Path \ {Root}

Absent == [kind |-> "none", content |-> "none", mtime |-> 0]
Dir(t) == [kind |-> "dir", content |-> "none", mtime |-> t]
File(c, t) == [kind |-> "file", content |-> c, mtime |-> t]
Exists(n) == n.kind # "none"
Node == [kind : {"none", "dir", "file"}, content : Side \cup {"torn", "none"}, mtime : Int]

\* The SyncOptions the model looks at.
Options ==
  [direction : {"localToRemote", "remoteToLocal", "both"}, concurrency : Int,
   delete : BOOLEAN, skipCreate : BOOLEAN, ignoreExisting : BOOLEAN, update : BOOLEAN,
   offset : Int]

ASSUME SyncAssumption ==
  /\ Depth \in Nat \ {0} /\ Now \in Int
  /\ {MaxFaults, MaxListFaults} \subseteq Nat
  /\ Ignored \subseteq Name
  /\ \A c \in Calls :
       /\ c.rounds \in Nat \ {0} /\ c.opts \in Options
       /\ c.trees \in [Side -> [Path -> Node]]
       /\ \A s \in Side : \A p \in Path :
            LET node == c.trees[s][p] IN
            /\ ~Exists(node) => node = Absent
            /\ p \in Entry /\ Exists(node) => c.trees[s][Front(p)].kind = "dir"
            /\ p \notin Inner => node.kind # "dir"

VARIABLES
  opts,        \* the SyncOptions of the calls
  fs,          \* the two file systems: side -> path -> node
  stack,       \* the calls of syncDir, the innermost last
  reg,         \* value of the result counter each counting task has loaded
  failed,      \* has a task of the running RunAll returned an error?
  result,      \* the shared *SyncResult
  status,      \* "running", or what Sync returned: "ok" or "error"
  rounds,      \* how often Sync is called
  round,       \* which call of Sync this is
  faults,      \* failed calls so far
  listFaults,  \* failed List calls so far
  fs0,         \* history: the trees when this Sync was called
  before,      \* history: what the Sync before this one returned, "none" if none
  done         \* history: the task effects this Sync completed: <<side, path>>

calls == <<opts, rounds, round, fs0, before>>
vars == <<calls, fs, stack, reg, failed, result, status, faults, listFaults, done>>

Source == IF opts.direction = "remoteToLocal" THEN "remote" ELSE "local"
Dest == Other(Source)
OneWay == opts.direction # "both"
Capacity == IF opts.concurrency <= 0 THEN 4 ELSE opts.concurrency

\* The clock of side s during the r-th call: the server's lags the local one by
\* RemoteTimeOffset, or leads it when this is negative.  It is what a write leaves as
\* the mtime; the mtimes the trees start with may be any.
Clock(s, r) == Now + r - (IF s = "remote" THEN opts.offset ELSE 0)
Stamp(s) == Clock(s, round)

NoEntries == [n \in Name |-> Absent]
NoResult == [transferred |-> 0, deleted |-> 0, skipped |-> 0]
JobState == {"none", "waiting", "running", "counting", "done"}

Call(d) ==
  [dir |-> d, phase |-> "listLocal", list |-> [s \in Side |-> NoEntries],
   todo |-> {}, job |-> [n \in Name |-> "none"]]

top == stack[Len(stack)]
Child(n) == Append(top.dir, n)
Seen(s, n) == top.list[s][n]
Update(f) == stack' = [stack EXCEPT ![Len(stack)] = f]
At(phase) == status = "running" /\ top.phase = phase

TypeOK ==
  /\ opts \in Options /\ round \in 1 .. rounds /\ before \in {"none", "ok", "error"}
  /\ {fs, fs0} \subseteq [Side -> [Path -> Node]]
  /\ \A s \in Side : \A p \in Entry : Exists(fs[s][p]) => fs[s][Front(p)].kind = "dir"
  /\ \A i \in DOMAIN stack :
       /\ stack[i].dir \in Inner /\ Len(stack[i].dir) = i - 1
       /\ stack[i].todo \subseteq Name
       /\ stack[i].job \in [Name -> JobState]
       /\ i < Len(stack) => stack[i].phase = "visit"
  /\ reg \in [Name -> Nat] /\ failed \in BOOLEAN
  /\ status \in {"running", "ok", "error"} /\ (status = "running") = (stack # <<>>)
  /\ faults \in 0 .. MaxFaults /\ listFaults \in 0 .. MaxListFaults

--------------------------------------------------------------------------------

Init ==
  /\ \E c \in Calls : opts = c.opts /\ fs = c.trees /\ rounds = c.rounds
  /\ fs0 = fs
  /\ before = "none"
  /\ stack = <<Call(Root)>>
  /\ reg = [n \in Name |-> 0]
  /\ failed = FALSE
  /\ result = NoResult
  /\ status = "running"
  /\ round = 1
  /\ faults = 0
  /\ listFaults = 0
  /\ done = {}

\* What List(d) returns: an error for a directory that is not there.
Listing(tree, d) ==
  IF tree[d].kind = "dir" THEN [n \in Name |-> tree[Append(d, n)]] ELSE NoEntries

\* safeList: every error, not only a missing directory, is an empty listing.
SafeList(s, fails) ==
  /\ listFaults < MaxListFaults \/ ~fails
  /\ fails => fs[s][top.dir].kind = "dir"
  /\ listFaults' = listFaults + (IF fails THEN 1 ELSE 0)
  /\ LET l == IF fails THEN NoEntries ELSE Listing(fs[s], top.dir)
         lists == [top.list EXCEPT ![s] = l]
         present == {n \in Name : Exists(lists["local"][n]) \/ Exists(lists["remote"][n])}
     IN Update([top EXCEPT
          !.list = lists,
          !.phase = IF s = "local" THEN "listRemote" ELSE "visit",
          !.todo = IF s = "local" THEN {}
                   ELSE IF OneWay THEN {n \in Name : Exists(lists[Source][n])}
                   ELSE present])
  /\ UNCHANGED <<calls, fs, reg, failed, result, status, faults, done>>

ListLocal(fails) == At("listLocal") /\ SafeList("local", fails)
ListRemote(fails) == At("listRemote") /\ SafeList("remote", fails)

\* MkdirAll(p): impossible through a file, otherwise all parents are made.
CanMkdir(tree, p) == \A q \in Path : IsPrefix(q, p) => tree[q].kind # "file"
\* Faulty variant: Mkdir in place of MkdirAll.
Mkdir_LeafOnly(tree, p, t) == [tree EXCEPT ![p] = IF Exists(@) THEN @ ELSE Dir(t)]

\* The directories MkdirAll(p) adds, with mtime t.
Mkdir(tree, p, t) ==
  [q \in Path |-> IF IsPrefix(q, p) /\ ~Exists(tree[q]) THEN Dir(t) ELSE tree[q]]

\* Sync returns: every syncDir on the stack passes the error up.
ReturnError == stack' = <<>> /\ status' = "error"

\* Faulty variant: updates compare the times the wrong way round.
Transfers_UpdateReversed(src, dst) ==
  IF Exists(dst)
  THEN ~opts.ignoreExisting /\ (opts.update => src.mtime <= dst.mtime)
  ELSE ~opts.skipCreate

\* decideAction = actionTransfer.
Transfers(src, dst) ==
  IF Exists(dst)
  THEN ~opts.ignoreExisting /\ (opts.update => src.mtime > dst.mtime)
  ELSE ~opts.skipCreate

\* isIgnored is asked only when the local side is the source.
IsIgnored(n) == opts.direction = "localToRemote" /\ n \in Ignored

\* Faulty variant: ignored entries are not counted as skipped.
Skip_Uncounted(n) ==
  /\ OneWay
  /\ \/ IsIgnored(n)
     \/ Seen(Source, n).kind = "file" /\ ~Transfers(Seen(Source, n), Seen(Dest, n))
  /\ result' = IF IsIgnored(n) THEN result ELSE [result EXCEPT !.skipped = @ + 1]
  /\ Update([top EXCEPT !.todo = @ \ {n}])
  /\ UNCHANGED <<calls, fs, reg, failed, status, faults, listFaults, done>>

\* An entry that is ignored, or a file decideAction skips.
Skip(n) ==
  /\ OneWay
  /\ \/ IsIgnored(n)
     \/ Seen(Source, n).kind = "file" /\ ~Transfers(Seen(Source, n), Seen(Dest, n))
  /\ result' = [result EXCEPT !.skipped = @ + 1]
  /\ Update([top EXCEPT !.todo = @ \ {n}])
  /\ UNCHANGED <<calls, fs, reg, failed, status, faults, listFaults, done>>

\* A subdirectory of the source: MkdirAll on the other side, then recursion.
Descend(n, fails) ==
  /\ OneWay
  /\ ~IsIgnored(n)
  /\ Seen(Source, n).kind = "dir"
  /\ IF fails \/ ~CanMkdir(fs[Dest], Child(n))
     THEN ReturnError /\ UNCHANGED fs
     ELSE /\ fs' = [fs EXCEPT ![Dest] = Mkdir(@, Child(n), Stamp(Dest))]
          /\ stack' = Append([stack EXCEPT ![Len(stack)].todo = @ \ {n}], Call(Child(n)))
          /\ UNCHANGED status
  /\ faults' = faults + (IF fails THEN 1 ELSE 0)
  /\ UNCHANGED <<calls, reg, failed, result, listFaults, done>>

\* tasks = append(tasks, ...): in both directions, for every name of either side.
AddTransfer(n) ==
  /\ OneWay => /\ ~IsIgnored(n)
               /\ Seen(Source, n).kind = "file"
               /\ Transfers(Seen(Source, n), Seen(Dest, n))
  /\ Update([top EXCEPT !.todo = @ \ {n}, !.job[n] = "waiting"])
  /\ UNCHANGED <<calls, fs, reg, failed, result, status, faults, listFaults, done>>

VisitEntry(n) ==
  /\ At("visit")
  /\ n \in top.todo
  /\ \/ Skip(n)
     \/ \E fails \in BOOLEAN : (fails => faults < MaxFaults) /\ Descend(n, fails)
     \/ AddTransfer(n)

\* Faulty variant: a destination file the source also has is deleted.
Extraneous_All(n) == OneWay /\ opts.delete /\ Exists(Seen(Dest, n)) /\ top.job[n] = "none"

\* A name of the destination's listing that the source's listing has not.
Extraneous(n) ==
  OneWay /\ opts.delete /\ Exists(Seen(Dest, n)) /\ ~Exists(Seen(Source, n))

\* The loop over the entries is over: the deletions are added, RunAll begins.
StartRunAll ==
  /\ At("visit")
  /\ top.todo = {}
  /\ Update([top EXCEPT !.phase = "run",
                        !.job = [n \in Name |-> IF Extraneous(n) THEN "waiting" ELSE @[n]]])
  /\ failed' = FALSE
  /\ UNCHANGED <<calls, fs, reg, result, status, faults, listFaults, done>>

Jobs(states) == {n \in Name : top.job[n] \in states}

\* Faulty variant: tokens are never given back.
StartJob_KeepsToken(n) ==
  /\ At("run")
  /\ top.job[n] = "waiting"
  /\ Cardinality(Jobs({"running", "counting", "done"})) < Capacity
  /\ Extraneous(n) => \A m \in Jobs({"waiting"}) : Extraneous(m)
  /\ Update([top EXCEPT !.job[n] = "running"])
  /\ UNCHANGED <<calls, fs, reg, failed, result, status, faults, listFaults, done>>

\* RunAll starts the tasks in the order of the slice: deletions come last.
StartJob(n) ==
  /\ At("run")
  /\ top.job[n] = "waiting"
  /\ Cardinality(Jobs({"running", "counting"})) < Capacity
  /\ Extraneous(n) => \A m \in Jobs({"waiting"}) : Extraneous(m)
  /\ Update([top EXCEPT !.job[n] = "running"])
  /\ UNCHANGED <<calls, fs, reg, failed, result, status, faults, listFaults, done>>

\* Faulty variant: the older file wins.
From_OlderWins(n) ==
  LET l == Seen("local", n)
      r == Seen("remote", n)
  IN IF OneWay THEN Source
     ELSE IF ~Exists(l) THEN "remote"
     ELSE IF ~Exists(r) THEN "local"
     ELSE IF l.mtime > r.mtime + opts.offset THEN "remote"
     ELSE IF r.mtime + opts.offset > l.mtime THEN "local"
     ELSE "neither"

\* The side a task copies from: in both directions the newer file's, if any.
From(n) ==
  LET l == Seen("local", n)
      r == Seen("remote", n)
  IN IF OneWay THEN Source
     ELSE IF ~Exists(l) THEN "remote"
     ELSE IF ~Exists(r) THEN "local"
     ELSE IF l.mtime > r.mtime + opts.offset THEN "local"
     ELSE IF r.mtime + opts.offset > l.mtime THEN "remote"
     ELSE "neither"

\* The task function succeeded: it loads its counter of the shared result.  (Its
\* file effects touch no other task's files, so they happen with the load.)
Succeed(n, counter) ==
  /\ Update([top EXCEPT !.job[n] = "counting"])
  /\ reg' = [reg EXCEPT ![n] = result[counter]]
  /\ UNCHANGED <<failed, faults>>

\* Faulty variant: a failed transfer is reported as done.
FailJob_Swallowed(n, injected) ==
  /\ injected => faults < MaxFaults
  /\ faults' = faults + (IF injected THEN 1 ELSE 0)
  /\ Update([top EXCEPT !.job[n] = "done"])
  /\ UNCHANGED <<reg, failed, done>>

\* The task function returned an error: RunAll keeps it and goes on.
FailJob(n, injected) ==
  /\ injected => faults < MaxFaults
  /\ faults' = faults + (IF injected THEN 1 ELSE 0)
  /\ Update([top EXCEPT !.job[n] = "done"])
  /\ failed' = TRUE
  /\ UNCHANGED <<reg, done>>

\* UploadFile or DownloadFile of a file: MkdirAll of the parent, then Put.  A
\* directory as the source or as the target is an error, possibly after Put has
\* created or truncated the target.
Copy(n, from) ==
  LET to == Other(from)
      p == Child(n)
      src == fs[from][p]
      writable == CanMkdir(fs[to], top.dir) /\ fs[to][p].kind # "dir"
      possible == writable /\ src.kind = "file"
      made == Mkdir(fs[to], top.dir, Stamp(to))
      Write(c) == fs' = [fs EXCEPT ![to] = [made EXCEPT ![p] = File(c, Stamp(to))]]
  IN \/ possible /\ Write(src.content) /\ done' = done \cup {<<to, p>>}
        /\ Succeed(n, "transferred")
     \/ UNCHANGED fs /\ FailJob(n, possible)
     \/ CanMkdir(fs[to], top.dir) /\ fs' = [fs EXCEPT ![to] = made] /\ FailJob(n, possible)
     \/ writable /\ Write("torn") /\ FailJob(n, possible)
     \* Everything was written and the Chmod at the end of the SFTP Put failed.
     \/ possible /\ to = "remote" /\ Write(src.content) /\ FailJob(n, TRUE)

TransferJob(n) ==
  /\ At("run")
  /\ top.job[n] = "running"
  /\ ~Extraneous(n)
  /\ IF From(n) = "neither"
     THEN Succeed(n, "transferred") /\ UNCHANGED <<fs, done>>
     ELSE Copy(n, From(n))
  /\ UNCHANGED <<calls, result, status, listFaults>>

Under(p) == {q \in Path : IsPrefix(p, q)}
Erase(gone) == fs' = [fs EXCEPT ![Dest] = [q \in Path |-> IF q \in gone THEN Absent ELSE @[q]]]

\* Remove of a file or RemoveAll of a directory; a RemoveAll that fails has
\* removed some of what is beneath.
DeleteJob(n) ==
  /\ At("run")
  /\ top.job[n] = "running"
  /\ Extraneous(n)
  /\ LET p == Child(n)
     IN \/ Erase(Under(p)) /\ done' = done \cup {<<Dest, p>>} /\ Succeed(n, "deleted")
        \/ \E gone \in SUBSET (Under(p) \ {p}) :
             /\ \A q \in gone : Under(q) \subseteq gone
             /\ Erase(gone)
             /\ FailJob(n, TRUE)
  /\ UNCHANGED <<calls, result, status, listFaults>>

\* result.Transferred++ or result.Deleted++: the store of the loaded value plus 1.
CountJob(n) ==
  /\ At("run")
  /\ top.job[n] = "counting"
  /\ LET counter == IF Extraneous(n) THEN "deleted" ELSE "transferred"
     IN result' = [result EXCEPT ![counter] = reg[n] + 1]
  /\ reg' = [reg EXCEPT ![n] = 0]
  /\ Update([top EXCEPT !.job[n] = "done"])
  /\ UNCHANGED <<calls, fs, failed, status, faults, listFaults, done>>

\* RunAll returns and so does syncDir: to the caller's loop, or from Sync.
Return ==
  /\ At("run")
  /\ Jobs({"waiting", "running", "counting"}) = {}
  /\ IF failed THEN ReturnError
     ELSE /\ stack' = Front(stack)
          /\ status' = IF Len(stack) = 1 THEN "ok" ELSE "running"
  /\ UNCHANGED <<calls, fs, reg, failed, result, faults, listFaults, done>>

\* The user synchronises again, later.
SyncAgain ==
  /\ status # "running"
  /\ round < rounds
  /\ round' = round + 1
  /\ stack' = <<Call(Root)>>
  /\ failed' = FALSE
  /\ result' = NoResult
  /\ status' = "running"
  /\ fs0' = fs
  /\ before' = status
  /\ done' = {}
  /\ UNCHANGED <<opts, rounds, fs, reg, faults, listFaults>>

Terminated == status # "running" /\ round = rounds /\ UNCHANGED vars

Next ==
  \/ \E fails \in BOOLEAN : ListLocal(fails) \/ ListRemote(fails)
  \/ \E n \in Name : VisitEntry(n) \/ StartJob(n) \/ TransferJob(n) \/ DeleteJob(n) \/ CountJob(n)
  \/ StartRunAll
  \/ Return
  \/ SyncAgain
  \/ Terminated

Spec == Init /\ [][Next]_vars

\* Every call of the file systems returns and goroutines that can run are run.
FairSpec == Spec /\ WF_vars(Next)

--------------------------------------------------------------------------------

\* What one Sync is to do, said of the trees it was called on and without the
\* recursion: Due(p) files are copied, Gone(p) paths are removed, the rest stays.

src0(p) == fs0[Source][p]
dst0(p) == fs0[Dest][p]

\* No part of p's name matches an ignore pattern, as far as these apply.
Visible(p) == \A i \in DOMAIN p : ~IsIgnored(p[i])
Visited(d) == d = Root \/ (Visible(d) /\ src0(d).kind = "dir")

Due(p) ==
  /\ Visible(p)
  /\ src0(p).kind = "file"
  /\ Exists(dst0(p)) => /\ ~opts.ignoreExisting
                        /\ opts.update => src0(p).mtime > dst0(p).mtime
  /\ ~Exists(dst0(p)) => ~opts.skipCreate

Gone(p) ==
  /\ opts.delete
  /\ \E q \in Entry : /\ IsPrefix(q, p)
                      /\ Visited(Front(q))
                      /\ Exists(dst0(q)) /\ ~Exists(src0(q))

Same(x, y) == x.kind = y.kind /\ x.content = y.content

\* The entry the destination is to have at p.
Settled(p, now) ==
  IF Gone(p) THEN ~Exists(now)
  ELSE IF Due(p) THEN Same(now, src0(p))
  ELSE IF Visited(p) THEN now.kind = "dir"
  ELSE Same(now, dst0(p))

\* "remove extraneous files", "don't create", "don't overwrite", "only overwrite
\* when source is newer" (the comments of SyncOptions) at every moment of a one-way
\* Sync, whatever fails: each destination entry is the one it had or the one it is
\* to have, a torn file appears only where a copy was due and only in a Sync that
\* returns an error, and the source is left alone.
OnlyWhatIsDue ==
  OneWay =>
    /\ \A p \in Entry :
         LET now == fs[Dest][p]
         IN \/ Same(now, dst0(p))
            \/ Settled(p, now)
            \/ now.content = "torn" /\ Due(p) /\ (failed \/ status = "error")
    /\ \A p \in Path : fs[Source][p] = src0(p)

\* "Sync ... brings them in line according to opts": a one-way Sync that returns
\* nil has settled every entry of the destination, at every depth.
InLine == OneWay /\ status = "ok" => \A p \in Entry : Settled(p, fs[Dest][p])

\* "remove extraneous files from destination": whatever a step removes from the
\* destination, the source does not have.
DeletesOnlyExtraneous ==
  [][OneWay => \A p \in Entry :
       Exists(fs[Dest][p]) /\ ~Exists(fs'[Dest][p]) => ~Exists(fs[Source][p])]_vars

\* "only overwrite when source is newer": a step of a one-way Sync that replaces a
\* destination file puts a file with a later mtime in its place.  The mtimes are those
\* the two sides report: one-way calls take no account of RemoteTimeOffset, although
\* its comment says that it "adjusts remote mtime for comparison".
OverwritesOnlyOlder ==
  [][OneWay /\ opts.update => \A p \in Entry :
       Exists(fs[Dest][p]) /\ Exists(fs'[Dest][p]) /\ fs'[Dest][p] # fs[Dest][p]
         => fs[Source][p].mtime > fs[Dest][p].mtime]_vars

Flat == \A s \in Side, p \in Entry : fs0[s][p].kind # "dir"

\* "Newest file wins; ensure both sides have all files": after a Sync in both
\* directions that returns nil, of trees without subdirectories (into these it does
\* not go), both sides hold the same entries, and of two different files the newer
\* one is the one that is left.
BothAgree ==
  ~OneWay /\ Flat /\ status = "ok" =>
    \A p \in Entry :
      LET l == fs0["local"][p]
          r == fs0["remote"][p]
          Newer(s) ==
            LET x == fs0[s][p]
                y == fs0[Other(s)][p]
                shift == IF s = "local" THEN opts.offset ELSE 0 - opts.offset
            IN Exists(x) /\ (Exists(y) => x.mtime > y.mtime + shift)
      IN /\ Exists(l) \/ Exists(r) => Exists(fs["local"][p]) /\ Exists(fs["remote"][p])
         /\ \A s \in Side : Newer(s) => \A t \in Side : Same(fs[t][p], fs0[s][p])

\* "SyncResult summarises what was done": when a one-way Sync that runs one task at
\* a time has returned nil, the counters are the numbers of files copied, of entries
\* removed and of entries passed over, at every depth.
SerialCounts ==
  status = "ok" /\ OneWay /\ Capacity = 1 =>
    /\ result.transferred + result.deleted = Cardinality(done)
    /\ result.deleted = Cardinality({w \in done : ~Exists(fs[Dest][w[2]])})
    /\ result.skipped =
         Cardinality({p \in Entry : /\ Visited(Front(p)) /\ Exists(src0(p))
                                    /\ \/ ~Visible(p)
                                       \/ src0(p).kind = "file" /\ ~Due(p)})

\* With update, the Sync after one that returned nil, with nothing changed in between,
\* removes nothing and copies only files the destination's clock cannot catch up with:
\* those whose source is dated later than the moment of the first copy.  (They are
\* copied every time: uploads to a server whose clock is behind, downloads from one
\* whose clock is ahead.)
UpdateSettles ==
  OneWay /\ opts.update /\ before = "ok" =>
    \A w \in done : /\ src0(w[2]).kind = "file"
                     /\ src0(w[2]).mtime > Clock(Dest, round - 1)

\* Every Sync returns, after any failures.
SyncReturns == status = "running" ~> status # "running"
================================================================================

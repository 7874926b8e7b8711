--------------------------------- MODULE Watch ---------------------------------
(***************************************************************************)
(* The watch command (internal/cli/watch.go): one loop collects fsnotify   *)
(* events per path and, at each tick of a 200 ms ticker, acts on the batch *)
(* collected since the last.  The user edits files at any moment, also     *)
(* while a batch is being worked through.                                  *)
(*                                                                         *)
(* Paths that isIgnoredPath matches raise no event the loop acts on, and   *)
(* are left out.  A file's content is the number of the edit that wrote it.*)
(***************************************************************************)
EXTENDS Integers, Sequences, FiniteSets

CONSTANTS
  File,         \* paths of files
  Dir,          \* directories under the watched one
  Parent,       \* the directory of each path: Root or a member of Dir
  Root,         \* the watched directory
  Preexisting,  \* the members of Dir there when the command starts
  Flags,        \* the flags it may be given: records of delete and dryRun
  MaxEdits,     \* bound on the user's edits
  MaxFaults     \* bound on the remote operations that fail

Path == File \cup Dir

ASSUME WatchAssumption ==
  /\ Root \notin Path /\ File \cap Dir = {}
  /\ Parent \in [Path -> Dir \cup {Root}]
  /\ \A d \in Dir : Parent[d] = Root
  /\ Preexisting \subseteq Dir
  /\ Flags \subseteq [delete : BOOLEAN, dryRun : BOOLEAN]
  /\ {MaxEdits, MaxFaults} \subseteq Nat

None == -1     \* no such path
Start == 0     \* content from before the command started; a directory
Torn == -2     \* content an upload that failed has left

VARIABLES
  flags,    \* the flags of the command
  local,    \* path -> content
  remote,   \* path -> content
  watched,  \* directories the fsnotify watcher has
  events,   \* events raised and not yet received: <<path, op>>
  pending,  \* path -> ops collected since the last tick
  batch,    \* path -> ops of the last tick's paths still to be handled
  stopped,  \* has the loop returned?
  edits,    \* edits made so far
  faults,   \* failed operations so far
  remade    \* history: directories the user has made while it runs

loop == <<pending, batch, stopped>>
vars == <<flags, local, remote, watched, events, loop, edits, faults, remade>>

Op == {"create", "write", "remove"}   \* a rename away counts as a removal
Nothing == [p \in Path |-> {}]

TypeOK ==
  /\ flags \in Flags /\ remade \subseteq Dir
  /\ local \in [Path -> None .. MaxEdits]
  /\ remote \in [Path -> Torn .. MaxEdits]
  /\ watched \subseteq Dir \cup {Root}
  /\ events \in Seq(Path \X Op)
  /\ pending \in [Path -> SUBSET Op]
  /\ batch \in [Path -> SUBSET Op]
  /\ pending = Nothing \/ batch = Nothing
  /\ stopped \in BOOLEAN
  /\ edits \in 0 .. MaxEdits
  /\ faults \in 0 .. MaxFaults
  /\ \A p \in Path : local[p] # None /\ Parent[p] # Root => local[Parent[p]] # None

--------------------------------------------------------------------------------

\* The trees are in step, with any of the files present; addDirsRecursive has
\* run on the watched directory.
Init ==
  /\ \E present \in SUBSET File :
       /\ \A f \in present : Parent[f] \in Preexisting \cup {Root}
       /\ local = [p \in Path |-> IF p \in present \cup Preexisting THEN Start ELSE None]
  /\ remote = local
  /\ watched = Preexisting \cup {Root}
  /\ events = <<>>
  /\ pending = Nothing
  /\ batch = Nothing
  /\ stopped = FALSE
  /\ edits = 0
  /\ faults = 0
  /\ flags \in Flags
  /\ remade = {}

\* The watcher reports on the entries of the directories it has.
Notify(p, seen) == events' = IF Parent[p] \in watched THEN events \o seen ELSE events

Edit ==
  /\ ~stopped
  /\ edits < MaxEdits
  /\ edits' = edits + 1
  /\ UNCHANGED <<flags, remote, loop, faults>>

PresentDirs == {Root} \cup {d \in Dir : local[d] # None}

\* The user writes a file, new or not.
SaveFile(f) ==
  /\ Edit
  /\ Parent[f] \in PresentDirs
  /\ local' = [local EXCEPT ![f] = edits + 1]
  /\ Notify(f, IF local[f] = None THEN << <<f, "create">>, <<f, "write">> >>
               ELSE << <<f, "write">> >>)
  /\ UNCHANGED <<watched, remade>>

\* The user removes a file or renames it away.
RemoveFile(f) ==
  /\ Edit
  /\ local[f] # None
  /\ local' = [local EXCEPT ![f] = None]
  /\ Notify(f, << <<f, "remove">> >>)
  /\ UNCHANGED <<watched, remade>>

MakeDir(d) ==
  /\ Edit
  /\ local[d] = None
  /\ local' = [local EXCEPT ![d] = Start]
  /\ Notify(d, << <<d, "create">> >>)
  /\ remade' = remade \cup {d}
  /\ UNCHANGED watched

\* An empty directory is removed, and its watch with it.
RemoveDir(d) ==
  /\ Edit
  /\ local[d] # None
  /\ \A f \in File : Parent[f] = d => local[f] = None
  /\ local' = [local EXCEPT ![d] = None]
  /\ watched' = watched \ {d}
  /\ Notify(d, << <<d, "remove">> >>)
  /\ UNCHANGED remade

Idle == ~stopped /\ batch = Nothing

\* case event := <-watcher.Events
Receive ==
  /\ Idle
  /\ events # <<>>
  /\ pending' = [pending EXCEPT ![Head(events)[1]] = @ \cup {Head(events)[2]}]
  /\ events' = Tail(events)
  /\ UNCHANGED <<flags, remade, local, remote, watched, batch, stopped, edits, faults>>

\* Faulty variant: the collected operations are not cleared.
Tick_KeepsPending ==
  /\ Idle
  /\ pending # Nothing
  /\ batch' = pending
  /\ UNCHANGED <<flags, remade, local, remote, watched, events, pending, stopped, edits, faults>>

\* case <-ticker.C
Tick ==
  /\ Idle
  /\ pending # Nothing
  /\ batch' = pending
  /\ pending' = Nothing
  /\ UNCHANGED <<flags, remade, local, remote, watched, events, stopped, edits, faults>>

\* Faulty variant: the clause for a file that was written again is missing.
PureRemoval_Any(ops) == "remove" \in ops

\* Line 110: removed or renamed, and not created or written since the last tick.
PureRemoval(ops) == "remove" \in ops /\ ops \cap {"create", "write"} = {}

\* One path of the batch is done with; map iteration picks any.
Handle(p) ==
  /\ batch[p] # {}
  /\ batch' = [batch EXCEPT ![p] = {}]
  /\ UNCHANGED <<flags, remade, local, events, pending, stopped, edits>>

\* A remote operation fails, within the bound, and leaves one of the outcomes; the
\* failure is reported or dropped, and never retried.
Fault(outcomes) ==
  /\ faults < MaxFaults
  /\ faults' = faults + 1
  /\ remote' \in outcomes

Beneath(p) == {q \in Path : Parent[q] = p}
Without(gone) == [q \in Path |-> IF q \in gone THEN None ELSE remote[q]]

\* RemoveAll on the remote side, if --delete was given: --dry-run is not asked.
HandleRemoval(p) ==
  /\ PureRemoval(batch[p])
  /\ Handle(p)
  /\ \/ flags.delete /\ remote' = Without({p} \cup Beneath(p)) /\ UNCHANGED faults
     \/ flags.delete /\ Fault({Without(gone) : gone \in SUBSET Beneath(p)})
     \/ ~flags.delete /\ UNCHANGED <<remote, faults>>
  /\ UNCHANGED watched

\* os.Stat fails: "file may have disappeared".
HandleGone(p) ==
  /\ ~PureRemoval(batch[p])
  /\ Handle(p)
  /\ local[p] = None
  /\ UNCHANGED <<remote, watched, faults>>

\* Faulty variant: the new directory is not added to the watcher.
HandleDir_NotWatched(d) ==
  /\ ~PureRemoval(batch[d])
  /\ Handle(d)
  /\ local[d] # None
  /\ \/ flags.dryRun /\ UNCHANGED <<remote, faults>>
     \/ ~flags.dryRun /\ remote' = [remote EXCEPT ![d] = Start] /\ UNCHANGED faults
     \/ ~flags.dryRun /\ Fault({remote, [remote EXCEPT ![d] = Start]})
  /\ UNCHANGED watched

\* A new directory: watch it, and MkdirAll on the remote side.
HandleDir(d) ==
  /\ ~PureRemoval(batch[d])
  /\ Handle(d)
  /\ local[d] # None
  /\ watched' = watched \cup {d}
  /\ \/ flags.dryRun /\ UNCHANGED <<remote, faults>>
     \/ ~flags.dryRun /\ remote' = [remote EXCEPT ![d] = Start] /\ UNCHANGED faults
     \/ ~flags.dryRun /\ Fault({remote, [remote EXCEPT ![d] = Start]})

\* f with content c, in its directory.
With(f, c) ==
  [p \in Path |-> IF p = f THEN c ELSE IF p = Parent[f] THEN Start ELSE remote[p]]

\* UploadFile, with the content the file has now; it makes the remote parent.
HandleFile(f) ==
  /\ ~PureRemoval(batch[f])
  /\ Handle(f)
  /\ local[f] # None
  /\ \/ flags.dryRun /\ UNCHANGED <<remote, faults>>
     \/ ~flags.dryRun /\ remote' = With(f, local[f]) /\ UNCHANGED faults
     \/ ~flags.dryRun /\ Fault({remote, With(f, remote[f]), With(f, Torn)})
  /\ UNCHANGED watched

HandleNext ==
  \/ \E p \in Path : HandleRemoval(p) \/ HandleGone(p)
  \/ \E d \in Dir : HandleDir(d)
  \/ \E f \in File : HandleFile(f)

\* Ctrl-C, seen between two batches: what is pending is dropped.
Stop ==
  /\ Idle
  /\ stopped' = TRUE
  /\ UNCHANGED <<flags, remade, local, remote, watched, events, pending, batch, edits, faults>>

Terminated == stopped /\ UNCHANGED vars

Next ==
  \/ \E f \in File : SaveFile(f) \/ RemoveFile(f)
  \/ \E d \in Dir : MakeDir(d) \/ RemoveDir(d)
  \/ Receive
  \/ Tick
  \/ HandleNext
  \/ Stop
  \/ Terminated

Spec == Init /\ [][Next]_vars

\* The loop goes on: select picks a ready channel, the ticker keeps ticking.
FairSpec == Spec /\ WF_vars(Receive) /\ WF_vars(Tick) /\ WF_vars(HandleNext)

--------------------------------------------------------------------------------

\* No event, no collected path and no batch is left, and nothing failed.
CaughtUp == events = <<>> /\ pending = Nothing /\ batch = Nothing
Settled == CaughtUp /\ ~stopped /\ faults = 0

\* "uploads every file that is created or modified": once the loop has caught up
\* with the user, the remote side has the latest content of every file, however the
\* edits fell among events, ticks and uploads.  Of a directory made while the command
\* runs this is not claimed: what is written there before it is watched is missed.
Uploaded ==
  Settled /\ ~flags.dryRun =>
    \A f \in File : local[f] # None /\ Parent[f] \notin remade => remote[f] = local[f]

\* "New directory: add it ... to the watcher, mirror on remote": once the loop has
\* caught up, every directory is watched and is there on the remote side, however
\* often it was removed and made again meanwhile.
DirsWatched ==
  Settled => \A d \in Dir :
    local[d] # None => d \in watched /\ (~flags.dryRun => remote[d] # None)

\* The loop catches up: whenever the user pauses for long enough, every event has
\* been acted on.
CatchesUp == []<>(stopped \/ CaughtUp)
================================================================================

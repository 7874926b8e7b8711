# sftp-lsp: a verification project

TLA+ models of `sftp-lsp`, a language server and command line tool that copies files between a
workspace and an SFTP or FTP server; TLC runs that check them on small instances; and proofs, checked
by TLAPS, of what matters most for every size. Paths below are relative to the repository.

## The system

| Component | Code | State | Operations | Module |
|---|---|---|---|---|
| Scheduler | `internal/transfer/scheduler.go` | token channel, WaitGroup, `sync.Once` | `NewScheduler`, `RunAll` | `TaskPool`, `Scheduler` |
| Engine, one file | `internal/transfer/transfer.go`, `internal/client/sftp.go` | remote target and `.sftptmp` file | `UploadFile`, `transferFile`, `putFile`, `Put` | `FileUpload` |
| Engine, trees | `internal/transfer/transfer.go` | nested `RunAll`s | `Transfer`, `transferDir`, `getFile` | `TransferTree` |
| Sync | `internal/transfer/sync.go` | the two trees, the shared `*SyncResult` | `Sync`, `syncDir`, `decideAction`, `safeList` | `SyncDir` |
| Transport | `internal/lsp/server.go`, `protocol.go` | stdin, stdout, `s.mu` | `Serve`, `dispatch`, `writeMessage` | `LspServer` |
| Handler | `internal/lsp/handler.go` | profiles, root | `Handle`, `handleInitialize`, `handleExecuteCommand`, `handleDidSave`, `runCommand` | `LspServer` (messages), `FrontEnds` (effects) |
| Connection cache | `internal/lsp/handler.go` | `h.clients`, `h.mu` | `getOrConnectClient`, `closeAll` | `ClientCache` |
| Watch | `internal/cli/watch.go` | watched directories, pending events | the loop of `watchCmd` | `Watch` |
| SFTP connection | `internal/client/sftp.go`, `client.go` | connections, channels, proxy process, agent sockets | `New`, `Connect`, `Close`, `dialWithHops`, `applySSHConfig`, `dialViaProxyCommand` | `Connection` |
| FTP backend | `internal/client/ftp.go` | one control connection | `Connect`, `Close`, `MkdirAll`, `RemoveAll` | `Connection`, `FtpBackend` |
| Configuration | `internal/config/config.go` | `sftp.json` | `Load`, `Validate`, `FindConfigFile`, `HopConfigs` | `PathMapping`, `FrontEnds`, `Connection` |
| Path mapping | `internal/lsp/handler.go`, `internal/cli/commands.go` | none | `localToRemote`, `localToRemotePath`, `remoteToLocalPath`, `resolveRemotePath`, `defaultLocalDestination` | `PathMapping` |
| CLI commands | `internal/cli/commands.go` | flags | `upload`, `download`, `sync`, `list`, `delete`, `mkdir` | `FrontEnds` |
| Local file system, entry point | `internal/fs`, `cmd/sftp-lsp` | none | wrappers | their effects, where they are called |

How they interact. `main` starts either the CLI or the server. `Serve` reads one message at a time and
gives each to a goroutine of its own (`dispatch`); a command is answered at once and goes on in a second
goroutine, which takes a client from the cache, builds an `Engine` and calls `UploadFile`, `Transfer` or
`Sync`. `Transfer` and `Sync` hand one task per directory entry to a `Scheduler`. All goroutines share one
stdout (under `s.mu`), one map of clients (under `h.mu`), one connection per key and the remote files,
which nothing serialises. The CLI runs one command at a time with a client of its own; `watch` is a loop
over `fsnotify` events and a ticker.

What is hard about it, and what makes it correct:

- *Scheduler*: a bounded pool must neither exceed its limit, nor lose an error, nor return early, nor hang
  — also when its context is cancelled.
- *Upload*: Create, copy, Chmod and Rename are separate remote calls: any may fail, the process may exit
  in between, and two saves of a file overlap. The target should be whole at every moment, and a success
  should mean the content arrived.
- *Tree transfer*: tasks run tasks. No deadlock across levels; a failure deep down must reach the caller.
- *Sync*: decisions are taken from listings and executed later, concurrently, with failures; nothing but
  what is due may change, and success must mean "in line".
- *Transport*: frames of concurrent goroutines share a stream; every request is answered exactly once,
  every progress is begun and ended in order.
- *Cache*: lookup, connect and install must be one step for all others; a client must be the right one
  and alive.
- *Watch*: edits race with events, ticks and uploads; once quiet, the remote side must have caught up.
- *Connection*: Connect is a chain of steps over several machines; wherever it fails, and whenever a
  connection is lost, nothing of the server may stay open, and each hop must be reached through the last.
- *FTP backend*: FTP removes and makes neither trees nor chains of directories, so the backend composes
  commands, while other clients change what it has listed. Success must mean removed, or made.
- *Path mapping*: two front ends, two directions, any current directory, a `remotePath` with or without a
  slash at its end: all must agree where a file lives, and a joined string must not leave the remote root.

`PROJECT.json` lists these hazards line by line with the properties that watch over them.

## The modules

### TaskPool, Scheduler

`TaskPool` says what callers rely on: tasks run in any order, at most `Capacity` at once until the context is
done, the call returns after all of them with the first error, a task's or the context's. `Scheduler` is `RunAll`
step by step: `StartTask` is the loop with a token sent to `s.sem`, `StartCancelled` the loop with `ctx.Done()`
chosen — the `break` of line 37 leaves only the `select`, so a task is started without a token — `FinishTask` the
task function and the `Once`, `LeaveTask` the deferred receive and `wg.Done`, `Return` what follows `wg.Wait`.
`Cancel` may come at any moment, although every caller passes a context that is never cancelled today. The
refinement mapping takes `running` to the goroutines inside their task function and `finished` to those past it;
it is checked (`ImplementsPool`) and proved (`RefinesPool`), cancellation included.

### FileUpload

Uploads of one file by overlapping goroutines. The remote directory maps the target's and the temporary
name to inodes, because Rename moves an inode another upload may still be writing. A file is a sequence of
chunks named by the version of the local file they were read from, so that torn and stale content can be told
apart. `Truncate`, `Rewrite` and `Replace` are the user's editor, at any moment: it empties the file and writes the next version
into it, or renames a new file over it (`inPlace`). An edit starts no upload: `handleDidSave` returns early without a profile,
without `uploadOnSave` and for ignored names, and an editor writes before it reports a save, so `Begin` may follow any number
of edits, or none. An upload that has the file open reads what a rewrite leaves of it (`CopyChunk`), also its early end
(`CopyEnds`). `mixed` records which inodes were filled meanwhile. `Fault` fails any call (a failed Rename goes on to Remove); `Exit` is `os.Exit` between any two steps.
`useTempFile` and `renameReplaces` are chosen at the start: the option, and whether the server's rename replaces
an existing target, which the SFTP rename that `putFile` uses leaves to the server.

### TransferTree

`Transfer` of a tree, upload or download, as one call per path with its own control point: stat, list, make
the destination, run the tasks, or put a file. Each directory has a `Scheduler` of its own. Source files may
vanish at any moment and calls may fail; a failed call may have had its effect (a Chmod after a MkdirAll).

### SyncDir

`Sync` over both trees: the stack of `syncDir` calls, the visit of the listed entries (skip, recurse, add a
task), `RunAll` over tasks and deletions, the unsynchronised increments of the shared result as a load and a
store. Trees are functions from paths (sequences of names, up to `Depth`) to nodes with a kind, a content
(the side it came from) and a small mtime. `SyncAgain` calls Sync once more on the trees the last call left,
with the mtimes its writes produced (`Clock`), since neither `Put` preserves them. The server's clock lags the local one by
`offset`, or leads it, and the files may have any mtimes at the start. The properties state what a Sync
owes with `Due` and `Gone`, which describe the result without the recursion. `UpdateSettles` looks at the outcome of
the Sync before (`before`): after one that returned an error the next may well have work to do, because the order of
Go's maps decides which directories the failed one had reached. Which files the second Sync copies nevertheless is part of the
property: those whose source is dated later than the destination's clock was at the first copy, so uploads to a server
whose clock is behind, and downloads from one whose clock is ahead, every time. `OverwritesOnlyOlder` compares times as the
two sides report them, because one-way calls never look at the offset they are given.

### ClientCache

`getOrConnectClient` and `closeAll`: the mutex is held from lookup through Connect to install (`Miss`,
`Connect` or `ConnectFails`, `Install`) and only for an instant on a `Hit`. Each goroutine opens at most one
connection, so a connection is named by the goroutine that opened it. `Drop` ends a connection from the other
side; nobody is told. `OwnServer` says which profiles may be mistaken for each other (`Mistakable`): those that go by one
name, because the map has nothing else to tell them apart; the run has three such profiles among its five.

### LspServer

One dispatch goroutine per message and one work goroutine per command or save. `Reply` queues the frames a
goroutine writes; `WriteHeader` and `WriteBody` are the two writes of `writeMessage` under `s.mu`. A command's
work starts after its `begin` frame, and may finish before its request is answered. Files and connections are
left to the other modules: a command succeeds or fails. The editor waits for the answers to `initialize` and
`shutdown`, as the protocol demands.

### Watch

The user's edits raise events for entries of watched directories; the loop collects them per path and, at a
tick, works through the batch in any order while the user goes on editing. A file's content is the number of
the edit that wrote it. An upload is one step: a file rewritten during its upload raises another event, which
uploads it again. A failed operation may have reached part of what it is about (`Torn`).

### Connection

One `RemoteClient` from `New` to `Close`. Connections are numbered: 1 .. `Hops` lead to the jump hosts, `Target` to
the server. `open` is the set of what is open: TCP sockets, SSH connections, channels, the proxy process, agent
sockets, the SFTP session, the FTP control connection, each with the connection it belongs to and the one it was
dialled through. `Connect` applies the overlay of `~/.ssh/config` (`EffectiveKey`, `EffectiveProxy`) and reads the
key; `HopConfig`, `Dial`, `Handshake` are one round of `dialWithHops`, `OpenSubsystem` what follows it, `FtpDial` and
`FtpLogin` the other protocol. Each may fail, at the point where the code closes some things and not others.
`Drop` loses a connection with all that runs in it.

### FtpBackend

`Connection` with the file system operations between Connect and Close. `ListFirst`, `VisitEntry` and `RemoveDir` are
the recursion of `RemoveAll`: `stack` holds, per call, its directory and the entries it has still to visit, as listed.
`MakeDir` is one round of `MkdirAll`, which goes on after an answer 550. Between any two commands `Other` makes or
removes entries for other clients, and the server may refuse a command. A lost control connection makes every
later command fail.

### PathMapping, FrontEnds

A local path is the sequence of its names; a remote path the sequence of what stands between its slashes, because
the code cuts and joins strings: a trailing slash is an empty last member. `PathMapping` has every path function
of the handler, of the commands and of the search for `sftp.json`; `HasPrefix` is the string's, so it also accepts a name
that merely begins with another (`NameTail`).

`FrontEnds` composes them on two trees. A command of the command line is two steps (`Start` reads `sftp.json`, chooses
the profile and resolves the paths; `Run` does the work and closes), so that the file and the trees may change
between them; the editor keeps the profiles it read in `Initialize`. Each command is one `Request` (what is done, a local
path, a remote path) with an `Effect` on the trees. The editor's project commands may come without a local path, and whether
its sync removes is said by the profile. A file's content is the path it was first written at, so a file
that came to a wrong place can be told. `strayed` records that the user named something out of place.

`InPlace` is the agreement of both front ends over whatever sequence of their commands; `StaysInside` says of one command
where it may change anything: below `remotePath`, below the workspace, and missing directories above these. `Orderly`
names what the code takes for granted; what it asks of `sftp.json` and of arguments is needed (Proofs): paths of the trees and of directories are clean,
remote arguments have no `..`, no `remotePath` is the server's root, lies in another one or ends in two slashes, `--config`
names the workspace's own `sftp.json` or one outside any `.vscode`, and files are in place at the start. `MCFrontEnds` assumes
it of the instance, so TLC evaluates it.

## Runs

Modules named `MC...` only give the constants their values. Every passing run checks the properties in its `.cfg`;
every `violation` run refutes one sentence of the repository's comments, help texts or README, quoted under "findings"
in `PROJECT.json`. The type invariants of `Scheduler`, `FileUpload`, `ClientCache`, `LspServer` and `Connection` are in no
run: they are proved for every value of the constants. `TargetWhole`, `FramesWhole`, `Outcome` and the like are both
run and proved.

| Run | Bounds | What it shows |
|---|---|---|
| `scheduler_pool` | 4 tasks, 2 tokens, cancellation at any moment | limit, outcome, first error, refinement, return unless cancelled |
| `upload` | 3 uploads, 2 chunks, 2 edits, 1 fault, both options, both kinds of server and of editor | the target is whole, unless the file was rewritten in place during the copy; what was reported done arrived; no stray temporary file after a refused rename |
| `upload_overlap` | 2 uploads, 1 edit | *violation*: overlapping uploads write into the target |
| `tree` | depth 2, 3 names (one ignored), concurrency 1 and 2, 1 fault, 1 file removed, dry runs | everything arrives or an error is returned; nothing beside the destination changes; the bound over all levels; termination |
| `sync` | depth 2, 2 names, flags in all combinations, two rounds of update on files of two ages with the server's clock right, 2 behind, and 2 ahead with files of its future, both directions with offsets 0 and 1, 1 fault | only what is due changes; nil means in line; update overwrites older files only and settles, but for files dated later than the first copy; newest wins; counters; Sync returns |
| `sync_list_error` | 1 failed List | *violation*: delete removes what the source has |
| `cache` | 3 commands, 5 profiles of which 3 go by one name, 2 drops | one connection per key, the profile's own server or that of one of the same name, never a closed one; every command ends |
| `watch` | 4 edits, 2 files, 1 directory, 1 fault, `--delete` and `--dry-run` in all combinations | latest content arrives; directories are watched; the loop catches up |
| `server` | sessions of 4 or 5 messages, up to 2 commands and a save at once | answered once; whole frames; progress in order; nothing left open |
| `client` | every mix of key, proxy and agent; up to 3 jump hosts, 1 lost connection; 3 small trees, 2 changes by another client, 1 refused command | nothing of the server stays open; hops in order; removed means gone, made means there; nothing beside the path is touched |
| `front_ends` | 2 commands of either front end, 3 current directories, 2 profiles in 2 orders, one `remotePath` with a slash at its end, `sftp.json` edited between | files are where they belong; a command that names nothing outside stays inside |
| `cli_dry_run` | the same | *violation*: `sync --dry-run` and `mkdir --dry-run` change files |

What differs between calls of one component — options, flags, trees, the kind of server — is chosen in `Init`
from a set the `MC` module gives, so one run covers all of it: `AllCalls` in `MCSyncDir`, `SmallCalls` in
`MCTransferTree`, `AllFlags` in `MCWatch`, `AllSettings`, `AllTrees` and `AllOperations` in `MCClient`.

Why these bounds are enough to be interesting: two of anything that competes (uploads, commands, copies) plus
one that waits; two levels of directories, so that a call has both a caller and callees; two chunks, so that a
file can be half written; one fault, which may hit any call; two file ages and an offset of one, which reverse
the comparison; three jump hosts, so that one is neither the first nor the last; two changes by another client,
one between a listing and its use and one that undoes a removal; two edits, one before and one during a copy; two commands, so that one reads back, through
its own path function, what the other wrote. The exact values are in the `.cfg` files.

Deadlock is checked everywhere except in the run of `Scheduler`, where the code can indeed block for ever once
its context is cancelled. `Terminated` is the stuttering of a system that is done.

### Fairness

Go runs every goroutine that can run, `select` picks among ready cases, and a mutex is handed on: each
component's own steps are weakly fair (`FairSpec`). Three assumptions are about others: a file-system call
returns (`FinishTask`, `Sync`, `Transfer`, `RunCommand`), Connect returns (`ClientCache`), and stdout is read
(`WriteBody`). The code puts no deadline on SFTP calls, the SSH handshake or a proxy command, so a server that
goes silent without closing blocks the goroutine that waits for it, and, during Connect, every other command.
Liveness results are relative to that, and `Connection`, `FtpBackend` and `FrontEnds` state none. User edits, faults,
drops, cancellation, exit and new messages are never fair.

## Proofs

Eight modules: `SchedulerProofs`, `FileUploadProofs`, `TransferTreeProofs`, `SyncDirProofs`, `LspServerProofs` and `WatchProofs`
extend the module they are named after, `FtpBackendProofs` extends `FtpBackend` and so `Connection`, and `FrontEndsProofs` extends
`FrontEnds`, and so `PathMapping`, and `ClientCache`. Constants are arbitrary within the named assumptions of those modules.

*Scheduler*, for any number of tasks, any argument of `NewScheduler` and a context cancelled at any moment or never:

- `TypeCorrect`, then `InvCorrect` with `Inv`: tasks before `next` are started and no others (`Progress`), a
  recorded error is real (`ErrorReal`). `Outcome` follows, since Return requires that no goroutine is active;
  `FirstErrorStays` needs only the shape of the steps.
- `TokensHeldCorrect`: until the context is done, `sem` equals the number of active goroutines; `TaskCount` (a lemma
  on cardinalities) gives each step its arithmetic. `BoundCorrect` follows because `sem <= Capacity` and the
  running tasks are among the active ones.
- `RefinesPool`: the initial states map to initial states and every step to a pool step or a stutter; a start needs
  `TokensHeld` for the pool's limit, a return needs `Inv` to know that every task is finished.

*ClientCache* (in `FrontEndsProofs`), for any commands, profiles and number of drops: `CacheInv` says that whoever connects holds the lock and
found no client (`LockHeld`), that a goroutine which has not connected has opened nothing, that the map holds
only unclosed connections under their own keys (`MapSound`), `OneClient`, and that a goroutine was given a
connection of its own key (`HeldSound`). None of these is inductive alone: `OneClient` needs `LockHeld` so that an
install does not overwrite an entry, `NeverGivenClosed` needs `MapSound`. `OwnServerCorrect` is
`HeldSound` and what it means that two keys are equal, for any profiles: `Mistakable`.

*FileUpload*, for any number of uploads, any length of the file, any number of edits and faults and an exit anywhere: `Types` adds
to `TypeOK` what bounds the counter of inodes (an upload creates one at most; `Counting` gives the cardinalities). `Inv` says, as long as no uploads overlapped, that at most one is active (`Alone`), that it writes an
inode no name but its own destination has (`OwnFile`), that the target is whole and holds what was last reported done
(`TargetWhole`, `Delivered`), and whose temporary file is left (`TempOwned`). `TargetWhole` is not inductive without
`OwnFile`: a rename makes the temporary inode the target, so that inode has to be complete by then.

*TransferTree*, for any names, depth, trees, concurrency, failed calls and source files removed meanwhile: `Order` gives the
order `Above` of paths without their representation, so the rest never looks into a sequence. `Inv` is `Calling` (below a
call that has not run its tasks nothing is under way, below one that returned nil every call did, a task runs inside its
parent's `RunAll`, only visible paths have tasks) and `Trees` (both sides stay trees, a listed directory has a task for
all that is not ignored, a directory is there while anything is done in it, a torn target is being written or failed).
`StepMoves` reduces all steps but the listing and the removal of a source file to one shape, `Moves`, on which
`TreesMove` argues once. `Arrived` needs `Reached`: when a call returns nil, every entry below it was listed by the call
of its own directory, so none of them is left without a call.

`CopiesBounded` needs another invariant: in every directory whose tasks run, the tasks under way hold at most `Capacity`
tokens (`Tokens`). `Numbered` gives the tasks of a directory different tokens, so the files being copied get different words
of one token per level (`Coded`), by induction over the levels: the argument of `Induction` is the set of levels for which
there are such words. The bound is stated as the number of words,
`Cardinality([1 .. Depth -> 1 .. Capacity])`, which is `Capacity` to the power `Depth`.

*SyncDir*, for any names, depth, trees, options, numbers of calls and failed operations. `TypeInv` (the calls on the stack go
one directory deeper each; both trees stay trees) is inductive as it stands. All else is about one idea: an entry is *open*
(`OpenOn`) from the moment Sync begins until the call of `syncDir` that lists its directory has dealt with it.

- `Nested`: what is below the directory of a call is no longer open in the calls around it, so an entry is dealt with once.
- `Faithful`: the listings a call holds are those of the trees when Sync began, and its tasks are due. It holds because what is
  listed is still open, and `Untouched` says that an open entry is as it was on both sides.
- `Finished`: unless something failed, every entry that is not open is exactly as it is to be (`Exactly`, for one direction,
  with the new mtime; `Agreed` for both). `InLine` and `BothAgree` are what is left of it when the stack is empty.
- `OnlyWhatIsDue` is carried along: a step that closes an entry settles it, leaves it, or leaves a torn file and an error.
- `Repeated`: in a Sync after one that returned nil nothing is due but what is dated later than the first copy (`Late`); from
  `Exactly` and the mtime of a written file (`NothingDue`), for any clocks and any times.
- `Skips`, `Alone` and `Books`, for `SerialCounts`: `skipped` is the number of entries passed over that are no longer open;
  with one task at a time at most one task runs, and each counter, plus the one a task has done and not counted yet
  (`Pending`), is the number of operations of its kind that took effect. A counter a task has read is then still the one it
  writes back increased. The loss of increments with several tasks is where `Alone` fails.

`Reached` reduces every step to what it does to open and closed entries; `Advanced` does so for the steps that stay in one call,
`Quiet` for those that leave the trees alone. `Ruled` says what `Due`, `Gone` and `Visited` mean for everything below an
entry; `Changes` lists the only three ways in which an entry of the destination changes, from which the action
properties follow. All but `TypeCorrect` say "until a listing of an existing directory fails" (`listFaults = 0`, or
`MaxListFaults = 0` for the action properties): the run `sync_list_error` shows that without it they are false.

*Watch*, for any files, directories, flags, edits and faults. `Caught` speaks of every path that exists and whose directory
was not made anew: what is on its way for it does not end in a removal (`Owed`), and once nothing is on its way (`Rest`) it is
`Kept`: a file has its latest content on the remote side, if no call failed and it is no dry run; a directory is watched.
`Undisturbed` adds that a directory never made anew is watched and at rest, so the events of its files are not missed.
`Uploaded` and `DirsWatched` are `Caught` when nothing is under way.

*LspServer*, for any set of sessions, so any number of messages and commands at once: `HandleReplies` and `CommandReports`
reduce every way Handle or a command ends to a few queues of frames, whose shape `Shapes` states. `Inv` is `Locks` (the
holder of `s.mu` writes the head of its own queue, so `half` has one member: `FramesWhole`) and, per message, `Fresh`
(a message not handled left no trace), `Idle` (the command's goroutine runs after begin), `MainTodo` and `WorkTodo` (what
is queued is distinct, not on stdout, has at most one answer, `begin` behind `create`, and `end` only when `begin` is out)
and `Order`. `StaysSo` disposes of the messages a step does not touch.

*Connection* (in `FtpBackendProofs`), for any number of jump hosts and any settings: `Inv` is `Progress` (what is open while Connect stands at a
given step), `Released`, `Tunnelled` and `SessionOfTarget`. `Released` needs `Progress`: a failing step closes what that step
knows of, and only `Progress` says that this is all that belongs to the target.

*FtpBackend*: `ImplementsConnection` shows that its steps are steps of `Connection` or stutter, so `ClientReleased` and `ClientTunnelled` follow.
`CallOK` keeps the tree well formed, each frame of the stack a child of the one below it (`StackOK`) and the control
point among those the call can be at (`AtOK`). With it, `RemovedIsGoneCorrect`: a nil comes from an RMD of the path itself,
which succeeds on empty directories only, or from a first LIST that failed. `RemovesOnlyBelowCorrect` follows from
`StackOK`; `MadeIsThereCorrect` needs `MadeSoFar`: each component dealt with is a directory or a file is in the way.

*PathMapping* (in `FrontEndsProofs`). The library's induction theorems take an operator the provers cannot instantiate, but its
theorem on least elements takes a set: `Induction` is that theorem for a set of naturals, `SeqInduction` for a set of
sequences. With them `Clean`, a fold, gets its equations: `FoldExists` and `FoldUnique` are about the function
`FoldLeft` chooses, and `CleanAppend` says that a path with one more name is that name entered after all others. From it
follow what `Clean` returns (`CleanType`), that it leaves names alone (`CleanPlain`), and `CleanConcat`: a relative path without
`..` can be cleaned by itself.

- `RoundTrip`, for any names other than the empty one, `.` and `..`: a file of the workspace goes to `remotePath` and its
  relative path whichever front end sends it, and `remoteToLocalPath` and `defaultLocalDestination` bring it back to where
  it was, with or without a slash at the end of `remotePath`.
- `Outwards` and `Homewards`: the same for paths as the user types them, under `Orderly`.

*FrontEnds*, for any names, trees, directories, profiles, arguments and number of commands that are `Orderly`. Two reductions carry
the proof. `Change` is the one shape of what a request does to a tree: something below its path goes, comes from the
other tree at the same relative path, or a directory is made; `EffectIs` shows it of every request (`CopiedChange`,
`SyncedChange`, `RemovedChange`, `MadeChange`). `Fits` and `Confined` say what a request of a command that strayed nowhere
looks like: the two paths of a transfer are the same relative path below the workspace and below `remotePath`, what is removed
or made lies below `remotePath`. `CliIs` (one lemma per kind of command) and `EditorIs` show it of the two front ends.

`Inv` says that paths are clean, what a process that has connected will do fits the profile it connected with (`Connected`, needed
since `sftp.json` and the trees change before `Run`), and `InPlace`. `InPlaceCorrect` is `EffectInPlace` over all steps: a file
comes from its counterpart, and since no `remotePath` lies in another one, the place it came to is that of one profile only.
`StaysInsideCorrect` is `EffectInside`, with `ChangeBelow`. Without `Orderly`'s clauses they do not hold: in nested
`remotePath`s a file has two counterparts, another `.vscode/sftp.json` given with `--config` has another workspace, a
remote argument with `..` leaves `remotePath`, and for a `remotePath` "/" or with two slashes at its end see below.

Every safety property of the passing runs is proved. Only model-checked: liveness (`ReturnsUncancelled`, `TransferReturns`,
`SyncReturns`, `UsesEnd`, `CatchesUp`, `NothingLeftOpen`), since the provers handle neither fairness nor ENABLED; and the sentences
the violation runs refute.

## Known divergences

The three violation runs each refute a sentence of the code's own comments, help texts or README, quoted in
`PROJECT.json`. The models hold more behaviour that a reader of those texts would not expect; the properties are
stated so as not to claim it, and most are also hazards in `PROJECT.json`:

- Once its context is cancelled, `RunAll` exceeds its limit (`scheduler.go:37`; comment at line 23), and a goroutine
  started then blocks on the empty channel, so `RunAll` never returns (`scheduler.go:44`; comment at line 24: it
  "waits for all started tasks to finish"). Every caller passes a context nobody cancels today.
- With `useTempFile` and a server that refuses to rename over a file, every upload to an existing target fails
  (`transfer.go:175`; `README.md:68` says uploads always overwrite).
- Sync in both directions does not recurse (`sync.go:216`; comment at line 198): `BothAgree` is about trees without
  subdirectories. It also counts files that were equal as transferred (line 243).
- One-way sync with update compares the times as they are: `RemoteTimeOffset` applies to both directions only
  (`sync.go:270`), although it is passed in every direction (`handler.go:381`, `commands.go:177`) and its comment says that it
  adjusts the comparison (`sync.go:33`). So it may replace a newer file or pass over an older one (comment at line 29), and
  copies some files every time, as `UpdateSettles` says. No run refutes the comment; `OverwritesOnlyOlder` claims
  the reported times only.
- A file that an editor rewrites in place while it is uploaded arrives torn or cut short, and the upload is reported
  done (`sftp.go:389`), also with `useTempFile`; unless another save with `uploadOnSave` follows, it stays so
  (`handler.go:289`). `TargetWhole` and `DeliveredAtRest` leave out what was filled from such a file (`mixed`).
- Concurrent tasks lose increments of the result's counters (`sync.go:109`; comment at line 38): `SerialCounts` is
  about one task at a time.
- Profiles without a name on one host share a client, though user, port or protocol differ, and so do a profile without a
  name and one named like its host (`handler.go:314`; comment at line 306): `OwnServer` excepts them as `Mistakable`. And a connection the server dropped is
  handed out again (`handler.go:317`; comment at line 306).
- Watch misses a file written in a new directory before the next tick (`watch.go:132`; help at line 25), and leaves
  the remote file when a file is written and removed within one tick (`watch.go:110`; help at line 164).
- `watch --delete --dry-run` deletes (`watch.go:111`; help at `commands.go:45`).
- Watching a subdirectory, opening the editor on one, and syncing one from the editor map that subdirectory to
  `remotePath` itself, where other commands put the workspace (`watch.go:128`, `handler.go:89`, `handler.go:228`).
- An editor keeps the profiles it read at `initialize`: a later edit of `sftp.json` is not seen (`handler.go:98`).
- Jump hosts' clients and the sockets to the agent are closed by nobody, after a failed Connect or by Close
  (`sftp.go:148`; comment at `client.go:14`): `Released` is about what belongs to the server.
- A user of `~/.ssh/config` is never used, since a configuration without `username` is invalid (`config.go:119`), and an
  explicit port 22 is overridden (`sftp.go:107`); `README.md:106` says unset values are overlaid.
- FTP: a first LIST that fails for any reason counts as "already gone" (`ftp.go:134`), and a 550 of any kind as
  "already exists" (`ftp.go:122`): `RemovedIsGone` and `MadeIsThere` exclude these.
- With `remotePath` "/", the remote arguments "" and "." become the empty string, which an SFTP server takes for the
  home directory (`commands.go:422`).
- With a `remotePath` that ends in two slashes, the editor takes no file for one below it and downloads each to the
  workspace itself (`handler.go:398`); the command line does not (`commands.go:429`).
- `/var/www2/x` counts as a path under `/var/www` (`handler.go:398`) and is downloaded to the workspace's `2/x`.
- `uriToPath` does not decode percent signs (`handler.go:414`), so a workspace with a space in its name has another root.
- The code `MethodNotFound` that the handler chooses never reaches the editor (`handler.go:75`, `server.go:102`).

## Not modelled

- Parsing and formatting of JSON, headers, flags and dates; the constants `SetDefaults` fills in; permissions; symbolic links.
- FTP's Stor, Retr, Delete and Rename, single commands of the library; and several calls at once on one control
  connection, as a tree transfer makes them: what the library does then is not in this repository.
- Deadlines: the code sets one for the TCP dial only, and a proxy connection ignores it.
- Write errors of stdout, which `writeMessage` logs and drops.
- Edits by the user while a Sync runs; lost file-system events; directories more than one level below the watched one;
  ignore patterns beyond a set of matching names.
- In `FrontEnds`: an editor without a root or commands of it that lack the path they need, what `watch` removes (in `Watch`, where
  `--dry-run` does not stop it), sync in both directions (in `SyncDir`), and partial failures of a command (in
  `TransferTree`, `SyncDir`, `FileUpload`); the command `config`, which only prints.
- `internal/fs` and `cmd/sftp-lsp`: wrappers over package os, and the choice between command line and server.

## Plan

1. Done: all components above; proofs of the scheduler, the upload, the tree, Sync, the cache, the server, Watch, the
   connection, the FTP backend, the path mapping and the front ends.
2. Compositions: `LspSession` (LspServer with ClientCache: shutdown while commands run, connections opened after closeAll),
   and edits by the user during a Sync, for which the code's guarantee has to be worked out first.
3. Proofs: `CopiesBounded` with the power itself, by induction over the depth.

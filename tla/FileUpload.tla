------------------------------ MODULE FileUpload ------------------------------
(***************************************************************************)
(* Uploads of one local file to its remote path: the save handler and the  *)
(* upload command of internal/lsp/handler.go start goroutines that call    *)
(* Engine.UploadFile -> putFile (internal/transfer/transfer.go), which     *)
(* calls Put, Rename and Remove of the SFTP backend                        *)
(* (internal/client/sftp.go).  Nothing serialises these goroutines, and    *)
(* nothing keeps the user's editor from writing the local file while they  *)
(* read it: an edit may start no upload at all.                            *)
(*                                                                         *)
(* A file is a sequence of Chunks chunks and each chunk is named by the    *)
(* version of the local file it was read from.  The remote directory maps  *)
(* the target and the temporary name to inodes, because a Rename moves an  *)
(* inode other uploads may still have open.                                *)
(***************************************************************************)
EXTENDS Integers, Sequences, FiniteSets

CONSTANTS
  Upload,          \* the uploads that may take place, each a goroutine
  Chunks,          \* length of every version of the file, in chunks
  MaxEdits,        \* bound on the versions the editor writes
  MaxFaults        \* bound on the calls that fail

ASSUME UploadAssumption ==
  /\ IsFiniteSet(Upload) /\ Upload # {}
  /\ Chunks \in Nat \ {0}
  /\ MaxEdits \in Nat /\ MaxFaults \in Nat

Names == {"target", "temp"}
None == -1       \* no inode under a name, no upload
Hole == -1       \* a chunk never written, in front of one that was
Original == 0    \* the version the remote target holds at the start, if any
\* Inode 0 is the original target; every upload creates at most one more.
Inode == 0 .. Cardinality(Upload)

VARIABLES
  useTempFile,     \* the useTempFile option
  renameReplaces,  \* does the server's rename replace an existing target?
  inPlace,         \* does the editor rewrite a file, or rename a new one over it?
  saved,       \* version of the local file, as last written
  writing,     \* has the editor emptied the local file and not yet written it again?
  name,        \* the remote directory: name -> inode
  data,        \* inode -> chunks
  created,     \* number of inodes created so far
  pc,          \* control point of each upload
  ver,         \* version of the local file each upload opened
  off,         \* chunks each upload has written
  ino,         \* inode each upload has open for writing
  exited,      \* has the process exited?
  faults,      \* failed calls so far
  overlapped,  \* history: have two uploads ever been active together?
  mixed,       \* history: inodes filled from a file the editor was rewriting
  last         \* history: the upload that ended last, if any

remote == <<name, data, created>>
local == <<ver, off, ino>>
options == <<useTempFile, renameReplaces, inPlace>>
file == <<saved, writing>>
vars == <<options, file, name, data, created, pc, ver, off, ino, exited,
          faults, overlapped, mixed, last>>

Control == {"idle", "open", "create", "copy", "chmod", "rename", "cleanup",
            "done", "failed"}
Ended == {"idle", "done", "failed"}
Active == {u \in Upload : pc[u] \notin Ended}

TypeOK ==
  /\ useTempFile \in BOOLEAN /\ renameReplaces \in BOOLEAN /\ inPlace \in BOOLEAN
  /\ saved \in 0 .. MaxEdits /\ writing \in BOOLEAN
  /\ name \in [Names -> Inode \cup {None}]
  /\ \A i \in Inode : /\ Len(data[i]) <= Chunks
                      /\ \A k \in DOMAIN data[i] : data[i][k] \in Hole .. saved
  /\ created \in Inode
  /\ pc \in [Upload -> Control]
  /\ ver \in [Upload -> 0 .. saved]
  /\ off \in [Upload -> 0 .. Chunks]
  /\ ino \in [Upload -> Inode]
  /\ exited \in BOOLEAN /\ overlapped \in BOOLEAN
  /\ faults \in 0 .. MaxFaults
  /\ mixed \subseteq Inode
  /\ last \in Upload \cup {None}

Version(v) == [k \in 1 .. Chunks |-> v]

\* The content s is one whole version of the file, v or a later one.
WholeSince(s, v) == \E w \in v .. saved : s = Version(w)

--------------------------------------------------------------------------------

Init ==
  /\ useTempFile \in BOOLEAN /\ renameReplaces \in BOOLEAN /\ inPlace \in BOOLEAN
  /\ saved = Original /\ writing = FALSE
  /\ name \in [Names -> {None, 0}] /\ name["temp"] = None
  /\ data = [i \in Inode |-> IF i = 0 THEN Version(Original) ELSE <<>>]
  /\ created = 0
  /\ pc = [u \in Upload |-> "idle"]
  /\ ver = [u \in Upload |-> 0]
  /\ off = [u \in Upload |-> 0]
  /\ ino = [u \in Upload |-> 0]
  /\ exited = FALSE
  /\ faults = 0
  /\ overlapped = FALSE
  /\ mixed = {}
  /\ last = None

\* The editor empties the file before it writes the next version into it: an
\* upload that is reading it gets parts of what it held, of nothing, of what comes.
Truncate ==
  /\ inPlace /\ ~writing
  /\ saved < MaxEdits
  /\ writing' = TRUE
  /\ mixed' = mixed \cup {ino[u] : u \in {w \in Upload : pc[w] = "copy"}}
  /\ UNCHANGED <<options, saved, remote, pc, local, exited, faults, overlapped, last>>

Rewrite ==
  /\ writing
  /\ writing' = FALSE
  /\ saved' = saved + 1
  /\ UNCHANGED <<options, remote, pc, local, exited, faults, overlapped, mixed, last>>

\* The editor renames the next version over the file: who has the file open
\* goes on reading the version it opened.
Replace ==
  /\ ~inPlace
  /\ saved < MaxEdits
  /\ saved' = saved + 1
  /\ UNCHANGED <<options, writing, remote, pc, local, exited, faults, overlapped, mixed, last>>

\* A goroutine for u calls UploadFile: for an upload command, or for a didSave
\* handleDidSave does not return from early (no profile, uploadOnSave off, ignored
\* file: no step).  The file may have changed any number of times since the last one.
Begin(u) ==
  /\ ~exited
  /\ pc[u] = "idle"
  /\ pc' = [pc EXCEPT ![u] = "open"]
  /\ overlapped' = (overlapped \/ Active # {})
  /\ UNCHANGED <<options, file, remote, local, exited, faults, mixed, last>>

\* UploadFile's Stat, putFile's MkdirAll of the parent and Get of the source.
OpenSource(u) ==
  /\ ~exited
  /\ pc[u] = "open"
  /\ pc' = [pc EXCEPT ![u] = "create"]
  /\ ver' = [ver EXCEPT ![u] = saved]
  /\ UNCHANGED <<options, file, remote, off, ino, exited, faults, overlapped, mixed, last>>

\* Faulty variant: useTempFile is ignored.
Dest_Direct == "target"

\* The name putFile hands to Put.
Dest == IF useTempFile THEN "temp" ELSE "target"

\* Put's Create: open with O_CREATE and O_TRUNC, whoever else has the file open.
CreateDest(u) ==
  /\ ~exited
  /\ pc[u] = "create"
  /\ pc' = [pc EXCEPT ![u] = "copy"]
  /\ off' = [off EXCEPT ![u] = 0]
  /\ LET fresh == name[Dest] = None
         i == IF fresh THEN created + 1 ELSE name[Dest]
     IN /\ created' = IF fresh THEN i ELSE created
        /\ name' = [name EXCEPT ![Dest] = i]
        /\ data' = [data EXCEPT ![i] = <<>>]
        /\ ino' = [ino EXCEPT ![u] = i]
        /\ mixed' = IF writing THEN mixed \cup {i} ELSE mixed \ {i}
  /\ UNCHANGED <<options, file, ver, exited, faults, overlapped, last>>

\* Writing chunk k of s; chunks skipped over read as holes.
WriteAt(s, k, c) ==
  [j \in 1 .. (IF Len(s) < k THEN k ELSE Len(s)) |->
     IF j = k THEN c ELSE IF j <= Len(s) THEN s[j] ELSE Hole]

\* The version u reads through the handle it has open.
Shown(u) == IF inPlace THEN saved ELSE ver[u]

\* Faulty variant: the copy stops one chunk early.
CopyChunk_Short(u) ==
  /\ ~exited
  /\ pc[u] = "copy" /\ ~writing
  /\ data' = [data EXCEPT ![ino[u]] = WriteAt(@, off[u] + 1, Shown(u))]
  /\ off' = [off EXCEPT ![u] = @ + 1]
  /\ pc' = [pc EXCEPT ![u] = IF off[u] + 1 >= Chunks - 1 THEN "chmod" ELSE "copy"]
  /\ UNCHANGED <<options, file, name, created, ver, ino, exited, faults, overlapped, mixed, last>>

\* One round of Put's io.Copy: the next chunk is read and written.
CopyChunk(u) ==
  /\ ~exited
  /\ pc[u] = "copy" /\ ~writing
  /\ data' = [data EXCEPT ![ino[u]] = WriteAt(@, off[u] + 1, Shown(u))]
  /\ off' = [off EXCEPT ![u] = @ + 1]
  /\ pc' = [pc EXCEPT ![u] = IF off[u] + 1 = Chunks THEN "chmod" ELSE "copy"]
  /\ UNCHANGED <<options, file, name, created, ver, ino, exited, faults, overlapped, mixed, last>>

\* io.Copy meets the end of the file the editor emptied: no error, the copy is over.
CopyEnds(u) ==
  /\ ~exited
  /\ pc[u] = "copy" /\ writing
  /\ pc' = [pc EXCEPT ![u] = "chmod"]
  /\ UNCHANGED <<options, file, remote, local, exited, faults, overlapped, mixed, last>>

\* An upload ends: with success, or with the error putFile returns.
End(u, how) ==
  /\ pc' = [pc EXCEPT ![u] = how]
  /\ last' = u

\* Put's Chmod goes by name: it fails when another upload took the name away.
ChmodDest(u) ==
  /\ ~exited
  /\ pc[u] = "chmod"
  /\ \/ name[Dest] = None /\ End(u, "failed")
     \/ name[Dest] # None /\ ~useTempFile /\ End(u, "done")
     \/ /\ name[Dest] # None /\ useTempFile
        /\ pc' = [pc EXCEPT ![u] = "rename"]
        /\ UNCHANGED last
  /\ UNCHANGED <<options, file, remote, local, exited, faults, overlapped, mixed>>

\* Rename of the temporary file over the target: refused when the temporary
\* file is gone, or when the target exists and the server does not replace it.
RenameTemp(u) ==
  /\ ~exited
  /\ pc[u] = "rename"
  /\ IF \/ name["temp"] = None
        \/ name["target"] # None /\ ~renameReplaces
     THEN /\ pc' = [pc EXCEPT ![u] = "cleanup"]
          /\ UNCHANGED <<options, name, last>>
     ELSE /\ name' = [name EXCEPT !["target"] = name["temp"], !["temp"] = None]
          /\ End(u, "done")
  /\ UNCHANGED <<options, file, data, created, local, exited, faults, overlapped, mixed>>

\* Faulty variant: the temporary file stays.
RemoveTemp_Kept(u) ==
  /\ ~exited
  /\ pc[u] = "cleanup"
  /\ End(u, "failed")
  /\ UNCHANGED <<options, file, remote, local, exited, faults, overlapped, mixed>>

\* putFile's Remove(dest) after a failed Rename; its own error is ignored.
RemoveTemp(u) ==
  /\ ~exited
  /\ pc[u] = "cleanup"
  /\ name' = [name EXCEPT !["temp"] = None]
  /\ End(u, "failed")
  /\ UNCHANGED <<options, file, data, created, local, exited, faults, overlapped, mixed>>

\* A call of u fails: a failed Rename goes on to Remove, any other error is
\* returned at once and what Put has written stays on the server.
Fault(u) ==
  /\ ~exited
  /\ faults < MaxFaults
  /\ u \in Active
  /\ faults' = faults + 1
  /\ IF pc[u] = "rename"
     THEN pc' = [pc EXCEPT ![u] = "cleanup"] /\ UNCHANGED last
     ELSE End(u, "failed")
  /\ UNCHANGED <<options, file, remote, local, exited, overlapped, mixed>>

\* The exit notification (os.Exit) or the end of stdin: no goroutine goes on.
Exit ==
  /\ ~exited
  /\ exited' = TRUE
  /\ UNCHANGED <<options, file, remote, pc, local, faults, overlapped, mixed, last>>

Terminated == exited /\ UNCHANGED vars

Next ==
  \/ \E u \in Upload :
       \/ Begin(u)
       \/ OpenSource(u)
       \/ CreateDest(u)
       \/ CopyChunk(u)
       \/ CopyEnds(u)
       \/ ChmodDest(u)
       \/ RenameTemp(u)
       \/ RemoveTemp(u)
       \/ Fault(u)
  \/ Truncate
  \/ Rewrite
  \/ Replace
  \/ Exit
  \/ Terminated

Spec == Init /\ [][Next]_vars

--------------------------------------------------------------------------------

AtRest == Active = {} /\ ~exited

\* With useTempFile, the remote target is at every moment one whole version of
\* the file, through edits, failed calls and an exit between any two steps, as long
\* as no two uploads of the file overlapped, unless the editor rewrote the file in
\* place while the upload that put the target there was copying it.
TargetWhole ==
  useTempFile /\ ~overlapped /\ name["target"] \notin mixed \cup {None} =>
    WholeSince(data[name["target"]], Original)

\* Once the uploads are over and the last of them succeeded, the target holds nothing
\* older than what the file held when that upload opened it, and one whole version of
\* it unless the editor rewrote the file during the copy: a success is never reported
\* for content that did not arrive, and no earlier failure or torn upload spoils it.
DeliveredAtRest ==
  AtRest /\ ~overlapped /\ last \in Upload /\ pc[last] = "done" =>
    LET i == name["target"] IN
    /\ i # None
    /\ \A k \in DOMAIN data[i] : data[i][k] \in ver[last] .. saved
    /\ i \notin mixed => WholeSince(data[i], ver[last])

\* A refused rename leaves no temporary file behind.
NoStrayTemp ==
  AtRest /\ ~overlapped /\ faults = 0 => name["temp"] = None

\* README: with useTempFile, uploads "write to *.sftptmp and rename over the
\* target instead" of truncating it: no upload has the target open for writing.
TargetNotWrittenInPlace ==
  useTempFile =>
    \A u \in Upload : pc[u] = "copy" /\ off[u] < Chunks => ino[u] # name["target"]
================================================================================

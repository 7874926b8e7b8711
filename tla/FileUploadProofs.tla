---------------------------- MODULE FileUploadProofs ----------------------------
(***************************************************************************)
(* Proofs about FileUpload, for any number of uploads, any length of the   *)
(* file, any number of edits and failed calls and an exit at any moment,   *)
(* with and without useTempFile, whatever the server's rename does and     *)
(* however the editor writes.                                              *)
(***************************************************************************)
EXTENDS FileUpload, TLAPS, FiniteSetTheorems

\* Uploads that may have created a file.
Creators == {u \in Upload : pc[u] \notin {"idle", "open", "create"}}

\* Sets of uploads can be counted.
LEMMA Counting ==
  /\ Cardinality(Upload) \in Nat
  /\ \A S \in SUBSET Upload : Cardinality(S) \in Nat /\ Cardinality(S) <= Cardinality(Upload)
  /\ \A S, T \in SUBSET Upload : S \subseteq T => Cardinality(S) <= Cardinality(T)
  /\ \A S, T \in SUBSET Upload : \A u \in T :
       u \notin S /\ S \cup {u} \subseteq T => Cardinality(S) + 1 <= Cardinality(T)
<1>1. IsFiniteSet(Upload) /\ \A S \in SUBSET Upload : IsFiniteSet(S)
  BY UploadAssumption, FS_Subset
<1>2. \A S \in SUBSET Upload : Cardinality(S) \in Nat
  BY <1>1, FS_CardinalityType
<1>3. \A S, T \in SUBSET Upload : S \subseteq T => Cardinality(S) <= Cardinality(T)
  BY <1>1, FS_Subset
<1>4. ASSUME NEW S \in SUBSET Upload, NEW T \in SUBSET Upload, NEW u \in T,
             u \notin S, S \cup {u} \subseteq T
      PROVE Cardinality(S) + 1 <= Cardinality(T)
  <2>1. Cardinality(S \cup {u}) = Cardinality(S) + 1
    BY <1>1, <1>4, FS_AddElement
  <2> QED
    BY <2>1, <1>3, <1>4
<1> QED
  BY <1>1, <1>2, <1>3, <1>4

\* Writing a chunk at the end or over an older one.
Written(s, k, c, t) ==
  /\ t \in Seq(Int)
  /\ Len(t) = IF Len(s) < k THEN k ELSE Len(s)
  /\ \A j \in 1 .. Len(t) : t[j] = IF j = k THEN c ELSE IF j <= Len(s) THEN s[j] ELSE Hole

LEMMA WriteType ==
  \A s \in Seq(Int) : \A k \in Nat \ {0} : \A c \in Int : Written(s, k, c, WriteAt(s, k, c))
<1> TAKE s \in Seq(Int), k \in Nat \ {0}, c \in Int
<1> DEFINE n == IF Len(s) < k THEN k ELSE Len(s)
<1>1. n \in Nat /\ Len(s) \in Nat
  OBVIOUS
<1>2. \A j \in 1 .. n : (IF j = k THEN c ELSE IF j <= Len(s) THEN s[j] ELSE Hole) \in Int
  BY DEF Hole
<1> QED
  BY <1>1, <1>2 DEF WriteAt, Written

--------------------------------------------------------------------------------

\* The types, with what keeps the counters in their ranges: an upload creates one inode
\* at most, and a file the editor has emptied has its next version coming.
Types ==
  /\ TypeOK
  /\ data \in [Inode -> Seq(Int)]
  /\ \A u \in Upload : pc[u] = "copy" => off[u] < Chunks
  /\ writing => inPlace /\ saved < MaxEdits
  /\ created <= Cardinality(Creators)

LEMMA TypesInit == Init => Types
<1> SUFFICES ASSUME Init PROVE Types
  OBVIOUS
<1> USE UploadAssumption, Counting
<1>1. Cardinality(Upload) \in Nat /\ 0 \in Inode
  BY DEF Inode
<1>2. data \in [Inode -> Seq(Int)]
  <2>1. Version(Original) \in Seq(Int) /\ <<>> \in Seq(Int)
    BY DEF Version, Original
  <2> QED
    BY <2>1 DEF Init
<1>3. \A i \in Inode : /\ Len(data[i]) <= Chunks
                       /\ \A k \in DOMAIN data[i] : data[i][k] \in Hole .. saved
  <2>1. Len(Version(Original)) = Chunks /\ DOMAIN Version(Original) = 1 .. Chunks
    BY DEF Version
  <2>2. \A k \in 1 .. Chunks : Version(Original)[k] = 0
    BY DEF Version, Original
  <2> QED
    BY <2>1, <2>2 DEF Init, Hole, Original
<1>4. Cardinality(Creators) \in Nat
  BY DEF Creators
<1>5. TypeOK
  <2>1. saved = 0 /\ 0 \in 0 .. MaxEdits /\ 0 \in 0 .. Chunks /\ 0 \in 0 .. MaxFaults
    BY DEF Init, Original
  <2>2. created \in Inode /\ name \in [Names -> Inode \cup {None}]
    BY <1>1 DEF Init
  <2>3. /\ pc \in [Upload -> Control] /\ ver \in [Upload -> 0 .. saved]
        /\ off \in [Upload -> 0 .. Chunks] /\ ino \in [Upload -> Inode]
    BY <1>1, <2>1 DEF Init, Control
  <2>4. /\ saved \in 0 .. MaxEdits /\ faults \in 0 .. MaxFaults /\ mixed \subseteq Inode
        /\ last \in Upload \cup {None}
    BY <2>1 DEF Init
  <2>5. /\ useTempFile \in BOOLEAN /\ renameReplaces \in BOOLEAN /\ inPlace \in BOOLEAN
        /\ writing \in BOOLEAN /\ exited \in BOOLEAN /\ overlapped \in BOOLEAN
    BY DEF Init
  <2> QED
    BY <1>3, <2>2, <2>3, <2>4, <2>5 DEF TypeOK
<1> QED
  <2>1. created = 0 /\ ~writing /\ \A u \in Upload : pc[u] = "idle"
    BY DEF Init
  <2> QED
    BY <1>2, <1>4, <1>5, <2>1 DEF Types

\* An upload that goes on leaves the inodes created within what is counted.
LEMMA CountsKept ==
  ASSUME Types, created' = created, Creators \subseteq Creators'
  PROVE  created' <= Cardinality(Creators')
<1>1. Creators \in SUBSET Upload /\ Creators' \in SUBSET Upload
  BY DEF Creators
<1>2. Cardinality(Creators) <= Cardinality(Creators')
  BY <1>1, Counting
<1>3. Cardinality(Creators) \in Nat /\ Cardinality(Creators') \in Nat
  BY <1>1, Counting
<1>4. created \in Nat
  BY DEF Types, TypeOK, Inode
<1> QED
  BY <1>2, <1>3, <1>4 DEF Types

LEMMA TypesStep == Types /\ [Next]_vars => Types'
<1> SUFFICES ASSUME Types, [Next]_vars PROVE Types'
  OBVIOUS
<1>0. TypeOK /\ data \in [Inode -> Seq(Int)] /\ Cardinality(Upload) \in Nat
  BY Counting DEF Types
<1> USE UploadAssumption
<1>1. ASSUME NEW u \in Upload, Begin(u) PROVE Types'
  <2> USE <1>1 DEF Begin
  <2>1. Creators' = Creators
    BY <1>0 DEF Creators, TypeOK, Control
  <2>2. TypeOK'
    BY <1>0 DEF TypeOK, Control, options, file, remote, local
  <2> QED
    BY <1>0, <2>1, <2>2 DEF Types, TypeOK, options, file, remote, local
<1>2. ASSUME NEW u \in Upload, OpenSource(u) PROVE Types'
  <2> USE <1>2 DEF OpenSource
  <2>1. Creators \subseteq Creators' /\ saved' = saved /\ writing' = writing /\ created' = created
    BY <1>0 DEF Creators, TypeOK, Control, remote, file
  <2>2. saved \in Nat
    BY <1>0 DEF TypeOK
  <2>3. TypeOK'
    BY <1>0, <2>2 DEF TypeOK, Control, remote, options, file
  <2> QED
    BY <1>0, <2>1, <2>3, CountsKept DEF Types, TypeOK, remote, options
<1>3. ASSUME NEW u \in Upload, CreateDest(u) PROVE Types'
  <2> USE <1>3 DEF CreateDest
  <2> DEFINE fresh == name[Dest] = None
             i == IF fresh THEN created + 1 ELSE name[Dest]
  <2>1. Dest \in Names
    BY DEF Dest, Names
  <2>2. /\ Creators \in SUBSET Upload /\ Creators' \in SUBSET Upload
        /\ u \in Creators' /\ u \notin Creators /\ Creators \cup {u} \subseteq Creators'
    BY <1>0 DEF Creators, TypeOK, Control, file
  <2>3. /\ Cardinality(Creators) + 1 <= Cardinality(Creators')
        /\ Cardinality(Creators') <= Cardinality(Upload)
        /\ Cardinality(Creators) \in Nat /\ Cardinality(Creators') \in Nat
    BY <2>2, Counting
  <2>4. created \in Nat /\ created <= Cardinality(Creators)
    BY DEF Types, TypeOK, Inode
  <2>5. created' = IF fresh THEN created + 1 ELSE created
    OBVIOUS
  <2>6. created' \in Inode /\ created' <= Cardinality(Creators')
    BY <1>0, <2>3, <2>4, <2>5 DEF Inode
  <2>7. i \in Inode
    BY <1>0, <2>1, <2>5, <2>6 DEF TypeOK
  <2>8. name' \in [Names -> Inode \cup {None}] /\ ino' \in [Upload -> Inode]
    BY <1>0, <2>7 DEF TypeOK
  <2>9. /\ data' \in [Inode -> Seq(Int)]
        /\ \A n \in Inode : /\ Len(data'[n]) <= Chunks
                            /\ \A k \in DOMAIN data'[n] : data'[n][k] \in Hole .. saved'
    <3>1. data' = [data EXCEPT ![i] = <<>>] /\ saved' = saved
      BY DEF file
    <3>2. <<>> \in Seq(Int) /\ Len(<<>>) = 0 /\ DOMAIN <<>> = 1 .. 0
      OBVIOUS
    <3>3. \A n \in Inode : data'[n] = IF n = i THEN <<>> ELSE data[n]
      BY <1>0, <3>1
    <3>4. data' \in [Inode -> Seq(Int)]
      BY <1>0, <3>1, <3>2
    <3>5. \A n \in Inode : /\ Len(data'[n]) <= Chunks
                           /\ \A k \in DOMAIN data'[n] : data'[n][k] \in Hole .. saved
      BY <1>0, <3>2, <3>3 DEF TypeOK
    <3> QED
      BY <3>1, <3>4, <3>5
  <2>10. off' \in [Upload -> 0 .. Chunks] /\ \A w \in Upload : pc'[w] = "copy" => off'[w] < Chunks
    BY <1>0 DEF TypeOK, Types
  <2>11. mixed' \subseteq Inode
    BY <1>0, <2>7 DEF TypeOK
  <2>12. TypeOK'
    BY <1>0, <2>6, <2>8, <2>9, <2>10, <2>11 DEF TypeOK, Control, options, file
  <2> QED
    BY <2>6, <2>9, <2>10, <2>12 DEF Types, file, options
<1>4. ASSUME NEW u \in Upload, CopyChunk(u) PROVE Types'
  <2> USE <1>4 DEF CopyChunk
  <2> DEFINE v == Shown(u)
  <2>1. Creators' = Creators
    BY <1>0 DEF Creators, TypeOK, Control, file
  <2>2. ino[u] \in Inode /\ data[ino[u]] \in Seq(Int) /\ off[u] \in 0 .. Chunks /\ off[u] < Chunks
    BY <1>0 DEF TypeOK, Types
  <2>3. v \in 0 .. saved /\ saved \in Nat /\ v \in Int /\ off[u] + 1 \in Nat \ {0} /\ off[u] + 1 <= Chunks
    BY <1>0, <2>2 DEF TypeOK, Shown
  <2> DEFINE s == data[ino[u]]
             t == WriteAt(s, off[u] + 1, v)
  <2>4. Written(s, off[u] + 1, v, t)
    <3>1. data[ino[u]] \in Seq(Int) /\ off[u] + 1 \in Nat \ {0} /\ v \in Int
      BY <2>2, <2>3
    <3> QED
      BY <3>1, WriteType, Zenon
  <2> USE DEF Written
  <2>5. Len(s) <= Chunks /\ \A k \in DOMAIN s : s[k] \in Hole .. saved
    BY <1>0, <2>2 DEF TypeOK
  <2>6. Len(t) <= Chunks
    BY <2>2, <2>3, <2>4, <2>5
  <2>7. \A k \in DOMAIN t : t[k] \in Hole .. saved
    <3> SUFFICES ASSUME NEW k \in DOMAIN t PROVE t[k] \in Hole .. saved
      OBVIOUS
    <3>1. /\ k \in 1 .. Len(t) /\ Len(t) \in Nat
          /\ DOMAIN s = 1 .. Len(s) /\ Len(s) \in Nat
      BY <2>2, <2>4
    <3>2. t[k] = IF k = off[u] + 1 THEN v ELSE IF k <= Len(s) THEN s[k] ELSE Hole
      BY <3>1, <2>4
    <3>3. k <= Len(s) => s[k] \in Hole .. saved
      BY <3>1, <2>5
    <3>4. v \in Hole .. saved /\ Hole \in Hole .. saved
      BY <2>3 DEF Hole
    <3> QED
      BY <3>2, <3>3, <3>4
  <2>8. data' = [data EXCEPT ![ino[u]] = t]
    OBVIOUS
  <2>9. /\ data' \in [Inode -> Seq(Int)]
        /\ \A n \in Inode : /\ Len(data'[n]) <= Chunks
                            /\ \A k \in DOMAIN data'[n] : data'[n][k] \in Hole .. saved'
    BY <1>0, <2>2, <2>4, <2>6, <2>7, <2>8 DEF TypeOK, file
  <2>10. off' = [off EXCEPT ![u] = off[u] + 1] /\ off[u] + 1 \in 0 .. Chunks
    BY <2>2
  <2>11. off' \in [Upload -> 0 .. Chunks] /\ \A w \in Upload : pc'[w] = "copy" => off'[w] < Chunks
    BY <1>0, <2>2, <2>10 DEF TypeOK, Types
  <2>12. TypeOK'
    BY <1>0, <2>9, <2>11 DEF TypeOK, Control, options, file
  <2> QED
    BY <2>1, <2>9, <2>11, <2>12 DEF Types, file
<1>5. ASSUME NEW u \in Upload, ChmodDest(u) PROVE Types'
  <2> USE <1>5 DEF ChmodDest, End
  <2>1. Creators \subseteq Creators' /\ saved' = saved /\ writing' = writing /\ created' = created
    BY <1>0 DEF Creators, TypeOK, Control, remote, file
  <2>2. /\ off' = off /\ data' = data
        /\ \A w \in Upload : pc'[w] # pc[w] => pc'[w] \in {"failed", "done", "rename"}
    <3>1. \E p \in {"failed", "done", "rename"} : pc' = [pc EXCEPT ![u] = p]
      OBVIOUS
    <3> QED
      BY <1>0, <3>1 DEF TypeOK, remote, local
  <2>4. TypeOK'
    BY <1>0, <2>2 DEF TypeOK, Control, remote, local, options, file
  <2> QED
    BY <1>0, <2>1, <2>2, <2>4, CountsKept DEF Types, options
<1>6. ASSUME NEW u \in Upload, RenameTemp(u) PROVE Types'
  <2> USE <1>6 DEF RenameTemp, End
  <2>1. Creators \subseteq Creators' /\ saved' = saved /\ writing' = writing /\ created' = created
    BY <1>0 DEF Creators, TypeOK, Control, file
  <2>2. off' = off /\ data' = data /\ \A w \in Upload : pc'[w] # pc[w] => pc'[w] \in {"cleanup", "done"}
    BY <1>0 DEF TypeOK, local
  <2>3. name' \in [Names -> Inode \cup {None}]
    BY <1>0 DEF TypeOK, Names
  <2>4. TypeOK'
    BY <1>0, <2>2, <2>3 DEF TypeOK, Control, local, options, file
  <2> QED
    BY <1>0, <2>1, <2>2, <2>4, CountsKept DEF Types, options
<1>7. ASSUME NEW u \in Upload, RemoveTemp(u) PROVE Types'
  <2> USE <1>7 DEF RemoveTemp, End
  <2>1. Creators \subseteq Creators' /\ saved' = saved /\ writing' = writing /\ created' = created
    BY <1>0 DEF Creators, TypeOK, Control, file
  <2>2. off' = off /\ data' = data /\ \A w \in Upload : pc'[w] # pc[w] => pc'[w] = "failed"
    BY <1>0 DEF TypeOK, local
  <2>3. name' \in [Names -> Inode \cup {None}]
    BY <1>0 DEF TypeOK, Names
  <2>4. TypeOK'
    BY <1>0, <2>2, <2>3 DEF TypeOK, Control, local, options, file
  <2> QED
    BY <1>0, <2>1, <2>2, <2>4, CountsKept DEF Types, options
<1>8. ASSUME NEW u \in Upload, Fault(u) PROVE Types'
  <2> USE <1>8 DEF Fault, End
  <2>1. Creators \subseteq Creators' /\ saved' = saved /\ writing' = writing /\ created' = created
    BY <1>0 DEF Creators, TypeOK, Control, remote, file
  <2>2. off' = off /\ data' = data /\ \A w \in Upload : pc'[w] # pc[w] => pc'[w] \in {"cleanup", "failed"}
    BY <1>0 DEF TypeOK, local, remote
  <2>3. faults' \in 0 .. MaxFaults
    BY <1>0 DEF TypeOK
  <2>4. TypeOK'
    BY <1>0, <2>2, <2>3 DEF TypeOK, Control, local, remote, options, file
  <2> QED
    BY <1>0, <2>1, <2>2, <2>4, CountsKept DEF Types, options
<1>9. ASSUME NEW u \in Upload, CopyEnds(u) PROVE Types'
  <2> USE <1>9 DEF CopyEnds
  <2>1. Creators' = Creators
    BY <1>0 DEF Creators, TypeOK, Control
  <2>2. TypeOK'
    BY <1>0 DEF TypeOK, Control, options, file, remote, local
  <2> QED
    BY <1>0, <2>1, <2>2 DEF Types, TypeOK, options, file, remote, local
<1>10. CASE Truncate \/ Rewrite \/ Replace
  <2>0. /\ saved \in 0 .. MaxEdits /\ writing \in BOOLEAN /\ (writing => saved < MaxEdits)
        /\ MaxEdits \in Nat
    BY <1>0 DEF Types, TypeOK
  <2>1. /\ UNCHANGED <<options, remote, pc, local, exited, faults, overlapped, last>>
        /\ saved' \in {saved, saved + 1} /\ saved' \in 0 .. MaxEdits
        /\ writing' \in BOOLEAN /\ (writing' => saved' < MaxEdits)
    <3>1. CASE Truncate
      BY <2>0, <3>1 DEF Truncate
    <3>2. CASE Rewrite
      <4>1. saved < MaxEdits
        BY <2>0, <3>2 DEF Rewrite
      <4>2. saved' = saved + 1 /\ writing' = FALSE
        BY <3>2 DEF Rewrite
      <4>3. UNCHANGED <<options, remote, pc, local, exited, faults, overlapped, last>>
        BY <3>2 DEF Rewrite
      <4>4. saved + 1 \in 0 .. MaxEdits
        BY <2>0, <4>1
      <4> QED
        BY <4>2, <4>3, <4>4
    <3>3. CASE Replace
      <4>1. ~writing
        BY <3>3 DEF Types, Replace
      <4> QED
        BY <2>0, <3>3, <4>1 DEF Replace
    <3> QED
      BY <1>10, <3>1, <3>2, <3>3
  <2>2. mixed' \subseteq Inode
    BY <1>0, <1>10 DEF Truncate, Rewrite, Replace, TypeOK
  <2>3. saved \in Nat
    BY <1>0 DEF TypeOK
  <2>4. \A i \in Inode : \A k \in DOMAIN data'[i] : data'[i][k] \in Hole .. saved'
    BY <1>0, <2>1, <2>3 DEF TypeOK, Hole, remote
  <2>5. ver' \in [Upload -> 0 .. saved']
    BY <1>0, <2>1, <2>3 DEF TypeOK, local
  <2>6. TypeOK'
    BY <1>0, <2>1, <2>2, <2>4, <2>5 DEF TypeOK, options, remote, local
  <2>7. writing' => inPlace'
    BY <1>10, <2>1 DEF Truncate, Rewrite, Replace, Types, options
  <2> QED
    BY <2>1, <2>6, <2>7 DEF Types, Creators, remote, local
<1>11. CASE Exit
  <2> USE <1>11 DEF Exit
  <2>1. TypeOK'
    BY <1>0 DEF TypeOK, remote, local, options, file
  <2> QED
    BY <2>1 DEF Types, Creators, remote, local, file, options
<1>12. CASE UNCHANGED vars
  BY <1>12 DEF vars, options, file, remote, local, Types, TypeOK, Creators
<1> QED
  BY <1>1, <1>2, <1>3, <1>4, <1>5, <1>6, <1>7, <1>8, <1>9, <1>10, <1>11, <1>12 DEF Next, Terminated

\* Every step keeps each variable in its range; no file is ever longer than the source.
THEOREM TypeCorrect == Spec => []TypeOK
<1>1. Types => TypeOK
  BY DEF Types
<1> QED
  BY <1>1, TypesInit, TypesStep, PTL DEF Spec

--------------------------------------------------------------------------------

\* Uploads that write, or have written, a file of their own.
Writing == {"copy", "chmod", "rename"}

\* Both names stand for created inodes, and for different ones; without
\* useTempFile there is no temporary file.
Named ==
  /\ \A n \in Names : name[n] # None => name[n] <= created
  /\ name["temp"] # None => name["temp"] # name["target"]
  /\ ~useTempFile => name["temp"] = None

\* While no two uploads have overlapped, one is active at most and what it writes is
\* under the name it writes to.  It copies nothing older than what it opened, and as
\* long as the editor keeps away, one version only.
Alone ==
  \A u, v \in Active : u = v

Recent(s, v) == \A k \in DOMAIN s : s[k] \in v .. saved

OwnFile ==
  \A u \in Upload :
    /\ pc[u] \in Writing =>
         /\ name[Dest] # None /\ ino[u] = name[Dest]
         /\ Recent(data[ino[u]], ver[u])
    /\ pc[u] = "copy" => Len(data[ino[u]]) = off[u]
    /\ pc[u] = "copy" /\ ino[u] \notin mixed =>
         ~writing /\ data[ino[u]] = [k \in 1 .. off[u] |-> Shown(u)]
    /\ pc[u] \in {"chmod", "rename"} /\ ino[u] \notin mixed => WholeSince(data[ino[u]], ver[u])
    /\ pc[u] \in {"rename", "cleanup"} => useTempFile

\* A success reported last is about what the target holds.
Arrived(u) ==
  /\ name["target"] # None
  /\ Recent(data[name["target"]], ver[u])
  /\ name["target"] \notin mixed => WholeSince(data[name["target"]], ver[u])

Delivered == Active = {} /\ last \in Upload /\ pc[last] = "done" => Arrived(last)

\* A temporary file belongs to an upload under way, unless a call failed.
TempOwned ==
  faults = 0 /\ name["temp"] # None => \E u \in Upload : pc[u] \in Writing \cup {"cleanup"}

Inv == /\ Named
       /\ ~overlapped => Alone /\ OwnFile /\ TargetWhole /\ Delivered /\ TempOwned

LEMMA InvInit == Init => Inv
<1> SUFFICES ASSUME Init PROVE Inv
  OBVIOUS
<1>1. Named
  BY DEF Init, Named, Names, None
<1>2. Active = {} /\ Alone
  BY DEF Init, Active, Ended, Alone
<1>3. OwnFile
  BY DEF Init, OwnFile, Writing
<1>4. TargetWhole
  <2>1. name["target"] # None => name["target"] = 0
    BY DEF Init, Names
  <2>2. data[0] = Version(Original) /\ Original \in Original .. saved
    BY Counting DEF Init, Inode, Original
  <2> QED
    BY <2>1, <2>2 DEF TargetWhole, WholeSince
<1>5. Delivered /\ TempOwned
  BY DEF Init, Delivered, TempOwned
<1> QED
  BY <1>1, <1>2, <1>3, <1>4, <1>5 DEF Inv

\* What the proofs of the steps need of the types.
Shapes ==
  /\ pc \in [Upload -> Control] /\ off \in [Upload -> 0 .. Chunks]
  /\ ver \in [Upload -> 0 .. saved] /\ ino \in [Upload -> Inode]
  /\ name \in [Names -> Inode \cup {None}] /\ data \in [Inode -> Seq(Int)]
  /\ created \in Inode /\ saved \in Nat
  /\ \A u \in Upload : pc[u] = "copy" => off[u] < Chunks
  /\ \A i \in Inode : i \in Int /\ i >= 0

LEMMA ShapesHold == Types => Shapes
<1> SUFFICES ASSUME Types PROVE Shapes
  OBVIOUS
<1>1. saved \in Nat
  BY DEF Types, TypeOK
<1>2. \A i \in Inode : i \in Int /\ i >= 0
  BY Counting DEF Inode
<1> QED
  BY <1>1, <1>2 DEF Types, TypeOK, Shapes

\* The only active upload stays the only one, whatever it does next.
LEMMA StaysAlone ==
  ASSUME Shapes, Alone, NEW u \in Active, NEW p \in Control, pc' = [pc EXCEPT ![u] = p]
  PROVE  /\ \A w \in Upload : w # u => pc'[w] = pc[w] /\ pc[w] \in Ended
         /\ pc'[u] = p
         /\ Alone'
BY DEF Shapes, Alone, Active, Ended

LEMMA BeginStep ==
  ASSUME Types, Inv, NEW u \in Upload, Begin(u)
  PROVE  Inv'
<1> USE DEF Begin
<1>1. Shapes
  BY ShapesHold
<1>2. /\ UNCHANGED <<useTempFile, inPlace, saved, writing, name, data, created, ver, off, ino, faults,
                     mixed, last>>
      /\ pc' = [pc EXCEPT ![u] = "open"]
  BY DEF options, file, remote, local
<1>3. Named'
  BY <1>2 DEF Inv, Named
<1>4. ASSUME ~overlapped' PROVE Alone' /\ OwnFile' /\ TargetWhole' /\ Delivered' /\ TempOwned'
  <2>1. Active = {} /\ ~overlapped
    BY <1>4
  <2>2. \A w \in Upload : pc[w] \in Ended
    BY <2>1 DEF Active
  <2>3. \A w \in Upload : pc'[w] = IF w = u THEN "open" ELSE pc[w]
    BY <1>1, <1>2 DEF Shapes
  <2>4. Alone' /\ u \in Active'
    BY <2>2, <2>3 DEF Alone, Active, Ended
  <2>5. OwnFile'
    BY <2>2, <2>3 DEF OwnFile, Writing, Ended
  <2>6. TargetWhole'
    BY <1>2, <2>1 DEF Inv, TargetWhole, WholeSince
  <2>7. Delivered'
    BY <2>4 DEF Delivered
  <2>8. TempOwned'
    <3>1. TempOwned
      BY <2>1 DEF Inv
    <3> QED
      BY <1>2, <2>2, <3>1 DEF TempOwned, Ended, Writing
  <2> QED
    BY <2>4, <2>5, <2>6, <2>7, <2>8
<1> QED
  BY <1>3, <1>4 DEF Inv

LEMMA OpenStep ==
  ASSUME Types, Inv, NEW u \in Upload, OpenSource(u)
  PROVE  Inv'
<1> USE DEF OpenSource
<1>1. Shapes
  BY ShapesHold
<1>2. /\ UNCHANGED <<useTempFile, inPlace, saved, writing, name, data, created, off, ino, faults,
                     mixed, last, overlapped>>
      /\ pc' = [pc EXCEPT ![u] = "create"] /\ ver' = [ver EXCEPT ![u] = saved]
  BY DEF options, file, remote
<1>3. Named'
  BY <1>2 DEF Inv, Named
<1>4. ASSUME ~overlapped PROVE Alone' /\ OwnFile' /\ TargetWhole' /\ Delivered' /\ TempOwned'
  <2>1. Alone /\ OwnFile /\ TargetWhole /\ Delivered /\ TempOwned
    BY <1>4 DEF Inv
  <2>2. u \in Active /\ "create" \in Control
    BY DEF Active, Ended, Control
  <2>3. /\ \A w \in Upload : w # u => pc'[w] = pc[w] /\ pc[w] \in Ended
        /\ pc'[u] = "create" /\ Alone'
    BY <1>1, <1>2, <2>1, <2>2, StaysAlone
  <2>4. OwnFile'
    BY <2>3 DEF OwnFile, Writing, Ended
  <2>5. TempOwned'
    BY <1>2, <2>1, <2>3 DEF TempOwned, Writing, Ended
  <2>6. TargetWhole'
    BY <1>2, <2>1 DEF TargetWhole, WholeSince
  <2>7. Delivered'
    BY <2>3 DEF Delivered, Active, Ended
  <2> QED
    BY <2>3, <2>4, <2>5, <2>6, <2>7
<1> QED
  BY <1>2, <1>3, <1>4 DEF Inv

LEMMA CreateStep ==
  ASSUME Types, Inv, NEW u \in Upload, CreateDest(u)
  PROVE  Inv'
<1> USE DEF CreateDest
<1> DEFINE i == IF name[Dest] = None THEN created + 1 ELSE name[Dest]
<1>1. Shapes
  BY ShapesHold
<1>2. /\ UNCHANGED <<useTempFile, inPlace, saved, writing, ver, faults, last, overlapped>>
      /\ pc' = [pc EXCEPT ![u] = "copy"] /\ off' = [off EXCEPT ![u] = 0]
      /\ name' = [name EXCEPT ![Dest] = i] /\ data' = [data EXCEPT ![i] = <<>>]
      /\ ino' = [ino EXCEPT ![u] = i]
      /\ created' = IF name[Dest] = None THEN created + 1 ELSE created
      /\ mixed' = IF writing THEN mixed \cup {i} ELSE mixed \ {i}
  BY DEF options, file
<1>3. Dest \in Names /\ (useTempFile => Dest = "temp") /\ (~useTempFile => Dest = "target")
  BY DEF Dest, Names
<1>4. Dest' = Dest
  BY <1>2 DEF Dest
<1>5. Types' /\ Shapes'
  <2>1. Types'
    BY TypesStep DEF Next
  <2>2. Types' => Shapes'
    BY ShapesHold, PTL
  <2> QED
    BY <2>1, <2>2
<1>6. i \in Inode /\ i # None /\ name'[Dest] = i /\ \A n \in Names : n # Dest => name'[n] = name[n]
  <2>1. name'[Dest] = i
    BY <1>1, <1>2, <1>3 DEF Shapes
  <2>2. i # None
    BY <1>1 DEF Shapes, None
  <2> QED
    BY <2>1, <2>2, <1>1, <1>2, <1>3, <1>5 DEF Shapes
<1>7. \A n \in Names : n # Dest => name[n] # i
  BY <1>1, <1>3 DEF Inv, Named, Shapes, Names, None
<1>8. Named'
  BY <1>1, <1>2, <1>3, <1>4, <1>6, <1>7 DEF Inv, Named, Shapes, Names, None
<1>9. ASSUME ~overlapped PROVE Alone' /\ OwnFile' /\ TargetWhole' /\ Delivered' /\ TempOwned'
  <2>1. Alone /\ OwnFile /\ TargetWhole /\ Delivered /\ TempOwned
    BY <1>9 DEF Inv
  <2>2. u \in Active /\ "copy" \in Control
    BY DEF Active, Ended, Control
  <2>3. /\ \A w \in Upload : w # u => pc'[w] = pc[w] /\ pc[w] \in Ended
        /\ pc'[u] = "copy" /\ Alone'
    BY <1>1, <1>2, <2>1, <2>2, StaysAlone
  <2>4. data'[i] = <<>> /\ off'[u] = 0 /\ ino'[u] = i /\ (i \notin mixed' => ~writing')
    BY <1>1, <1>2, <1>6 DEF Shapes
  <2>5. /\ data'[i] = [k \in 1 .. off'[u] |-> Shown(u)'] /\ Len(data'[i]) = off'[u]
        /\ \A k \in DOMAIN data'[i] : data'[i][k] \in ver'[u] .. saved'
    BY <2>4
  <2>6. OwnFile'
    BY <1>4, <1>6, <2>3, <2>4, <2>5 DEF OwnFile, Recent, Writing, Ended
  <2>7. TempOwned'
    BY <2>3 DEF TempOwned, Writing
  <2>8. TargetWhole'
    <3>1. useTempFile => name'["target"] = name["target"] /\ name["target"] # i
      BY <1>3, <1>6, <1>7 DEF Names
    <3>2. useTempFile /\ name["target"] # None =>
            /\ data'[name["target"]] = data[name["target"]]
            /\ name["target"] \in mixed' <=> name["target"] \in mixed
      BY <1>1, <1>2, <3>1 DEF Shapes, Names
    <3> QED
      BY <1>2, <2>1, <3>1, <3>2 DEF TargetWhole, WholeSince
  <2>9. Delivered'
    BY <2>3 DEF Delivered, Active, Ended
  <2> QED
    BY <2>3, <2>6, <2>7, <2>8, <2>9
<1> QED
  BY <1>2, <1>8, <1>9 DEF Inv

LEMMA CopyStep ==
  ASSUME Types, Inv, NEW u \in Upload, CopyChunk(u)
  PROVE  Inv'
<1> USE DEF CopyChunk
<1> DEFINE v == Shown(u)
           s == data[ino[u]]
           t == WriteAt(s, off[u] + 1, v)
<1>1. Shapes
  BY ShapesHold
<1>2. PICK p \in {"copy", "chmod"} :
        /\ UNCHANGED <<useTempFile, inPlace, saved, writing, name, created, ver, ino, faults, mixed,
                       last, overlapped>>
        /\ pc' = [pc EXCEPT ![u] = p] /\ off' = [off EXCEPT ![u] = off[u] + 1]
        /\ data' = [data EXCEPT ![ino[u]] = t]
        /\ p = "chmod" <=> off[u] + 1 = Chunks
        /\ ~writing /\ pc[u] = "copy"
  BY DEF options, file
<1> HIDE DEF v, s, t, CopyChunk
<1>3. Named'
  BY <1>2 DEF Inv, Named
<1>4. ASSUME ~overlapped PROVE Alone' /\ OwnFile' /\ TargetWhole' /\ Delivered' /\ TempOwned'
  <2>1. Alone /\ OwnFile /\ TargetWhole /\ Delivered /\ TempOwned
    BY <1>4 DEF Inv
  <2>2. u \in Active /\ p \in Control
    BY <1>2 DEF Active, Ended, Control
  <2>3. /\ \A w \in Upload : w # u => pc'[w] = pc[w] /\ pc[w] \in Ended
        /\ pc'[u] = p /\ Alone'
    BY <1>1, <1>2, <2>1, <2>2, StaysAlone
  <2>4. /\ name[Dest] # None /\ ino[u] = name[Dest] /\ Recent(s, ver[u]) /\ Len(s) = off[u]
        /\ ino[u] \notin mixed => s = [k \in 1 .. off[u] |-> v]
    BY <1>2, <2>1 DEF OwnFile, Writing, s, v
  <2>5. /\ off'[u] = off[u] + 1 /\ off[u] \in Nat /\ ino[u] \in Inode /\ saved \in Nat
        /\ ver[u] \in 0 .. saved /\ v \in ver[u] .. saved /\ s \in Seq(Int)
    BY <1>1, <1>2, UploadAssumption DEF Shapes, Shown, s, v
  <2>6. /\ Len(t) = off[u] + 1 /\ t \in Seq(Int)
        /\ \A k \in 1 .. off[u] + 1 : t[k] = IF k = off[u] + 1 THEN v ELSE s[k]
    <3>1. off[u] + 1 \in Nat \ {0} /\ v \in Int
      BY <2>5
    <3>2. Written(s, off[u] + 1, v, t)
      BY <2>5, <3>1, WriteType, Zenon DEF t
    <3> QED
      BY <2>4, <2>5, <3>2 DEF Written
  <2>7. Recent(t, ver[u])
    <3>1. DOMAIN t = 1 .. off[u] + 1 /\ DOMAIN s = 1 .. off[u]
      BY <2>4, <2>5, <2>6
    <3> QED
      BY <2>4, <2>5, <2>6, <3>1 DEF Recent
  <2>8. ino[u] \notin mixed => t = [k \in 1 .. off[u] + 1 |-> v]
    <3>1. ino[u] \notin mixed => \A k \in 1 .. off[u] : s[k] = v
      BY <2>4
    <3>2. t = [k \in 1 .. off[u] + 1 |-> t[k]]
      BY <2>6
    <3>3. ino[u] \notin mixed => \A k \in 1 .. off[u] + 1 : t[k] = v
      <4> SUFFICES ASSUME ino[u] \notin mixed, NEW k \in 1 .. off[u] + 1 PROVE t[k] = v
        OBVIOUS
      <4>1. k # off[u] + 1 => k \in 1 .. off[u]
        BY <2>5
      <4> QED
        BY <2>6, <3>1, <4>1
    <3> QED
      BY <3>2, <3>3
  <2>9. Dest' = Dest /\ Shown(u)' = v /\ data'[ino[u]] = t
    BY <1>1, <1>2 DEF Dest, Shown, Shapes, v
  <2>10. p = "chmod" /\ ino[u] \notin mixed => WholeSince(t, ver[u])
    BY <1>2, <2>5, <2>8 DEF WholeSince, Version
  <2>11. /\ Recent(data[ino[u]], ver[u])'
         /\ p = "chmod" /\ ino[u] \notin mixed => WholeSince(data[ino[u]], ver[u])'
    BY <1>2, <2>7, <2>9, <2>10 DEF Recent, WholeSince
  <2>12. OwnFile'
    <3>1. \A w \in Upload : w # u => pc'[w] \notin Writing \cup {"rename", "cleanup"}
      BY <2>3 DEF Ended, Writing
    <3>2. /\ name'[Dest'] # None /\ ino'[u] = name'[Dest'] /\ ino'[u] = ino[u]
          /\ mixed' = mixed /\ ~writing' /\ Len(data'[ino[u]]) = off'[u]
      BY <1>2, <2>4, <2>5, <2>6, <2>9
    <3>3. ino[u] \notin mixed => data'[ino[u]] = [k \in 1 .. off'[u] |-> Shown(u)']
      BY <2>5, <2>8, <2>9
    <3>4. pc'[u] = p /\ p \notin {"rename", "cleanup"}
      BY <2>3
    <3> QED
      BY <2>11, <3>1, <3>2, <3>3, <3>4 DEF OwnFile, Writing
  <2>13. TempOwned'
    BY <1>2, <2>3 DEF TempOwned, Writing
  <2>14. TargetWhole'
    <3>1. useTempFile => Dest = "temp" /\ ino[u] # name["target"]
      BY <2>4 DEF Dest, Inv, Named
    <3>2. useTempFile /\ name["target"] # None => data'[name["target"]] = data[name["target"]]
      BY <1>1, <1>2, <3>1 DEF Shapes, Names
    <3> QED
      BY <1>2, <2>1, <3>2 DEF TargetWhole, WholeSince
  <2>15. Delivered'
    BY <1>2, <2>3 DEF Delivered, Active, Ended
  <2> QED
    BY <2>3, <2>12, <2>13, <2>14, <2>15
<1> QED
  BY <1>2, <1>3, <1>4 DEF Inv

LEMMA EndsStep ==
  ASSUME Types, Inv, NEW u \in Upload, CopyEnds(u)
  PROVE  Inv'
<1> USE DEF CopyEnds
<1>1. Shapes
  BY ShapesHold
<1>2. /\ UNCHANGED <<useTempFile, inPlace, saved, writing, name, data, created, off, ver, ino, faults,
                     mixed, last, overlapped>>
      /\ pc' = [pc EXCEPT ![u] = "chmod"] /\ pc[u] = "copy" /\ writing
  BY DEF options, file, remote, local
<1>3. Named'
  BY <1>2 DEF Inv, Named
<1>4. ASSUME ~overlapped PROVE Alone' /\ OwnFile' /\ TargetWhole' /\ Delivered' /\ TempOwned'
  <2>1. Alone /\ OwnFile /\ TargetWhole
    BY <1>4 DEF Inv
  <2>2. u \in Active /\ "chmod" \in Control
    BY <1>2 DEF Active, Ended, Control
  <2>3. /\ \A w \in Upload : w # u => pc'[w] = pc[w] /\ pc[w] \in Ended
        /\ pc'[u] = "chmod" /\ Alone'
    BY <1>1, <1>2, <2>1, <2>2, StaysAlone
  <2>4. /\ name[Dest] # None /\ ino[u] = name[Dest] /\ Recent(data[ino[u]], ver[u])
        /\ ino[u] \in mixed
    BY <1>2, <2>1 DEF OwnFile, Writing
  <2>5. Dest' = Dest /\ Recent(data[ino[u]], ver[u])'
    BY <1>2, <2>4 DEF Dest, Recent
  <2>6. OwnFile'
    BY <1>2, <2>3, <2>4, <2>5 DEF OwnFile, Writing, Ended
  <2>7. TempOwned' /\ Delivered'
    BY <2>3 DEF TempOwned, Writing, Delivered, Active, Ended
  <2>8. TargetWhole'
    BY <1>2, <2>1 DEF TargetWhole, WholeSince
  <2> QED
    BY <2>3, <2>6, <2>7, <2>8
<1> QED
  BY <1>2, <1>3, <1>4 DEF Inv

LEMMA ChmodStep ==
  ASSUME Types, Inv, NEW u \in Upload, ChmodDest(u)
  PROVE  Inv'
<1> USE DEF ChmodDest, End
<1>1. Shapes
  BY ShapesHold
<1>2. PICK p \in {"done", "failed", "rename"} :
        /\ UNCHANGED <<useTempFile, inPlace, saved, writing, name, data, created, off, ver, ino, faults,
                       mixed, overlapped>>
        /\ pc' = [pc EXCEPT ![u] = p] /\ pc[u] = "chmod"
        /\ p # "rename" => last' = u
        /\ p = "failed" <=> name[Dest] = None
        /\ p = "rename" => useTempFile
        /\ p = "done" => ~useTempFile
  BY DEF options, file, remote, local
<1>3. Named'
  BY <1>2 DEF Inv, Named
<1>4. ASSUME ~overlapped PROVE Alone' /\ OwnFile' /\ TargetWhole' /\ Delivered' /\ TempOwned'
  <2>1. Alone /\ OwnFile /\ TargetWhole /\ Delivered /\ TempOwned
    BY <1>4 DEF Inv
  <2>2. u \in Active /\ p \in Control
    BY <1>2 DEF Active, Ended, Control
  <2>3. /\ \A w \in Upload : w # u => pc'[w] = pc[w] /\ pc[w] \in Ended
        /\ pc'[u] = p /\ Alone'
    BY <1>1, <1>2, <2>1, <2>2, StaysAlone
  <2>4. /\ name[Dest] # None /\ ino[u] = name[Dest] /\ Recent(data[ino[u]], ver[u])
        /\ ino[u] \notin mixed => WholeSince(data[ino[u]], ver[u])
    BY <1>2, <2>1 DEF OwnFile, Writing
  <2>5. /\ Dest' = Dest /\ Recent(data[ino[u]], ver[u])'
        /\ ino[u] \notin mixed => WholeSince(data[ino[u]], ver[u])'
    BY <1>2, <2>4 DEF Dest, Recent, WholeSince
  <2>6. OwnFile'
    BY <1>2, <2>3, <2>4, <2>5 DEF OwnFile, Writing, Ended
  <2>7. TempOwned'
    BY <1>2, <2>3, <2>4 DEF TempOwned, Writing, Inv, Named
  <2>8. TargetWhole'
    BY <1>2, <2>1 DEF TargetWhole, WholeSince
  <2>9. Delivered'
    <3>1. CASE p = "rename"
      BY <2>3, <3>1 DEF Delivered, Active, Ended
    <3>2. CASE p = "done"
      <4>1. name'["target"] = ino[u] /\ last' = u
        BY <1>2, <2>4, <3>2 DEF Dest
      <4>2. Arrived(u)'
        BY <1>2, <2>4, <2>5, <4>1 DEF Arrived, Dest
      <4> QED
        BY <4>1, <4>2 DEF Delivered
    <3> QED
      BY <1>2, <2>4, <3>1, <3>2
  <2> QED
    BY <2>3, <2>6, <2>7, <2>8, <2>9
<1> QED
  BY <1>2, <1>3, <1>4 DEF Inv

LEMMA RenameStep ==
  ASSUME Types, Inv, NEW u \in Upload, RenameTemp(u)
  PROVE  Inv'
<1> USE DEF RenameTemp, End
<1>1. Shapes
  BY ShapesHold
<1>2. /\ UNCHANGED <<useTempFile, inPlace, saved, writing, data, created, off, ver, ino, faults, mixed,
                     overlapped>>
      /\ pc[u] = "rename"
  BY DEF options, file, local
<1>3. \/ pc' = [pc EXCEPT ![u] = "cleanup"] /\ UNCHANGED <<name, last>>
      \/ /\ name' = [name EXCEPT !["target"] = name["temp"], !["temp"] = None]
         /\ name["temp"] # None
         /\ pc' = [pc EXCEPT ![u] = "done"] /\ last' = u
  OBVIOUS
<1>4. CASE pc' = [pc EXCEPT ![u] = "cleanup"] /\ UNCHANGED <<name, last>>
  <2>1. Named'
    BY <1>2, <1>4 DEF Inv, Named
  <2>2. ASSUME ~overlapped PROVE Alone' /\ OwnFile' /\ TargetWhole' /\ Delivered' /\ TempOwned'
    <3>1. Alone /\ OwnFile /\ TargetWhole /\ Delivered /\ TempOwned
      BY <2>2 DEF Inv
    <3>2. u \in Active /\ "cleanup" \in Control
      BY <1>2 DEF Active, Ended, Control
    <3>3. /\ \A w \in Upload : w # u => pc'[w] = pc[w] /\ pc[w] \in Ended
          /\ pc'[u] = "cleanup" /\ Alone'
      BY <1>1, <1>4, <3>1, <3>2, StaysAlone
    <3>4. OwnFile'
      BY <1>2, <1>4, <3>1, <3>3 DEF OwnFile, Writing, Ended
    <3>5. TempOwned' /\ Delivered'
      BY <3>3 DEF TempOwned, Delivered, Active, Ended
    <3>6. TargetWhole'
      BY <1>2, <1>4, <3>1 DEF TargetWhole, WholeSince
    <3> QED
      BY <3>3, <3>4, <3>5, <3>6
  <2> QED
    BY <1>2, <2>1, <2>2 DEF Inv
<1>5. CASE /\ name' = [name EXCEPT !["target"] = name["temp"], !["temp"] = None]
           /\ name["temp"] # None
           /\ pc' = [pc EXCEPT ![u] = "done"] /\ last' = u
  <2>1. name'["target"] = name["temp"] /\ name'["temp"] = None
    BY <1>1, <1>5 DEF Shapes, Names
  <2>2. Named'
    BY <1>2, <2>1 DEF Inv, Named, Names
  <2>3. ASSUME ~overlapped PROVE Alone' /\ OwnFile' /\ TargetWhole' /\ Delivered' /\ TempOwned'
    <3>1. Alone /\ OwnFile
      BY <2>3 DEF Inv
    <3>2. u \in Active /\ "done" \in Control
      BY <1>2 DEF Active, Ended, Control
    <3>3. /\ \A w \in Upload : w # u => pc'[w] = pc[w] /\ pc[w] \in Ended
          /\ pc'[u] = "done" /\ Alone'
      BY <1>1, <1>5, <3>1, <3>2, StaysAlone
    <3>4. OwnFile'
      BY <3>3 DEF OwnFile, Writing, Ended
    <3>5. /\ ino[u] = name["temp"] /\ Recent(data[ino[u]], ver[u])
          /\ ino[u] \notin mixed => WholeSince(data[ino[u]], ver[u])
      BY <1>2, <3>1 DEF OwnFile, Writing, Dest
    <3>6. Arrived(u)'
      BY <1>2, <1>5, <2>1, <3>5 DEF Arrived, Recent, WholeSince
    <3>7. ver[u] >= Original /\ saved \in Nat
      BY <1>1 DEF Shapes, Original
    <3>8. TargetWhole'
      BY <1>1, <1>2, <2>1, <3>5, <3>7 DEF TargetWhole, WholeSince, Shapes, Original
    <3>9. Delivered' /\ TempOwned'
      BY <1>5, <2>1, <3>6 DEF Delivered, TempOwned
    <3> QED
      BY <3>3, <3>4, <3>8, <3>9
  <2> QED
    BY <1>2, <2>2, <2>3 DEF Inv
<1> QED
  BY <1>3, <1>4, <1>5

LEMMA RemoveStep ==
  ASSUME Types, Inv, NEW u \in Upload, RemoveTemp(u)
  PROVE  Inv'
<1> USE DEF RemoveTemp, End
<1>1. Shapes
  BY ShapesHold
<1>2. /\ UNCHANGED <<useTempFile, inPlace, saved, writing, data, created, off, ver, ino, faults, mixed,
                     overlapped>>
      /\ pc' = [pc EXCEPT ![u] = "failed"] /\ last' = u
      /\ name' = [name EXCEPT !["temp"] = None]
  BY DEF options, file, local
<1>3. name'["target"] = name["target"] /\ name'["temp"] = None
  BY <1>1, <1>2 DEF Shapes, Names
<1>4. Named'
  BY <1>2, <1>3 DEF Inv, Named, Names
<1>5. ASSUME ~overlapped PROVE Alone' /\ OwnFile' /\ TargetWhole' /\ Delivered' /\ TempOwned'
  <2>1. Alone /\ OwnFile /\ TargetWhole
    BY <1>5 DEF Inv
  <2>2. u \in Active /\ "failed" \in Control
    BY DEF Active, Ended, Control
  <2>3. /\ \A w \in Upload : w # u => pc'[w] = pc[w] /\ pc[w] \in Ended
        /\ pc'[u] = "failed" /\ Alone'
    BY <1>1, <1>2, <2>1, <2>2, StaysAlone
  <2>4. OwnFile'
    BY <2>3 DEF OwnFile, Writing, Ended
  <2>5. TargetWhole'
    BY <1>2, <1>3, <2>1 DEF TargetWhole, WholeSince
  <2>6. Delivered' /\ TempOwned'
    BY <1>2, <1>3, <2>3 DEF Delivered, TempOwned
  <2> QED
    BY <2>3, <2>4, <2>5, <2>6
<1> QED
  BY <1>2, <1>4, <1>5 DEF Inv

LEMMA FaultStep ==
  ASSUME Types, Inv, NEW u \in Upload, Fault(u)
  PROVE  Inv'
<1> USE DEF Fault, End
<1>1. Shapes
  BY ShapesHold
<1>2. PICK p \in {"cleanup", "failed"} :
        /\ UNCHANGED <<useTempFile, inPlace, saved, writing, name, data, created, off, ver, ino, mixed,
                       overlapped>>
        /\ pc' = [pc EXCEPT ![u] = p] /\ (p = "failed" => last' = u)
        /\ p = "cleanup" => pc[u] = "rename"
        /\ faults' = faults + 1
  BY DEF options, file, remote, local
<1>3. faults \in Nat /\ faults' # 0
  BY <1>2 DEF Types, TypeOK
<1>4. Named'
  BY <1>2 DEF Inv, Named
<1>5. ASSUME ~overlapped PROVE Alone' /\ OwnFile' /\ TargetWhole' /\ Delivered' /\ TempOwned'
  <2>1. Alone /\ OwnFile /\ TargetWhole
    BY <1>5 DEF Inv
  <2>2. u \in Active /\ p \in Control
    BY DEF Control
  <2>3. /\ \A w \in Upload : w # u => pc'[w] = pc[w] /\ pc[w] \in Ended
        /\ pc'[u] = p /\ Alone'
    BY <1>1, <1>2, <2>1, <2>2, StaysAlone
  <2>4. OwnFile'
    BY <1>2, <2>1, <2>3 DEF OwnFile, Writing, Ended
  <2>5. TargetWhole' /\ TempOwned'
    BY <1>2, <1>3, <2>1 DEF TargetWhole, WholeSince, TempOwned
  <2>6. Delivered'
    BY <1>2, <2>3 DEF Delivered, Active, Ended
  <2> QED
    BY <2>3, <2>4, <2>5, <2>6
<1> QED
  BY <1>2, <1>4, <1>5 DEF Inv

\* The editor touches nothing an upload that has finished its copy depends on, and what
\* it spoils of one that has not is marked.
LEMMA EditStep ==
  ASSUME Types, Inv, Truncate \/ Rewrite \/ Replace
  PROVE  Inv'
<1>1. Shapes
  BY ShapesHold
<1>2. /\ UNCHANGED <<useTempFile, inPlace, name, data, created, pc, off, ver, ino, faults, last,
                     overlapped>>
      /\ saved' \in {saved, saved + 1} /\ saved \in Nat
      /\ mixed \subseteq mixed'
  BY <1>1 DEF Truncate, Rewrite, Replace, options, remote, local, Shapes
<1>3. Named'
  BY <1>2 DEF Inv, Named
<1>4. \A v \in Int : v .. saved \subseteq v .. saved'
  BY <1>2
<1>5. ASSUME ~overlapped PROVE Alone' /\ OwnFile' /\ TargetWhole' /\ Delivered' /\ TempOwned'
  <2>1. Alone /\ OwnFile /\ TargetWhole /\ Delivered /\ TempOwned
    BY <1>5 DEF Inv
  <2>2. Alone' /\ TempOwned'
    BY <1>2, <2>1 DEF Alone, Active, TempOwned
  <2>3. Dest' = Dest /\ \A u \in Upload : ver[u] \in Int
    BY <1>1, <1>2 DEF Dest, Shapes
  <2>4. ASSUME NEW u \in Upload, pc[u] = "copy", ino[u] \notin mixed'
        PROVE  ~writing' /\ Shown(u)' = Shown(u)
    <3>1. ~writing
      BY <1>2, <2>1, <2>4 DEF OwnFile
    <3>2. ~Truncate /\ ~Rewrite
      BY <2>4, <3>1 DEF Truncate, Rewrite
    <3>3. Replace /\ ~inPlace
      BY <3>2 DEF Replace
    <3> QED
      BY <1>2, <3>1, <3>3 DEF Replace, Shown, local
  <2>5. OwnFile'
    <3> SUFFICES ASSUME NEW u \in Upload
                 PROVE  /\ pc[u] \in Writing =>
                             /\ name[Dest] # None /\ ino[u] = name[Dest]
                             /\ \A k \in DOMAIN data[ino[u]] : data[ino[u]][k] \in ver[u] .. saved'
                        /\ pc[u] = "copy" => Len(data[ino[u]]) = off[u]
                        /\ (pc[u] = "copy" /\ ino[u] \notin mixed') =>
                             /\ ~writing'
                             /\ data[ino[u]] = [k \in 1 .. off[u] |-> Shown(u)']
                        /\ (pc[u] \in {"chmod", "rename"} /\ ino[u] \notin mixed') =>
                             \E w \in ver[u] .. saved' : data[ino[u]] = Version(w)
                        /\ pc[u] \in {"rename", "cleanup"} => useTempFile
      BY <1>2, <2>3 DEF OwnFile, Recent, WholeSince, Writing, Version
    <3>1. ver[u] .. saved \subseteq ver[u] .. saved'
      BY <1>4, <2>3
    <3>2. (pc[u] = "copy" /\ ino[u] \notin mixed') =>
             /\ ~writing'
             /\ data[ino[u]] = [k \in 1 .. off[u] |-> Shown(u)']
      BY <1>2, <2>1, <2>4 DEF OwnFile
    <3> QED
      BY <1>2, <2>1, <3>1, <3>2 DEF OwnFile, Recent, WholeSince
  <2>6. TargetWhole'
    <3>1. Original .. saved \subseteq Original .. saved'
      BY <1>4 DEF Original
    <3> QED
      BY <1>2, <2>1, <3>1 DEF TargetWhole, WholeSince, Version
  <2>7. Delivered'
    <3> SUFFICES ASSUME Active = {}, last \in Upload, pc[last] = "done"
                 PROVE  /\ name["target"] # None
                        /\ \A k \in DOMAIN data[name["target"]] :
                             data[name["target"]][k] \in ver[last] .. saved'
                        /\ name["target"] \notin mixed' =>
                             \E w \in ver[last] .. saved' : data[name["target"]] = Version(w)
      BY <1>2 DEF Delivered, Arrived, Active, Recent, WholeSince, Version
    <3>1. ver[last] .. saved \subseteq ver[last] .. saved'
      BY <1>4, <2>3
    <3>2. Arrived(last)
      BY <2>1 DEF Delivered
    <3> QED
      BY <1>2, <3>1, <3>2 DEF Arrived, Recent, WholeSince
  <2> QED
    BY <2>2, <2>5, <2>6, <2>7
<1> QED
  BY <1>2, <1>3, <1>5 DEF Inv

LEMMA InvStep == Types /\ Inv /\ [Next]_vars => Inv'
<1> SUFFICES ASSUME Types, Inv, [Next]_vars PROVE Inv'
  OBVIOUS
<1>1. CASE Exit \/ UNCHANGED vars
  <2>1. UNCHANGED <<useTempFile, inPlace, saved, writing, name, data, created, pc, off, ver, ino, faults,
                    overlapped, mixed, last>>
    BY <1>1 DEF Exit, vars, options, file, remote, local
  <2> QED
    BY <2>1 DEF Inv, Named, Alone, Active, OwnFile, Dest, Shown, Recent, TargetWhole, WholeSince,
                Delivered, Arrived, TempOwned
<1> QED
  BY <1>1, BeginStep, OpenStep, CreateStep, CopyStep, EndsStep, ChmodStep, RenameStep, RemoveStep,
     FaultStep, EditStep
     DEF Next, Terminated

LEMMA InvCorrect == Spec => []Inv
<1>1. Spec => []Types
  BY TypesInit, TypesStep, PTL DEF Spec
<1> QED
  BY <1>1, InvInit, InvStep, PTL DEF Spec

\* With useTempFile the target is at every moment one whole version of the file, whatever
\* the editor writes, whatever call fails and wherever the process exits, unless uploads
\* of the file overlap or the editor rewrote it in place during the copy.
THEOREM TargetWholeCorrect == Spec => []TargetWhole
<1>1. Inv => TargetWhole
  BY DEF Inv, TargetWhole
<1> QED
  BY <1>1, InvCorrect, PTL

\* What the last upload reported as done is in the target: nothing older than what it
\* opened, and one whole version unless the editor rewrote the file during the copy.
THEOREM DeliveredCorrect == Spec => []DeliveredAtRest
<1>1. Inv => DeliveredAtRest
  BY DEF Inv, Delivered, Arrived, Recent, DeliveredAtRest, AtRest
<1> QED
  BY <1>1, InvCorrect, PTL

\* As long as no call failed, no temporary file is left when the uploads are over.
THEOREM NoStrayTempCorrect == Spec => []NoStrayTemp
<1>1. Inv => NoStrayTemp
  BY DEF Inv, NoStrayTemp, AtRest, TempOwned, Active, Writing, Ended
<1> QED
  BY <1>1, InvCorrect, PTL
================================================================================

--------------------------- MODULE TransferTreeProofs ---------------------------
(***************************************************************************)
(* Proofs about TransferTree, for trees of any depth with any names, any   *)
(* concurrency, any number of failed calls and of source files removed     *)
(* meanwhile, with and without the dry run.                                *)
(***************************************************************************)
EXTENDS TransferTree, TLAPS, FiniteSetTheorems

--------------------------------------------------------------------------------
(***************************************************************************)
(* Paths.                                                                  *)
(***************************************************************************)
LEMMA PathType ==
  ASSUME NEW p \in Path
  PROVE  p \in Seq(Name) /\ Len(p) \in 0 .. Depth /\ p \in [1 .. Len(p) -> Name]
BY TreeAssumption DEF Path

LEMMA PathIs ==
  ASSUME NEW p \in Seq(Name), Len(p) <= Depth
  PROVE  p \in Path
<1>1. p \in [1 .. Len(p) -> Name] /\ Len(p) \in 0 .. Depth
  BY TreeAssumption
<1> QED
  BY <1>1 DEF Path

LEMMA RootPath == Root \in Path
<1>1. Root \in Seq(Name) /\ Len(Root) = 0 /\ 0 <= Depth
  BY TreeAssumption DEF Root
<1> QED
  BY <1>1, PathIs

LEMMA EntryFacts ==
  ASSUME NEW p \in Entry
  PROVE  /\ p \in Path /\ Len(p) \in Nat \ {0}
         /\ Front(p) \in Path /\ Len(Front(p)) = Len(p) - 1
         /\ \A i \in 1 .. Len(p) - 1 : Front(p)[i] = p[i]
         /\ Last(p) = p[Len(p)]
         /\ Above(Front(p), p)
<1>1. p \in Path /\ p \in Seq(Name) /\ Len(p) \in 0 .. Depth /\ p # <<>>
  BY PathType DEF Entry, Root
<1>2. Len(p) \in Nat \ {0}
  BY <1>1
<1>3. Front(p) = SubSeq(p, 1, Len(p) - 1)
  BY DEF Front
<1>4. /\ Front(p) \in Seq(Name) /\ Len(Front(p)) = Len(p) - 1
      /\ \A i \in 1 .. Len(p) - 1 : Front(p)[i] = p[i]
  <2> DEFINE n == Len(p) - 1
  <2>1. n \in Nat /\ n <= Len(p)
    BY <1>2
  <2> HIDE DEF n
  <2>2. /\ SubSeq(p, 1, n) \in Seq(Name) /\ Len(SubSeq(p, 1, n)) = n
        /\ \A i \in 1 .. n : SubSeq(p, 1, n)[i] = p[i]
    BY <1>1, <2>1
  <2> QED
    BY <1>3, <2>2 DEF n
<1>5. Len(Front(p)) <= Depth
  BY <1>1, <1>4, TreeAssumption
<1>6. Front(p) \in Path
  BY <1>4, <1>5, PathIs
<1>7. IsPrefix(Front(p), p)
  BY <1>1, <1>2, <1>3, <1>4 DEF IsPrefix
<1>8. Front(p) # p
  BY <1>2, <1>4
<1> QED
  BY <1>1, <1>2, <1>4, <1>6, <1>7, <1>8 DEF Above, Last

LEMMA AboveIs ==
  ASSUME NEW q \in Path, NEW p \in Path
  PROVE  Above(q, p) <=> Len(q) < Len(p) /\ \A i \in 1 .. Len(q) : q[i] = p[i]
<1>1. q \in Seq(Name) /\ p \in Seq(Name) /\ Len(q) \in Nat /\ Len(p) \in Nat
  BY PathType
<1>2. IsPrefix(q, p) <=> Len(q) <= Len(p) /\ \A i \in 1 .. Len(q) : q[i] = p[i]
  BY <1>1 DEF IsPrefix
<1>3. Len(q) = Len(p) /\ (\A i \in 1 .. Len(q) : q[i] = p[i]) => q = p
  BY <1>1
<1>4. q = p => Len(q) = Len(p)
  OBVIOUS
<1> QED
  BY <1>1, <1>2, <1>3, <1>4 DEF Above

\* The order of paths, without their representation.
LEMMA Order ==
  /\ \A p \in Entry : p \in Path /\ Front(p) \in Path /\ Above(Front(p), p)
  /\ \A p \in Entry, q \in Path : Above(q, p) => q = Front(p) \/ Above(q, Front(p))
  /\ \A q, p \in Path : Above(q, p) => p \in Entry /\ ~Above(p, q) /\ p # q
  /\ \A r, q, p \in Path : Above(r, q) /\ Above(q, p) => Above(r, p)
  /\ \A q, p \in Path : Above(q, p) => \E k \in Kids(q) : k = p \/ Above(k, p)
  /\ \A p \in Entry : Above(Root, p)
<1>1. \A p \in Entry : p \in Path /\ Front(p) \in Path /\ Above(Front(p), p)
  BY EntryFacts
<1>2. ASSUME NEW p \in Entry, NEW q \in Path, Above(q, p), q # Front(p) PROVE Above(q, Front(p))
  <2>1. /\ p \in Path /\ Front(p) \in Path /\ Len(Front(p)) = Len(p) - 1
        /\ \A i \in 1 .. Len(p) - 1 : Front(p)[i] = p[i]
        /\ Len(p) \in Nat /\ Len(q) \in Nat
    BY EntryFacts, PathType
  <2>2. Len(q) < Len(p) /\ \A i \in 1 .. Len(q) : q[i] = p[i]
    BY <1>2, <2>1, AboveIs
  <2>3. \A i \in 1 .. Len(q) : q[i] = Front(p)[i]
    BY <2>1, <2>2
  <2>4. Len(q) # Len(Front(p))
    BY <1>2, <2>1, <2>3, PathType
  <2>5. Len(q) < Len(Front(p))
    BY <2>1, <2>2, <2>4
  <2> QED
    BY <2>1, <2>3, <2>5, AboveIs
<1>3. ASSUME NEW q \in Path, NEW p \in Path, Above(q, p)
      PROVE  p \in Entry /\ ~Above(p, q) /\ p # q
  <2>1. Len(q) \in Nat /\ Len(p) \in Nat /\ Len(q) < Len(p)
    BY <1>3, AboveIs, PathType
  <2>2. p # Root
    BY <2>1 DEF Root
  <2> QED
    BY <2>1, <2>2, AboveIs DEF Entry
<1>4. ASSUME NEW r \in Path, NEW q \in Path, NEW p \in Path, Above(r, q), Above(q, p)
      PROVE  Above(r, p)
  <2>1. Len(r) \in Nat /\ Len(q) \in Nat /\ Len(p) \in Nat
    BY PathType
  <2>2. Len(r) < Len(q) /\ \A i \in 1 .. Len(r) : r[i] = q[i]
    BY <1>4, AboveIs
  <2>3. Len(q) < Len(p) /\ \A i \in 1 .. Len(q) : q[i] = p[i]
    BY <1>4, AboveIs
  <2> QED
    BY <2>1, <2>2, <2>3, AboveIs
<1>5. ASSUME NEW q \in Path, NEW p \in Path, Above(q, p)
      PROVE  \E k \in Kids(q) : k = p \/ Above(k, p)
  <2> DEFINE n == Len(q) + 1
             k == SubSeq(p, 1, n)
  <2>1. /\ Len(q) \in Nat /\ Len(p) \in 0 .. Depth /\ q \in Seq(Name) /\ p \in Seq(Name)
        /\ Len(q) < Len(p) /\ \A i \in 1 .. Len(q) : q[i] = p[i]
    BY <1>5, AboveIs, PathType
  <2>2. n \in 1 .. Len(p)
    BY <2>1
  <2>3. k \in Seq(Name) /\ Len(k) = n /\ \A i \in 1 .. n : k[i] = p[i]
    BY <2>1, <2>2
  <2> HIDE DEF k
  <2>4. k \in Path
    BY <2>1, <2>2, <2>3, PathIs, TreeAssumption
  <2>5. k \in Entry
    BY <2>1, <2>3, <2>4 DEF Entry, Root
  <2>6. Front(k) \in Seq(Name) /\ Len(Front(k)) = Len(q) /\ \A i \in 1 .. Len(q) : Front(k)[i] = q[i]
    <3>1. /\ Front(k) \in Path /\ Len(Front(k)) = Len(k) - 1
          /\ \A i \in 1 .. Len(k) - 1 : Front(k)[i] = k[i]
      BY <2>5, EntryFacts
    <3>2. Len(k) - 1 = Len(q) /\ \A i \in 1 .. Len(q) : i \in 1 .. n
      BY <2>1, <2>3
    <3>3. Front(k) \in Seq(Name)
      BY <3>1, PathType
    <3> QED
      BY <2>1, <2>3, <3>1, <3>2, <3>3
  <2>7. Front(k) = q
    BY <2>1, <2>6
  <2>8. k = p \/ Above(k, p)
    <3>1. CASE n = Len(p)
      BY <2>1, <2>3, <3>1
    <3>2. CASE n # Len(p)
      BY <2>1, <2>2, <2>3, <2>4, <3>2, AboveIs
    <3> QED
      BY <3>1, <3>2
  <2> QED
    BY <2>5, <2>7, <2>8 DEF Kids
<1>6. ASSUME NEW p \in Entry PROVE Above(Root, p)
  <2>1. Len(p) \in Nat \ {0} /\ p \in Path /\ Len(Root) = 0
    BY EntryFacts DEF Root
  <2> QED
    BY <2>1, RootPath, AboveIs
<1> QED
  BY <1>1, <1>2, <1>3, <1>4, <1>5, <1>6

\* What is visible lies below what is visible.
LEMMA Seeing ==
  /\ Visible(Root)
  /\ \A q, p \in Path : Above(q, p) /\ Visible(p) => Visible(q)
  /\ \A p \in Entry : Visible(p) <=> Visible(Front(p)) /\ ~IsIgnored(p)
<1>1. Visible(Root)
  BY DEF Visible, Root
<1>2. \A p \in Path : DOMAIN p = 1 .. Len(p) /\ Len(p) \in Nat
  BY PathType
<1>3. ASSUME NEW q \in Path, NEW p \in Path, Above(q, p), Visible(p) PROVE Visible(q)
  BY <1>2, <1>3, AboveIs DEF Visible
<1>4. ASSUME NEW p \in Entry PROVE Visible(p) <=> Visible(Front(p)) /\ ~IsIgnored(p)
  <2>1. /\ p \in Path /\ Front(p) \in Path /\ Len(p) \in Nat \ {0}
        /\ DOMAIN p = 1 .. Len(p) /\ DOMAIN Front(p) = 1 .. Len(p) - 1
        /\ \A i \in 1 .. Len(p) - 1 : Front(p)[i] = p[i]
        /\ Last(p) = p[Len(p)]
    BY <1>2, EntryFacts
  <2> QED
    BY <2>1 DEF Visible, IsIgnored
<1> QED
  BY <1>1, <1>3, <1>4

--------------------------------------------------------------------------------
(***************************************************************************)
(* Which calls of Transfer are under way.                                  *)
(***************************************************************************)
Early == {"none", "waiting", "stat", "list", "put", "copy"}

\* Below a call that has not run its tasks nothing is under way.
Low == \A q, p \in Path : Above(q, p) /\ pc[q] \in Early => pc[p] = "none"
Mid == \A q, p \in Path : Above(q, p) /\ pc[q] = "mkdir" => pc[p] \in {"none", "waiting"}
\* Below a call that returned nil every call returned nil.
Up == \A q, p \in Path : Above(q, p) /\ pc[q] = "done" => pc[p] \in {"none", "done"}
\* A task runs inside its parent's RunAll.
Inside == \A p \in Entry : pc[p] \notin {"none", "waiting"} \cup Ended => pc[Front(p)] = "run"
Seen == \A p \in Path : pc[p] # "none" => Visible(p)

Calling == /\ pc \in [Path -> Control] /\ pc[Root] \notin {"none", "waiting"}
           /\ Low /\ Mid /\ Up /\ Inside /\ Seen

\* Where a call may go next, but for the one that lists a directory.
Goes(p, x) ==
  \/ pc[p] = "waiting" /\ x = "stat" /\ p # Root /\ pc[Front(p)] = "run"
  \/ pc[p] = "stat" /\ x \in {"list", "put", "done", "failed"}
  \/ pc[p] = "list" /\ x = "failed"
  \/ pc[p] = "mkdir" /\ x \in {"run", "failed"}
  \/ pc[p] = "put" /\ x \in {"copy", "failed"}
  \/ pc[p] = "copy" /\ x \in {"done", "failed"}
  \/ /\ pc[p] = "run" /\ x \in Ended
     /\ \A k \in Kids(p) : pc[k] \in Ended \cup {"none"}
     /\ x = "done" => \A k \in Kids(p) : pc[k] # "failed"

LEMMA KidsAre == \A q \in Path : \A k \in Kids(q) : k \in Entry /\ k \in Path /\ Front(k) = q /\ Above(q, k)
BY Order DEF Kids

LEMMA CallingGoes ==
  ASSUME Calling, NEW p \in Path, NEW x \in Control, Goes(p, x), pc' = [pc EXCEPT ![p] = x]
  PROVE  Calling'
<1>1. /\ pc' \in [Path -> Control]
      /\ \A q \in Path : pc'[q] = IF q = p THEN x ELSE pc[q]
  BY DEF Calling
<1>2. x \notin {"none", "waiting", "mkdir"} /\ pc[p] \notin {"none", "done", "failed"}
  BY DEF Goes, Ended
<1>3. pc'[Root] \notin {"none", "waiting"}
  BY <1>1, <1>2, RootPath DEF Calling
<1>4. Low'
  <2> SUFFICES ASSUME NEW q \in Path, NEW r \in Path, Above(q, r), pc'[q] \in Early
               PROVE  pc'[r] = "none"
    BY DEF Low
  <2>1. pc[q] \in Early
    BY <1>1 DEF Goes, Early, Ended
  <2>2. pc[r] = "none"
    BY <2>1 DEF Calling, Low
  <2> QED
    BY <1>1, <1>2, <2>2
<1>5. Mid'
  <2> SUFFICES ASSUME NEW q \in Path, NEW r \in Path, Above(q, r), pc'[q] = "mkdir"
               PROVE  pc'[r] \in {"none", "waiting"}
    BY DEF Mid
  <2>1. pc[q] = "mkdir"
    BY <1>1, <1>2
  <2>2. pc[r] \in {"none", "waiting"}
    BY <2>1 DEF Calling, Mid
  <2>3. ASSUME r = p PROVE FALSE
    <3>1. r \in Entry /\ pc[Front(r)] = "run"
      BY <2>2, <2>3, <1>2, Order DEF Goes
    <3>2. q = Front(r) \/ Above(q, Front(r))
      BY <3>1, Order
    <3>3. Front(r) \in Path
      BY <3>1, Order
    <3> QED
      BY <2>1, <3>1, <3>2, <3>3 DEF Calling, Mid
  <2> QED
    BY <1>1, <2>2, <2>3
<1>6. Up'
  <2> SUFFICES ASSUME NEW q \in Path, NEW r \in Path, Above(q, r), pc'[q] = "done"
               PROVE  pc'[r] \in {"none", "done"}
    BY DEF Up
  <2>0. q # r
    BY Order
  <2>1. CASE q # p
    <3>1. pc[r] \in {"none", "done"}
      BY <1>1, <2>1 DEF Calling, Up
    <3> QED
      BY <1>1, <1>2, <3>1
  <2>2. CASE q = p /\ pc[p] # "run"
    <3>1. pc[r] = "none"
      BY <1>1, <2>2 DEF Calling, Low, Goes, Early
    <3> QED
      BY <1>1, <2>0, <2>2, <3>1
  <2>3. CASE q = p /\ pc[p] = "run"
    <3>1. \A k \in Kids(q) : pc[k] \in {"none", "done"}
      BY <1>1, <2>3 DEF Goes, Ended
    <3>2. PICK k \in Kids(q) : k = r \/ Above(k, r)
      BY Order
    <3>3. pc[r] \in {"none", "done"}
      BY <3>1, <3>2, KidsAre DEF Calling, Low, Up, Early
    <3> QED
      BY <1>1, <2>0, <2>3, <3>3
  <2> QED
    BY <2>1, <2>2, <2>3
<1>7. Inside'
  <2> SUFFICES ASSUME NEW r \in Entry, pc'[r] \notin {"none", "waiting"} \cup Ended
               PROVE  pc'[Front(r)] = "run"
    BY DEF Inside
  <2>1. r \in Path /\ Front(r) \in Path /\ Front(r) # r
    BY Order
  <2>2. pc[Front(r)] = "run"
    BY <1>1, <2>1 DEF Goes, Calling, Inside, Ended
  <2>3. ASSUME Front(r) = p PROVE FALSE
    <3>1. r \in Kids(p)
      BY <2>3 DEF Kids
    <3>2. pc[r] \in Ended \cup {"none"}
      BY <2>2, <2>3, <3>1 DEF Goes, Ended
    <3> QED
      BY <1>1, <2>1, <2>3, <3>2 DEF Ended
  <2> QED
    BY <1>1, <2>1, <2>2, <2>3
<1>8. Seen'
  BY <1>1, <1>2 DEF Seen, Calling, Visible
<1> QED
  BY <1>1, <1>3, <1>4, <1>5, <1>6, <1>7, <1>8 DEF Calling

LEMMA CallingLists ==
  ASSUME Calling, NEW d \in Path, ListSource(d)
  PROVE  Calling'
<1>1. /\ pc[d] = "list"
      /\ \A p \in Path : pc'[p] = IF p = d THEN "mkdir" ELSE IF p \in Tasks(d) THEN "waiting" ELSE pc[p]
  BY DEF ListSource
<1>2. pc' \in [Path -> Control]
  BY DEF ListSource, Calling, Control
<1>3. \A p \in Tasks(d) : p \in Entry /\ p \in Path /\ Front(p) = d /\ Above(d, p) /\ ~IsIgnored(p)
  BY KidsAre DEF Tasks
<1>4. \A p \in Path : Above(d, p) => pc[p] = "none"
  BY <1>1 DEF Calling, Low, Early
<1>5. \A q \in Path : Above(q, d) => pc[q] \notin Early \cup {"mkdir", "done"}
  BY <1>1 DEF Calling, Low, Mid, Up
<1>6. Low'
  <2> SUFFICES ASSUME NEW q \in Path, NEW r \in Path, Above(q, r), pc'[q] \in Early
               PROVE  pc'[r] = "none"
    BY DEF Low
  <2>1. q # d
    BY <1>1 DEF Early
  <2>2. pc[q] \in Early
    BY <1>1, <1>3, <1>4, <2>1 DEF Early
  <2>3. pc[r] = "none"
    BY <2>2 DEF Calling, Low
  <2>4. r # d
    BY <1>1, <2>3
  <2>5. r \notin Tasks(d)
    <3>1. r \in Tasks(d) => q = d \/ Above(q, d)
      BY <1>3, Order
    <3> QED
      BY <1>5, <2>1, <2>2, <3>1
  <2> QED
    BY <1>1, <2>3, <2>4, <2>5
<1>7. Mid'
  <2> SUFFICES ASSUME NEW q \in Path, NEW r \in Path, Above(q, r), pc'[q] = "mkdir"
               PROVE  pc'[r] \in {"none", "waiting"}
    BY DEF Mid
  <2>1. pc[r] \in {"none", "waiting"}
    BY <1>1, <1>4 DEF Calling, Mid
  <2> QED
    BY <1>1, <2>1
<1>8. Up'
  <2> SUFFICES ASSUME NEW q \in Path, NEW r \in Path, Above(q, r), pc'[q] = "done"
               PROVE  pc'[r] \in {"none", "done"}
    BY DEF Up
  <2>1. q # d /\ pc[q] = "done"
    BY <1>1
  <2>2. pc[r] \in {"none", "done"}
    BY <2>1 DEF Calling, Up
  <2>3. r \notin Tasks(d)
    <3>1. r \in Tasks(d) => q = d \/ Above(q, d)
      BY <1>3, Order
    <3> QED
      BY <1>5, <2>1, <3>1
  <2> QED
    BY <1>1, <2>2, <2>3
<1>9. Inside'
  <2> SUFFICES ASSUME NEW r \in Entry, pc'[r] \notin {"none", "waiting"} \cup Ended
               PROVE  pc'[Front(r)] = "run"
    BY DEF Inside
  <2>1. r \in Path /\ Front(r) \in Path /\ Above(Front(r), r)
    BY Order
  <2>2. r \notin Tasks(d) /\ pc[r] \notin {"none", "waiting"} \cup Ended
    BY <1>1, <1>3, <2>1, Order DEF Ended
  <2>3. pc[Front(r)] = "run"
    BY <2>2 DEF Calling, Inside
  <2>4. Front(r) # d /\ Front(r) \notin Tasks(d)
    BY <1>1, <1>3, <1>4, <2>3
  <2> QED
    BY <1>1, <2>1, <2>3, <2>4
<1>10. Seen'
  <2> SUFFICES ASSUME NEW p \in Path, pc'[p] # "none" PROVE Visible(p)
    BY DEF Seen, Visible
  <2>1. Visible(d)
    BY <1>1 DEF Calling, Seen
  <2>2. p \in Tasks(d) => Visible(p)
    BY <1>3, <2>1, Seeing
  <2> QED
    BY <1>1, <2>1, <2>2 DEF Calling, Seen
<1>11. pc'[Root] \notin {"none", "waiting"}
  <2>1. Root \notin Tasks(d)
    BY <1>3 DEF Entry
  <2> QED
    BY <1>1, <2>1, RootPath DEF Calling
<1> QED
  BY <1>2, <1>6, <1>7, <1>8, <1>9, <1>10, <1>11 DEF Calling

--------------------------------------------------------------------------------
(***************************************************************************)
(* What the calls do to the trees.                                         *)
(***************************************************************************)
Types ==
  /\ concurrency \in Int /\ dryRun \in BOOLEAN
  /\ src \in [Path -> {"none", "dir", "new"}]
  /\ dst \in [Path -> {"none", "dir", "old", "new", "torn"}]
  /\ edits \in 0 .. MaxEdits /\ faults \in 0 .. MaxFaults

SrcTree == \A q, p \in Path : Above(q, p) /\ src[p] # "none" => src[q] = "dir"
DstTree == \A p \in Entry : dst[p] # "none" => dst[Front(p)] = "dir"

\* A call that puts a file found one, a call that lists found a directory.
Kinds ==
  \A p \in Path : /\ pc[p] \in {"put", "copy"} => src[p] # "dir" /\ ~dryRun
                  /\ pc[p] \in {"list", "mkdir", "run"} => src[p] = "dir"

\* A listed directory has a task for everything that is not ignored ...
Listed ==
  \A p \in Entry :
    pc[Front(p)] \in {"mkdir", "run"} /\ src[p] # "none" /\ ~IsIgnored(p) => pc[p] # "none"
\* ... and when its call returned nil, all that is visible below it was dealt with,
Reached ==
  \A q, p \in Path : Above(q, p) /\ pc[q] = "done" /\ src[p] # "none" /\ Visible(p) => pc[p] = "done"
\* files were copied,
Filled == \A p \in Path : pc[p] = "done" /\ src[p] = "new" /\ ~dryRun => dst[p] = "new"
\* and directories are there while anything is done in them.
DirMade == \A p \in Path : pc[p] = "run" /\ ~dryRun => dst[p] = "dir"

Torn == \A p \in Path : dst[p] = "torn" => pc[p] \in {"copy", "failed"}
Opened == \A p \in Path : pc[p] = "copy" => dst[p] = "torn"
Same == \A p \in Path : dst[p] # dst0[p] => ~dryRun /\ pc[p] # "none"

Trees == /\ Types /\ SrcTree /\ DstTree /\ Kinds /\ Listed /\ Reached /\ Filled
         /\ DirMade /\ Torn /\ Opened /\ Same

Inv == Calling /\ Trees

\* What a step other than ListSource and RemoveSource does for the call of p.
Moves(p, x, y) ==
  /\ Goes(p, x)
  /\ pc' = [pc EXCEPT ![p] = x]
  /\ dst' \in [Path -> {"none", "dir", "old", "new", "torn"}]
  /\ \A q \in Path : dst'[q] = IF q = p THEN y ELSE dst[q]
  /\ y # dst[p] => ~dryRun /\ pc[p] \in {"mkdir", "put", "copy"} /\ dst[p] # "dir"
  /\ y = "torn" => x \in {"copy", "failed"}
  /\ x = "copy" => y = "torn"
  /\ x = "done" /\ src[p] = "new" /\ ~dryRun => y = "new"
  /\ x = "run" /\ ~dryRun => y = "dir"
  /\ x \in {"put", "copy"} => src[p] # "dir" /\ ~dryRun
  /\ x \in {"list", "run"} => src[p] = "dir"
  /\ pc[p] = "stat" /\ x = "done" => src[p] # "dir"
  /\ UNCHANGED <<opts, src, edits, dst0>> /\ faults' \in 0 .. MaxFaults

LEMMA StepMoves ==
  ASSUME Inv, NEW p \in Path, (Step(p) /\ ~ListSource(p)) \/ Fault(p)
  PROVE  \E x \in Control, y \in {"none", "dir", "old", "new", "torn"} : Moves(p, x, y)
<1> DEFINE Content == {"none", "dir", "old", "new", "torn"}
<1>0. /\ dst \in [Path -> Content] /\ src[p] \in {"none", "dir", "new"} /\ dst[p] \in Content
      /\ pc[p] \in Control
      /\ faults \in 0 .. MaxFaults /\ MaxFaults \in Nat /\ MaxEdits \in Nat
  BY TreeAssumption DEF Inv, Trees, Types, Calling
<1>1. Kinds /\ Torn /\ Opened
  BY DEF Inv, Trees
<1>2. \A q \in Path : UNCHANGED dst => dst'[q] = IF q = p THEN dst[p] ELSE dst[q]
  OBVIOUS
<1>3. ASSUME NEW b \in BOOLEAN, Fail(p, b)
      PROVE  /\ pc' = [pc EXCEPT ![p] = "failed"] /\ UNCHANGED <<opts, src, edits, dst0>>
             /\ faults' \in 0 .. MaxFaults
  BY <1>0, <1>3 DEF Fail
<1>4. ASSUME NEW x, Go(p, x)
      PROVE  /\ pc' = [pc EXCEPT ![p] = x] /\ UNCHANGED <<opts, src, edits, dst0>>
             /\ faults' \in 0 .. MaxFaults
  BY <1>0, <1>4 DEF Go
<1>5. CASE Start(p)
  <2>1. Moves(p, "stat", dst[p])
    BY <1>0, <1>1, <1>2, <1>5 DEF Start, Moves, Goes, Torn
  <2> QED
    BY <1>0, <2>1 DEF Control
<1>6. CASE StatSource(p)
  <2>1. CASE src[p] = "none"
    <3>1. Moves(p, "failed", dst[p])
      BY <1>0, <1>1, <1>2, <1>3, <1>6, <2>1 DEF StatSource, Moves, Goes, Torn
    <3> QED
      BY <1>0, <3>1 DEF Control
  <2>2. CASE src[p] = "dir"
    <3>1. Moves(p, "list", dst[p])
      BY <1>0, <1>1, <1>2, <1>4, <1>6, <2>2 DEF StatSource, Moves, Goes, Torn
    <3> QED
      BY <1>0, <3>1 DEF Control
  <2>3. CASE src[p] = "new" /\ dryRun
    <3>1. Moves(p, "done", dst[p])
      BY <1>0, <1>1, <1>2, <1>4, <1>6, <2>3 DEF StatSource, Moves, Goes, Torn
    <3> QED
      BY <1>0, <3>1 DEF Control
  <2>4. CASE src[p] = "new" /\ ~dryRun
    <3>1. Moves(p, "put", dst[p])
      BY <1>0, <1>1, <1>2, <1>4, <1>6, <2>4 DEF StatSource, Moves, Goes, Torn
    <3> QED
      BY <1>0, <3>1 DEF Control
  <2> QED
    BY <1>0, <2>1, <2>2, <2>3, <2>4
<1>7. CASE MakeDestination(p)
  <2>1. pc[p] = "mkdir" /\ src[p] = "dir"
    BY <1>1, <1>7 DEF MakeDestination, Kinds
  <2>2. CASE dryRun /\ Go(p, "run") /\ UNCHANGED dst
    <3>1. Moves(p, "run", dst[p])
      BY <1>0, <1>1, <1>2, <1>4, <2>1, <2>2 DEF Moves, Goes, Torn
    <3> QED
      BY <1>0, <3>1 DEF Control
  <2>3. CASE ~dryRun /\ dst[p] \in {"none", "dir"} /\ dst' = [dst EXCEPT ![p] = "dir"] /\ Go(p, "run")
    <3>1. Moves(p, "run", "dir")
      BY <1>0, <1>4, <2>1, <2>3 DEF Moves, Goes
    <3> QED
      BY <3>1 DEF Control
  <2>4. CASE ~dryRun /\ dst[p] \notin {"none", "dir"} /\ Fail(p, FALSE) /\ UNCHANGED dst
    <3>1. Moves(p, "failed", dst[p])
      BY <1>0, <1>1, <1>2, <1>3, <2>1, <2>4 DEF Moves, Goes, Torn
    <3> QED
      BY <1>0, <3>1 DEF Control
  <2> QED
    BY <1>7, <2>2, <2>3, <2>4 DEF MakeDestination
<1>8. CASE OpenTarget(p)
  <2>1. pc[p] = "put" /\ src[p] # "dir" /\ ~dryRun
    BY <1>1, <1>8 DEF OpenTarget, Kinds
  <2>2. CASE src[p] = "none" \/ dst[p] = "dir"
    <3>1. Moves(p, "failed", dst[p])
      BY <1>0, <1>1, <1>2, <1>3, <1>8, <2>1, <2>2 DEF OpenTarget, Moves, Goes, Torn
    <3> QED
      BY <1>0, <3>1 DEF Control
  <2>3. CASE ~(src[p] = "none" \/ dst[p] = "dir")
    <3>1. Moves(p, "copy", "torn")
      BY <1>0, <1>4, <1>8, <2>1, <2>3 DEF OpenTarget, Moves, Goes
    <3> QED
      BY <3>1 DEF Control
  <2> QED
    BY <2>2, <2>3
<1>9. CASE CloseTarget(p)
  <2>1. pc[p] = "copy" /\ dst[p] = "torn" /\ ~dryRun
    BY <1>1, <1>9 DEF CloseTarget, Kinds, Opened
  <2>2. Moves(p, "done", "new")
    BY <1>0, <1>4, <1>9, <2>1 DEF CloseTarget, Moves, Goes
  <2> QED
    BY <2>2 DEF Control
<1>10. CASE Return(p)
  <2>1. pc[p] = "run" /\ src[p] = "dir" /\ UNCHANGED dst
    BY <1>1, <1>10 DEF Return, Kinds
  <2>2. /\ Outcome(p) \in Ended
        /\ Outcome(p) = "done" => \A k \in Kids(p) : pc[k] # "failed"
    BY DEF Outcome, Ended
  <2>3. Moves(p, Outcome(p), dst[p])
    BY <1>0, <1>1, <1>2, <1>4, <1>10, <2>1, <2>2 DEF Return, Moves, Goes, Ended, Torn
  <2> QED
    BY <1>0, <2>2, <2>3 DEF Control, Ended
<1>11. CASE Fault(p)
  <2>1. /\ pc[p] \in {"stat", "list", "mkdir", "put", "copy"} /\ ~(dryRun /\ pc[p] = "mkdir")
        /\ Fail(p, TRUE)
    BY <1>11 DEF Fault
  <2>2. CASE UNCHANGED dst
    <3>1. Moves(p, "failed", dst[p])
      BY <1>0, <1>2, <1>3, <2>1, <2>2 DEF Moves, Goes, Ended
    <3> QED
      BY <1>0, <3>1 DEF Control
  <2>3. CASE pc[p] = "mkdir" /\ dst[p] = "none" /\ dst' = [dst EXCEPT ![p] = "dir"]
    <3>1. Moves(p, "failed", "dir")
      BY <1>0, <1>3, <2>1, <2>3 DEF Moves, Goes, Ended
    <3> QED
      BY <3>1 DEF Control
  <2>4. CASE pc[p] = "copy" /\ dst' = [dst EXCEPT ![p] = "new"]
    <3>1. Moves(p, "failed", "new")
      BY <1>0, <1>1, <1>3, <2>1, <2>4 DEF Moves, Goes, Ended, Kinds, Opened
    <3> QED
      BY <3>1 DEF Control
  <2> QED
    BY <1>11, <2>2, <2>3, <2>4 DEF Fault
<1> QED
  BY <1>5, <1>6, <1>7, <1>8, <1>9, <1>10, <1>11 DEF Step

LEMMA TreesMove ==
  ASSUME Inv, NEW p \in Path, NEW x \in Control, NEW y \in {"none", "dir", "old", "new", "torn"},
         Moves(p, x, y)
  PROVE  Trees'
<1>0. /\ Types /\ SrcTree /\ DstTree /\ Kinds /\ Listed /\ Reached /\ Filled
      /\ DirMade /\ Torn /\ Opened /\ Same
  BY DEF Inv, Trees
<1>1. /\ \A q \in Path : pc'[q] = IF q = p THEN x ELSE pc[q]
      /\ \A q \in Path : dst'[q] = IF q = p THEN y ELSE dst[q]
      /\ src' = src /\ dryRun' = dryRun /\ concurrency' = concurrency /\ edits' = edits
      /\ dst0' = dst0
  BY DEF Inv, Calling, Moves, opts
<1>2. /\ x \notin {"none", "waiting", "mkdir"} /\ pc[p] \notin {"none", "done", "failed"}
      /\ x = "run" => pc[p] = "mkdir"
      /\ x = "done" => pc[p] \in {"stat", "copy", "run"}
  BY DEF Moves, Goes, Ended
<1>3. Types'
  BY <1>0, <1>1 DEF Types, Moves
<1>4. SrcTree'
  BY <1>0, <1>1 DEF SrcTree, Above
<1>5. DstTree'
  <2> SUFFICES ASSUME NEW r \in Entry, dst'[r] # "none" PROVE dst'[Front(r)] = "dir"
    BY DEF DstTree
  <2>1. r \in Path /\ Front(r) \in Path /\ Front(r) # r
    BY Order
  <2>2. dst[Front(r)] = "dir"
    <3>1. CASE dst[r] # "none"
      BY <1>0, <3>1 DEF DstTree
    <3>2. CASE dst[r] = "none"
      <4>1. r = p /\ y # dst[p]
        BY <1>1, <2>1, <3>2
      <4>2. ~dryRun /\ pc[r] \in {"mkdir", "put", "copy"}
        BY <4>1 DEF Moves
      <4>3. pc[Front(r)] = "run"
        BY <4>2 DEF Inv, Calling, Inside, Ended
      <4> QED
        BY <1>0, <2>1, <4>2, <4>3 DEF DirMade
    <3> QED
      BY <3>1, <3>2
  <2>3. Front(r) = p => y = "dir"
    BY <2>2 DEF Moves
  <2> QED
    BY <1>1, <2>1, <2>2, <2>3
<1>6. Kinds'
  BY <1>0, <1>1, <1>2 DEF Kinds, Moves
<1>7. Listed'
  <2> SUFFICES ASSUME NEW r \in Entry, pc'[Front(r)] \in {"mkdir", "run"}, src[r] # "none",
                      ~IsIgnored(r)
               PROVE  pc'[r] # "none"
    BY <1>1 DEF Listed, IsIgnored
  <2>1. r \in Path /\ Front(r) \in Path
    BY Order
  <2>2. pc[Front(r)] \in {"mkdir", "run"}
    BY <1>1, <1>2, <2>1
  <2>3. pc[r] # "none"
    BY <1>0, <2>2 DEF Listed
  <2> QED
    BY <1>1, <1>2, <2>1, <2>3
<1>8. Reached'
  <2> SUFFICES ASSUME NEW q \in Path, NEW r \in Path, Above(q, r), pc'[q] = "done",
                      src[r] # "none", Visible(r)
               PROVE  pc'[r] = "done"
    BY <1>1 DEF Reached, Visible, Above
  <2>1. q # r
    BY Order
  <2>2. CASE q # p
    <3>1. pc[r] = "done"
      BY <1>0, <1>1, <2>2 DEF Reached
    <3> QED
      BY <1>1, <1>2, <3>1
  <2>3. CASE q = p
    <3>1. x = "done" /\ src[q] = "dir"
      BY <1>0, <1>1, <2>3 DEF SrcTree
    <3>2. pc[p] = "run"
      BY <1>0, <1>2, <2>3, <3>1 DEF Moves, Kinds
    <3>3. \A k \in Kids(p) : pc[k] \in {"done", "none"}
      BY <3>1, <3>2 DEF Moves, Goes, Ended
    <3>4. PICK k \in Kids(p) : k = r \/ Above(k, r)
      BY <2>3, Order
    <3>5. k \in Entry /\ k \in Path /\ Front(k) = p
      BY <3>4, KidsAre
    <3>6. src[k] # "none" /\ Visible(k)
      BY <1>0, <3>4, <3>5, Seeing DEF SrcTree
    <3>7. ~IsIgnored(k)
      BY <3>5, <3>6, Seeing
    <3>8. pc[k] = "done"
      BY <1>0, <3>2, <3>3, <3>4, <3>5, <3>6, <3>7 DEF Listed
    <3>9. pc[r] = "done"
      BY <1>0, <3>4, <3>5, <3>8 DEF Reached
    <3> QED
      BY <1>1, <2>1, <2>3, <3>9
  <2> QED
    BY <2>2, <2>3
<1>9. Filled'
  <2>1. x = "done" /\ src[p] = "new" /\ ~dryRun => y = "new"
    BY DEF Moves
  <2> QED
    BY <1>0, <1>1, <2>1 DEF Filled
<1>10. DirMade'
  <2>1. x = "run" /\ ~dryRun => y = "dir"
    BY DEF Moves
  <2> QED
    BY <1>0, <1>1, <2>1 DEF DirMade
<1>11. Torn' /\ Opened'
  <2>1. (y = "torn" => x \in {"copy", "failed"}) /\ (x = "copy" => y = "torn")
    BY DEF Moves
  <2> QED
    BY <1>0, <1>1, <2>1 DEF Torn, Opened
<1>12. Same'
  <2>1. y # dst[p] => ~dryRun
    BY DEF Moves
  <2> QED
    BY <1>0, <1>1, <1>2, <2>1 DEF Same
<1> QED
  BY <1>3, <1>4, <1>5, <1>6, <1>7, <1>8, <1>9, <1>10, <1>11, <1>12 DEF Trees

LEMMA TreesList ==
  ASSUME Inv, NEW d \in Path, ListSource(d)
  PROVE  Trees'
<1>0. /\ Types /\ SrcTree /\ DstTree /\ Kinds /\ Listed /\ Reached /\ Filled
      /\ DirMade /\ Torn /\ Opened /\ Same
  BY DEF Inv, Trees
<1>1. /\ pc[d] = "list"
      /\ \A p \in Path : pc'[p] = IF p = d THEN "mkdir" ELSE IF p \in Tasks(d) THEN "waiting" ELSE pc[p]
      /\ src' = src /\ dst' = dst /\ dryRun' = dryRun /\ concurrency' = concurrency
      /\ edits' = edits /\ faults' = faults /\ dst0' = dst0
  BY DEF ListSource, opts
<1>2. \A p \in Tasks(d) : p \in Path /\ pc[p] = "none" /\ p # d
  BY <1>1, KidsAre, Order DEF Tasks, Inv, Calling, Low, Early
<1>3. Types' /\ DstTree'
  BY <1>0, <1>1 DEF Types, DstTree, Entry
<1>4. SrcTree'
  BY <1>0, <1>1 DEF SrcTree, Above
<1>5. Kinds'
  BY <1>0, <1>1 DEF Kinds
<1>6. Listed'
  <2> SUFFICES ASSUME NEW r \in Entry, pc'[Front(r)] \in {"mkdir", "run"}, src[r] # "none",
                      ~IsIgnored(r)
               PROVE  pc'[r] # "none"
    BY <1>1 DEF Listed, IsIgnored
  <2>1. r \in Path /\ Front(r) \in Path /\ r # Front(r)
    BY Order
  <2>2. CASE Front(r) = d
    <3>1. r \in Tasks(d)
      BY <2>2 DEF Tasks, Kids
    <3> QED
      BY <1>1, <1>2, <3>1
  <2>3. CASE Front(r) # d
    <3>1. pc[Front(r)] \in {"mkdir", "run"}
      BY <1>1, <2>1, <2>3
    <3>2. pc[r] # "none"
      BY <1>0, <3>1 DEF Listed
    <3> QED
      BY <1>1, <2>1, <3>2
  <2> QED
    BY <2>2, <2>3
<1>7. Reached'
  <2> SUFFICES ASSUME NEW q \in Path, NEW r \in Path, Above(q, r), pc'[q] = "done",
                      src[r] # "none", Visible(r)
               PROVE  pc'[r] = "done"
    BY <1>1 DEF Reached, Visible, Above
  <2>1. pc[q] = "done"
    BY <1>1
  <2>2. pc[r] = "done"
    BY <1>0, <2>1 DEF Reached
  <2> QED
    BY <1>1, <1>2, <2>2
<1>8. Filled' /\ DirMade'
  BY <1>0, <1>1 DEF Filled, DirMade
<1>9. Torn' /\ Opened'
  BY <1>0, <1>1, <1>2 DEF Torn, Opened
<1>10. Same'
  BY <1>0, <1>1 DEF Same
<1> QED
  BY <1>3, <1>4, <1>5, <1>6, <1>7, <1>8, <1>9, <1>10 DEF Trees

LEMMA TreesRemove ==
  ASSUME Inv, NEW f \in Path, RemoveSource(f)
  PROVE  Trees'
<1>0. /\ Types /\ SrcTree /\ DstTree /\ Kinds /\ Listed /\ Reached /\ Filled
      /\ DirMade /\ Torn /\ Opened /\ Same
  BY DEF Inv, Trees
<1>1. /\ src[f] = "new" /\ src' = [src EXCEPT ![f] = "none"] /\ edits < MaxEdits /\ edits' = edits + 1
      /\ dst' = dst /\ dryRun' = dryRun /\ concurrency' = concurrency
      /\ pc' = pc /\ faults' = faults /\ dst0' = dst0
  BY DEF RemoveSource, opts
<1>2. \A p \in Path : src'[p] = IF p = f THEN "none" ELSE src[p]
  BY <1>0, <1>1 DEF Types
<1>3. Types' /\ DstTree'
  BY <1>0, <1>1, TreeAssumption DEF Types, DstTree, Entry
<1>4. SrcTree'
  BY <1>0, <1>1, <1>2 DEF SrcTree, Above
<1>5. Kinds'
  BY <1>0, <1>1, <1>2 DEF Kinds
<1>6. Listed'
  <2>1. \A p \in Entry : p \in Path
    BY Order
  <2> QED
    BY <1>0, <1>1, <1>2, <2>1 DEF Listed, IsIgnored
<1>7. Reached'
  BY <1>0, <1>1, <1>2 DEF Reached, Visible, Above
<1>8. Filled' /\ DirMade' /\ Torn' /\ Opened' /\ Same'
  BY <1>0, <1>1, <1>2 DEF Filled, DirMade, Torn, Opened, Same
<1> QED
  BY <1>3, <1>4, <1>5, <1>6, <1>7, <1>8 DEF Trees

LEMMA InitInv == Init => Inv
<1> SUFFICES ASSUME Init PROVE Inv
  OBVIOUS
<1>1. PICK t \in Calls : src = t.src /\ dst = t.dst /\ concurrency = t.concurrency /\ dryRun = t.dryRun
  BY DEF Init
<1>2. /\ concurrency \in Int /\ dryRun \in BOOLEAN
      /\ src \in [Path -> {"none", "dir", "new"}] /\ dst \in [Path -> {"none", "dir", "old"}]
      /\ \A s \in {src, dst}, p \in Entry, q \in Path : s[p] # "none" /\ Above(q, p) => s[q] = "dir"
      /\ MaxEdits \in Nat /\ MaxFaults \in Nat
  BY <1>1, TreeAssumption
<1>3. /\ dst0 = dst /\ edits = 0 /\ faults = 0
      /\ pc \in [Path -> Control]
      /\ \A p \in Path : pc[p] = IF p = Root THEN "stat" ELSE "none"
  BY DEF Init, Control
<1>4. \A q, p \in Path : Above(q, p) => p \in Entry /\ pc[p] = "none"
  BY <1>3, Order DEF Entry
<1>5. Calling
  <2>1. pc[Root] = "stat"
    BY <1>3, RootPath
  <2>2. Low /\ Mid /\ Up
    BY <1>4 DEF Low, Mid, Up
  <2>3. Inside
    BY <1>3 DEF Inside, Entry
  <2>4. Seen
    BY <1>3, Seeing DEF Seen
  <2> QED
    BY <1>3, <2>1, <2>2, <2>3, <2>4 DEF Calling
<1>6. Types
  BY <1>2, <1>3 DEF Types
<1>7. SrcTree /\ DstTree
  <2>1. SrcTree
    BY <1>2, <1>4 DEF SrcTree
  <2>2. DstTree
    BY <1>2, Order DEF DstTree
  <2> QED
    BY <2>1, <2>2
<1>8. Listed
  BY <1>3, Order DEF Listed
<1>9. Kinds /\ Reached /\ Filled /\ DirMade /\ Opened
  BY <1>3 DEF Kinds, Reached, Filled, DirMade, Opened
<1>10. Torn
  BY <1>2 DEF Torn
<1>11. Same
  BY <1>3 DEF Same
<1> QED
  BY <1>5, <1>6, <1>7, <1>8, <1>9, <1>10, <1>11 DEF Inv, Trees

LEMMA NextInv == Inv /\ [Next]_vars => Inv'
<1> SUFFICES ASSUME Inv, [Next]_vars PROVE Inv'
  OBVIOUS
<1>1. CASE UNCHANGED vars
  <2>1. Calling'
    BY <1>1 DEF vars, Inv, Calling, Low, Mid, Up, Inside, Seen, Above, Visible
  <2>2. Types' /\ SrcTree' /\ DstTree' /\ Kinds' /\ Listed'
    BY <1>1 DEF vars, opts, Inv, Trees, Types, SrcTree, DstTree, Kinds, Listed, Above, IsIgnored
  <2>3. Reached' /\ Filled' /\ DirMade' /\ Torn' /\ Opened' /\ Same'
    BY <1>1 DEF vars, opts, Inv, Trees, Reached, Filled, DirMade, Torn, Opened, Same, Above, Visible
  <2> QED
    BY <2>1, <2>2, <2>3 DEF Inv, Trees
<1>2. ASSUME NEW p \in Path, (Step(p) /\ ~ListSource(p)) \/ Fault(p) PROVE Inv'
  <2>1. PICK x \in Control, y \in {"none", "dir", "old", "new", "torn"} : Moves(p, x, y)
    BY <1>2, StepMoves
  <2>2. Goes(p, x) /\ pc' = [pc EXCEPT ![p] = x]
    BY <2>1 DEF Moves
  <2>3. Calling
    BY DEF Inv
  <2>4. Calling'
    BY <2>2, <2>3, CallingGoes
  <2>5. Trees'
    BY <2>1, TreesMove
  <2> QED
    BY <2>4, <2>5 DEF Inv
<1>3. ASSUME NEW p \in Path, ListSource(p) PROVE Inv'
  <2>1. Calling
    BY DEF Inv
  <2> QED
    BY <1>3, <2>1, CallingLists, TreesList DEF Inv
<1>4. ASSUME NEW p \in Path, RemoveSource(p) PROVE Inv'
  <2>1. pc' = pc
    BY <1>4 DEF RemoveSource
  <2>2. Calling'
    BY <2>1 DEF Inv, Calling, Low, Mid, Up, Inside, Seen, Above, Visible
  <2> QED
    BY <1>4, <2>2, TreesRemove DEF Inv
<1> QED
  BY <1>1, <1>2, <1>3, <1>4 DEF Next, Terminated

\* The calls of Transfer under way and the two trees stay in step.
THEOREM InvCorrect == Spec => []Inv
<1> QED
  BY InitInv, NextInv, PTL DEF Spec

\* A task runs inside the RunAll of the directory it is an entry of, what a call
\* that returned nil covers returned nil, and the destination stays a tree.
THEOREM TypeCorrect == Spec => []TypeOK
<1>1. Inv => TypeOK
  <2> SUFFICES ASSUME Inv PROVE TypeOK
    OBVIOUS
  <2>1. \A p \in Entry : p \in Path /\ Front(p) \in Path /\ Above(Front(p), p)
    BY Order
  <2>2. Types /\ DstTree /\ Calling
    BY DEF Inv, Trees
  <2>3. Up /\ Inside
    BY <2>2 DEF Calling
  <2>4. \A p \in Entry : pc[Front(p)] = "done" => pc[p] \in {"none", "done"}
    BY <2>1, <2>3 DEF Up
  <2> QED
    BY <2>2, <2>3, <2>4 DEF TypeOK, Types, DstTree, Calling, Inside
<1> QED
  BY <1>1, InvCorrect, PTL

\* When Transfer of a tree returns nil, every file still in the source and not
\* ignored at any level is in the destination.
THEOREM ArrivedCorrect == Spec => []Arrived
<1>1. Inv => Arrived
  <2> SUFFICES ASSUME Inv, pc[Root] = "done", ~dryRun,
                      NEW p \in Entry, src[p] = "new", Visible(p)
               PROVE  dst[p] = "new"
    BY DEF Arrived
  <2>1. p \in Path /\ Root \in Path /\ Above(Root, p)
    BY Order, RootPath
  <2>2. pc[p] = "done"
    BY <2>1 DEF Inv, Trees, Reached
  <2> QED
    BY <2>1, <2>2 DEF Inv, Trees, Filled
<1> QED
  BY <1>1, InvCorrect, PTL

\* Transfer changes the destination only where a visible source entry went, in a
\* dry run nowhere, and no call above a target that is not whole returns nil.
THEOREM ConfinedCorrect == Spec => []Confined
<1>1. Inv => Confined
  <2> SUFFICES ASSUME Inv, NEW p \in Path
               PROVE  /\ dst[p] # dst0[p] => ~dryRun /\ Visible(p) /\ pc[p] # "none"
                      /\ dst[p] = "torn" =>
                           \/ pc[p] = "copy"
                           \/ pc[p] = "failed" /\ \A q \in Path : IsPrefix(q, p) => pc[q] # "done"
    BY DEF Confined
  <2>1. dst[p] # dst0[p] => ~dryRun /\ Visible(p) /\ pc[p] # "none"
    BY DEF Inv, Trees, Same, Calling, Seen
  <2>2. dst[p] = "torn" => pc[p] \in {"copy", "failed"}
    BY DEF Inv, Trees, Torn
  <2>3. ASSUME pc[p] = "failed", NEW q \in Path, IsPrefix(q, p) PROVE pc[q] # "done"
    <3>1. q = p \/ Above(q, p)
      BY <2>3 DEF Above
    <3> QED
      BY <2>3, <3>1 DEF Inv, Calling, Up
  <2> QED
    BY <2>1, <2>2, <2>3
<1> QED
  BY <1>1, InvCorrect, PTL

--------------------------------------------------------------------------------
(***************************************************************************)
(* The limit on the files open at once, by induction over the levels of    *)
(* the tree.                                                               *)
(***************************************************************************)
LEMMA Induction ==
  ASSUME NEW S, 0 \in S, \A n \in Nat : n \in S => n + 1 \in S
  PROVE  Nat \subseteq S
<1> SUFFICES ASSUME NEW m \in Nat, m \notin S PROVE FALSE
  OBVIOUS
<1> DEFINE below(n) == 0 .. n - 1
           T == {below(n) : n \in Nat \ S}
<1>1. \A n \in Nat : IsFiniteSet(below(n))
  BY FS_Interval
<1>2. IsWellFoundedOn(StrictSubsetOrdering(Nat), FiniteSubsetsOf(Nat))
  BY FS_StrictSubsetOrderingWellFounded
<1>3. T \subseteq FiniteSubsetsOf(Nat) /\ T # {}
  BY <1>1 DEF FiniteSubsetsOf
<1>4. PICK X \in T : \A Y \in T : ~ (<<Y, X>> \in StrictSubsetOrdering(Nat))
  <2> HIDE DEF T
  <2> QED
    BY <1>2, <1>3, WFMin
<1>5. PICK n \in Nat \ S : X = below(n)
  BY <1>4
<1>6. n # 0 /\ n - 1 \in Nat /\ n - 1 + 1 = n
  OBVIOUS
<1>7. n - 1 \notin S
  BY <1>6
<1>8. below(n - 1) \in T
  BY <1>6, <1>7
<1>9. <<below(n - 1), below(n)>> \in StrictSubsetOrdering(Nat)
  <2>1. below(n - 1) \in SUBSET Nat /\ below(n) \in SUBSET Nat /\ below(n - 1) \subseteq below(n)
    BY <1>6
  <2>2. n - 1 \in below(n) /\ n - 1 \notin below(n - 1)
    BY <1>6
  <2>3. below(n - 1) # below(n)
    BY <2>2
  <2> HIDE DEF below
  <2> QED
    BY <2>1, <2>3 DEF StrictSubsetOrdering
<1> QED
  BY <1>4, <1>5, <1>8, <1>9

LEMMA CapacityType == concurrency \in Int => Capacity \in Nat \ {0}
BY DEF Capacity

\* The elements of a set of at most c members can be told by numbers up to c.
LEMMA Numbered ==
  ASSUME NEW S, IsFiniteSet(S), NEW c \in Nat, Cardinality(S) <= c
  PROVE  \E g \in [S -> 1 .. c] : \A x, y \in S : g[x] = g[y] => x = y
<1>1. Cardinality(S) \in Nat /\ ExistsBijection(1 .. Cardinality(S), S)
  BY FS_CardinalityType
<1>2. PICK f \in [1 .. Cardinality(S) -> S] : \A x \in S : \E i \in 1 .. Cardinality(S) : f[i] = x
  BY <1>1 DEF ExistsBijection, Bijection, Surjection
<1> DEFINE g == [x \in S |-> CHOOSE i \in 1 .. Cardinality(S) : f[i] = x]
<1>3. \A x \in S : g[x] \in 1 .. Cardinality(S) /\ f[g[x]] = x
  BY <1>2
<1>4. g \in [S -> 1 .. c]
  BY <1>1, <1>3
<1> HIDE DEF g
<1> QED
  BY <1>3, <1>4

LEMMA WordsFinite ==
  ASSUME NEW n \in Nat, NEW c \in Nat
  PROVE  IsFiniteSet([1 .. n -> 1 .. c])
<1> DEFINE W == [1 .. n -> 1 .. c]
           P == (1 .. n) \X (1 .. c)
           graph == [w \in W |-> {<<i, w[i]>> : i \in 1 .. n}]
<1>1. IsFiniteSet(1 .. n) /\ IsFiniteSet(1 .. c)
  BY FS_Interval
<1>2. IsFiniteSet(P)
  BY <1>1, FS_Product
<1>3. IsFiniteSet(SUBSET P)
  BY <1>2, FS_SUBSET
<1>4. graph \in [W -> SUBSET P]
  OBVIOUS
<1>5. ASSUME NEW v \in W, NEW w \in W, graph[v] = graph[w] PROVE v = w
  <2>1. ASSUME NEW i \in 1 .. n PROVE v[i] = w[i]
    <3>1. <<i, v[i]>> \in graph[w]
      BY <1>5
    <3>2. PICK j \in 1 .. n : <<i, v[i]>> = <<j, w[j]>>
      BY <3>1
    <3> QED
      BY <3>2
  <2> QED
    BY <2>1
<1>6. graph \in Injection(W, SUBSET P)
  <2> HIDE DEF W, P
  <2>1. DOMAIN graph = W
    BY <1>4
  <2> HIDE DEF graph
  <2> QED
    BY <1>4, <1>5, <2>1 DEF Injection, IsInjective
<1> HIDE DEF W, P, graph
<1>7. IsFiniteSet(W)
  BY <1>3, <1>6, FS_Injection
<1> QED
  BY <1>7 DEF W

\* No directory has more tasks under way than its Scheduler has tokens.
Tokens == \A d \in Path : IsFiniteSet(Started(d)) /\ Cardinality(Started(d)) <= Capacity

LEMMA TokensInit == Init => Tokens
<1> SUFFICES ASSUME Init, NEW d \in Path
             PROVE  IsFiniteSet(Started(d)) /\ Cardinality(Started(d)) <= Capacity
  BY DEF Tokens
<1>1. Started(d) = {}
  BY Order DEF Init, Started, Kids, Entry
<1>2. Capacity \in Nat
  BY InitInv, CapacityType DEF Inv, Trees, Types
<1> QED
  BY <1>1, <1>2, FS_EmptySet

LEMMA TokensNext == Inv /\ Tokens /\ [Next]_vars => Tokens'
<1> SUFFICES ASSUME Inv, Tokens, [Next]_vars, NEW d \in Path
             PROVE  IsFiniteSet(Started(d)') /\ Cardinality(Started(d)') <= Capacity'
  BY DEF Tokens
<1> DEFINE Idle == {"none", "waiting"} \cup Ended
<1>1. /\ IsFiniteSet(Started(d)) /\ Cardinality(Started(d)) <= Capacity
      /\ Cardinality(Started(d)) \in Nat /\ Capacity \in Nat
      /\ \A k \in Kids(d) : k \in Path /\ Front(k) = d
  BY FS_CardinalityType, CapacityType, KidsAre DEF Tokens, Inv, Trees, Types
<1>2. ASSUME Started(d)' \subseteq Started(d), Capacity' = Capacity
      PROVE  IsFiniteSet(Started(d)') /\ Cardinality(Started(d)') <= Capacity'
  BY <1>1, <1>2, FS_Subset, FS_CardinalityType
<1>3. \A p \in Path : p \in Started(d)' <=> p \in Kids(d) /\ pc'[p] \notin Idle
  BY DEF Started, Kids
<1>4. \A p \in Path : p \in Started(d) <=> p \in Kids(d) /\ pc[p] \notin Idle
  BY DEF Started
<1>5. Started(d)' \subseteq Path
  BY <1>1 DEF Started, Kids
<1>6. CASE UNCHANGED vars
  BY <1>2, <1>3, <1>4, <1>5, <1>6 DEF vars, opts, Capacity
<1>7. ASSUME NEW p \in Path, Start(p)
      PROVE  IsFiniteSet(Started(d)') /\ Cardinality(Started(d)') <= Capacity'
  <2>1. /\ pc' = [pc EXCEPT ![p] = "stat"] /\ pc \in [Path -> Control] /\ pc[p] = "waiting"
        /\ Capacity' = Capacity /\ MayStart(p)
    BY <1>7 DEF Start, opts, Capacity, Inv, Calling
  <2>2. CASE p \in Kids(d)
    <3>1. Started(d)' = Started(d) \cup {p} /\ p \notin Started(d)
      BY <1>3, <1>4, <1>5, <2>1, <2>2 DEF Ended, Started
    <3>2. Cardinality(Started(d)) < Capacity
      BY <1>1, <2>1, <2>2 DEF MayStart
    <3>3. /\ IsFiniteSet(Started(d) \cup {p})
          /\ Cardinality(Started(d) \cup {p}) = Cardinality(Started(d)) + 1
      BY <1>1, <3>1, FS_AddElement
    <3>4. Cardinality(Started(d)) + 1 <= Capacity
      BY <1>1, <3>2
    <3> QED
      BY <2>1, <3>1, <3>3, <3>4
  <2>3. CASE p \notin Kids(d)
    <3>1. Started(d)' \subseteq Started(d)
      BY <1>3, <1>4, <1>5, <2>1, <2>3
    <3> QED
      BY <1>2, <2>1, <3>1
  <2> QED
    BY <2>2, <2>3
<1>8. ASSUME NEW p \in Path, (Step(p) /\ ~ListSource(p) /\ ~Start(p)) \/ Fault(p)
      PROVE  IsFiniteSet(Started(d)') /\ Cardinality(Started(d)') <= Capacity'
  <2>1. PICK x \in Control, y \in {"none", "dir", "old", "new", "torn"} : Moves(p, x, y)
    BY <1>8, StepMoves
  <2>2. pc[p] # "waiting"
    BY <1>8 DEF Step, Fault, StatSource, MakeDestination, OpenTarget, CloseTarget, Return
  <2>3. pc' = [pc EXCEPT ![p] = x] /\ Goes(p, x) /\ pc \in [Path -> Control] /\ Capacity' = Capacity
    BY <2>1 DEF Moves, Inv, Calling, opts, Capacity
  <2>4. pc[p] \notin Idle
    BY <2>2, <2>3 DEF Goes, Ended
  <2>5. Started(d)' \subseteq Started(d)
    BY <1>3, <1>4, <1>5, <2>3, <2>4
  <2> QED
    BY <1>2, <2>3, <2>5
<1>9. ASSUME NEW p \in Path, ListSource(p)
      PROVE  IsFiniteSet(Started(d)') /\ Cardinality(Started(d)') <= Capacity'
  <2>1. /\ pc[p] = "list" /\ Capacity' = Capacity
        /\ \A q \in Path : pc'[q] = IF q = p THEN "mkdir" ELSE IF q \in Tasks(p) THEN "waiting" ELSE pc[q]
    BY <1>9 DEF ListSource, opts, Capacity
  <2>2. Started(d)' \subseteq Started(d)
    BY <1>3, <1>4, <1>5, <2>1 DEF Ended
  <2> QED
    BY <1>2, <2>1, <2>2
<1>10. ASSUME NEW p \in Path, RemoveSource(p)
       PROVE  IsFiniteSet(Started(d)') /\ Cardinality(Started(d)') <= Capacity'
  <2>1. pc' = pc /\ Capacity' = Capacity
    BY <1>10 DEF RemoveSource, opts, Capacity
  <2> QED
    BY <1>2, <1>3, <1>4, <1>5, <2>1
<1> QED
  BY <1>6, <1>7, <1>8, <1>9, <1>10 DEF Next, Terminated

\* The calls at level n that have begun and not ended, and the copies above it.
Level(n) ==
  {p \in Path : IF Len(p) = n THEN pc[p] \notin {"none", "waiting"} \cup Ended
                              ELSE Len(p) < n /\ pc[p] = "copy"}

Coded(n) ==
  \E h \in [Level(n) -> [1 .. n -> 1 .. Capacity]] : \A p, q \in Level(n) : h[p] = h[q] => p = q

LEMMA CodedRoot == ASSUME Inv PROVE Coded(0)
<1>1. \A p \in Level(0) : p = Root
  <2>1. \A p \in Path : Len(p) \in Nat /\ (p # Root => Len(p) # 0)
    BY EntryFacts, PathType DEF Entry
  <2> QED
    BY <2>1 DEF Level
<1> DEFINE none == [i \in 1 .. 0 |-> 1]
           h == [p \in Level(0) |-> none]
<1>2. none \in [1 .. 0 -> 1 .. Capacity]
  OBVIOUS
<1>3. h \in [Level(0) -> [1 .. 0 -> 1 .. Capacity]]
  BY <1>2
<1> QED
  BY <1>1, <1>3 DEF Coded

\* A call is told by the code of the one above it and a token of that one's Scheduler.
LEMMA CodedBelow ==
  ASSUME Inv, Tokens, NEW n \in Nat, Coded(n)
  PROVE  Coded(n + 1)
<1>1. PICK h \in [Level(n) -> [1 .. n -> 1 .. Capacity]] :
        \A p, q \in Level(n) : h[p] = h[q] => p = q
  BY DEF Coded
<1>2. Capacity \in Nat \ {0}
  BY CapacityType DEF Inv, Trees, Types
<1> DEFINE Good(d, g) == /\ g \in [Started(d) -> 1 .. Capacity]
                         /\ \A x, y \in Started(d) : g[x] = g[y] => x = y
           code(d) == CHOOSE g : Good(d, g)
           last(p) == IF Len(p) = n + 1 THEN code(Front(p))[p] ELSE 1
           up(p) == IF Len(p) = n + 1 THEN Front(p) ELSE p
           k == [p \in Level(n + 1) |-> [i \in 1 .. n + 1 |-> IF i <= n THEN h[up(p)][i] ELSE last(p)]]
<1>3. ASSUME NEW d \in Path PROVE Good(d, code(d))
  <2>1. IsFiniteSet(Started(d)) /\ Cardinality(Started(d)) <= Capacity
    BY DEF Tokens
  <2>2. \E g \in [Started(d) -> 1 .. Capacity] : \A x, y \in Started(d) : g[x] = g[y] => x = y
    BY <1>2, <2>1, Numbered
  <2>3. \E g : Good(d, g)
    BY <2>2
  <2> HIDE DEF Good
  <2> QED
    BY <2>3
<1>4. ASSUME NEW p \in Level(n + 1)
      PROVE  /\ up(p) \in Level(n)
             /\ Len(p) = n + 1 => /\ p \in Path /\ Front(p) \in Path /\ pc[Front(p)] = "run"
                                  /\ p \in Started(Front(p)) /\ Front(p) = up(p)
             /\ Len(p) # n + 1 => pc[p] = "copy" /\ up(p) = p
  <2>1. p \in Path /\ Len(p) \in Nat
    BY PathType DEF Level
  <2>2. CASE Len(p) = n + 1
    <3>1. p \in Entry
      BY <2>1, <2>2 DEF Entry, Root
    <3>2. Front(p) \in Path /\ Len(Front(p)) = n
      BY <2>2, <3>1, EntryFacts
    <3>3. pc[p] \notin {"none", "waiting"} \cup Ended
      BY <2>2 DEF Level
    <3>4. pc[Front(p)] = "run"
      BY <3>1, <3>3 DEF Inv, Calling, Inside
    <3>5. Front(p) \in Level(n)
      BY <3>2, <3>4 DEF Level, Ended
    <3>6. p \in Started(Front(p))
      BY <3>1, <3>3 DEF Started, Kids
    <3> QED
      BY <2>1, <2>2, <3>2, <3>4, <3>5, <3>6
  <2>3. CASE Len(p) # n + 1
    <3>1. Len(p) < n + 1 /\ pc[p] = "copy"
      BY <2>3 DEF Level
    <3>2. p \in Level(n)
      BY <2>1, <3>1 DEF Level, Ended
    <3> QED
      BY <2>3, <3>1, <3>2
  <2> QED
    BY <2>2, <2>3
<1>5. ASSUME NEW p \in Level(n + 1) PROVE last(p) \in 1 .. Capacity
  <2>1. CASE Len(p) = n + 1
    <3>1. Good(Front(p), code(Front(p))) /\ p \in Started(Front(p))
      BY <1>3, <1>4, <2>1
    <3> HIDE DEF code
    <3> QED
      BY <2>1, <3>1
  <2>2. CASE Len(p) # n + 1
    BY <1>2, <2>2
  <2> QED
    BY <2>1, <2>2
<1>6. k \in [Level(n + 1) -> [1 .. n + 1 -> 1 .. Capacity]]
  <2> SUFFICES ASSUME NEW p \in Level(n + 1), NEW i \in 1 .. n + 1
               PROVE  (IF i <= n THEN h[up(p)][i] ELSE last(p)) \in 1 .. Capacity
    OBVIOUS
  <2>1. up(p) \in Level(n) /\ last(p) \in 1 .. Capacity
    BY <1>4, <1>5
  <2> HIDE DEF up, last
  <2>2. h[up(p)] \in [1 .. n -> 1 .. Capacity]
    BY <2>1
  <2>3. i <= n => i \in 1 .. n
    OBVIOUS
  <2> QED
    BY <2>1, <2>2, <2>3
<1>7. ASSUME NEW p \in Level(n + 1), NEW q \in Level(n + 1), k[p] = k[q] PROVE p = q
  <2>0. \A r \in Level(n + 1) :
          k[r] = [i \in 1 .. n + 1 |-> IF i <= n THEN h[up(r)][i] ELSE last(r)]
    OBVIOUS
  <2>1. up(p) \in Level(n) /\ up(q) \in Level(n)
    BY <1>4
  <2>2. ASSUME NEW i \in 1 .. n + 1
        PROVE  (IF i <= n THEN h[up(p)][i] ELSE last(p)) = (IF i <= n THEN h[up(q)][i] ELSE last(q))
    <3>1. k[p][i] = k[q][i]
      BY <1>7
    <3> HIDE DEF up, last
    <3> QED
      BY <2>0, <3>1
  <2>3. last(p) = last(q)
    <3>1. n + 1 \in 1 .. n + 1 /\ ~(n + 1 <= n)
      OBVIOUS
    <3> HIDE DEF last
    <3> QED
      BY <2>2, <3>1
  <2>4. up(p) = up(q)
    <3> HIDE DEF up, last
    <3>1. h[up(p)] \in [1 .. n -> 1 .. Capacity] /\ h[up(q)] \in [1 .. n -> 1 .. Capacity]
      BY <2>1
    <3>2. \A i \in 1 .. n : i \in 1 .. n + 1 /\ i <= n
      OBVIOUS
    <3>3. \A i \in 1 .. n : h[up(p)][i] = h[up(q)][i]
      BY <2>2, <3>2
    <3>4. h[up(p)] = h[up(q)]
      BY <3>1, <3>3
    <3> QED
      BY <1>1, <2>1, <3>4
  <2>5. CASE Len(p) = n + 1 /\ Len(q) = n + 1
    <3>1. Front(p) = Front(q) /\ p \in Started(Front(p)) /\ q \in Started(Front(p)) /\ Front(p) \in Path
      BY <1>4, <2>4, <2>5
    <3>2. code(Front(p))[p] = code(Front(p))[q]
      <4> HIDE DEF code
      <4> QED
        BY <2>3, <2>5, <3>1
    <3>3. Good(Front(p), code(Front(p)))
      BY <1>3, <3>1
    <3> HIDE DEF code
    <3> QED
      BY <3>1, <3>2, <3>3
  <2>6. CASE ~(Len(p) = n + 1 /\ Len(q) = n + 1)
    <3> HIDE DEF up
    <3> QED
      BY <1>4, <2>4, <2>6
  <2> QED
    BY <2>5, <2>6
<1> HIDE DEF k
<1> QED
  BY <1>6, <1>7 DEF Coded

\* However deep the tree is and whatever its directories hold, the nested Schedulers
\* let no more than Capacity to the power of Depth files be open for writing at once.
THEOREM CopiesBoundedCorrect == Spec => []CopiesBounded
<1>1. Inv /\ Tokens => CopiesBounded
  <2> SUFFICES ASSUME Inv, Tokens PROVE CopiesBounded
    OBVIOUS
  <2>1. Nat \subseteq {n \in Nat : Coded(n)}
    <3> DEFINE S == {n \in Nat : Coded(n)}
    <3>1. 0 \in S
      BY CodedRoot
    <3>2. \A n \in Nat : n \in S => n + 1 \in S
      BY CodedBelow
    <3> HIDE DEF S
    <3>3. Nat \subseteq S
      BY <3>1, <3>2, Induction
    <3> QED
      BY <3>3 DEF S
  <2>2. Depth \in Nat /\ Capacity \in Nat
    BY CapacityType, TreeAssumption DEF Inv, Trees, Types
  <2> DEFINE W == [1 .. Depth -> 1 .. Capacity]
  <2>3. PICK h \in [Level(Depth) -> W] : \A p, q \in Level(Depth) : h[p] = h[q] => p = q
    BY <2>1, <2>2 DEF Coded
  <2>4. IsFiniteSet(W)
    BY <2>2, WordsFinite
  <2> HIDE DEF W
  <2>5. h \in Injection(Level(Depth), W)
    BY <2>3 DEF Injection, IsInjective
  <2>6. IsFiniteSet(Level(Depth)) /\ Cardinality(Level(Depth)) <= Cardinality(W)
    BY <2>4, <2>5, FS_Injection
  <2>7. Copying \subseteq Level(Depth)
    BY <2>2, PathType DEF Copying, Level, Ended
  <2>8. IsFiniteSet(Copying) /\ Cardinality(Copying) <= Cardinality(Level(Depth))
    BY <2>6, <2>7, FS_Subset
  <2>9. /\ Cardinality(Copying) \in Nat /\ Cardinality(Level(Depth)) \in Nat
        /\ Cardinality(W) \in Nat
    BY <2>4, <2>6, <2>8, FS_CardinalityType
  <2>10. Cardinality(Copying) <= Cardinality(W)
    BY <2>6, <2>8, <2>9
  <2> QED
    BY <2>10 DEF CopiesBounded, W
<1>2. Spec => [](Inv /\ Tokens)
  <2>1. Init => Tokens
    BY TokensInit
  <2>2. Inv /\ Tokens /\ [Next]_vars => Tokens'
    BY TokensNext
  <2> QED
    BY <2>1, <2>2, InvCorrect, PTL DEF Spec
<1> QED
  BY <1>1, <1>2, PTL
================================================================================

----------------------------- MODULE SyncDirProofs -----------------------------
(***************************************************************************)
(* Proofs about SyncDir, for any options, trees of any depth with any      *)
(* names, any number of calls of Sync one after the other and of failed    *)
(* operations.                                                             *)
(***************************************************************************)
EXTENDS SyncDir, FiniteSetTheorems, TLAPS

--------------------------------------------------------------------------------
(***************************************************************************)
(* Paths.                                                                  *)
(***************************************************************************)
LEMMA PathType ==
  ASSUME NEW p \in Path
  PROVE  p \in Seq(Name) /\ Len(p) \in 0 .. Depth /\ p \in [1 .. Len(p) -> Name]
BY SyncAssumption DEF Path

LEMMA PathIs ==
  ASSUME NEW p \in Seq(Name), Len(p) <= Depth
  PROVE  p \in Path
<1>1. p \in [1 .. Len(p) -> Name] /\ Len(p) \in 0 .. Depth
  BY SyncAssumption
<1> QED
  BY <1>1 DEF Path

LEMMA RootPath == Root \in Path /\ Root \in Inner /\ Len(Root) = 0
<1>1. Root \in Seq(Name) /\ Len(Root) = 0 /\ 0 < Depth /\ 0 <= Depth
  BY SyncAssumption DEF Root
<1>2. Root \in Path
  BY <1>1, PathIs
<1> QED
  BY <1>1, <1>2 DEF Inner

LEMMA PrefixIs ==
  ASSUME NEW q \in Path, NEW p \in Path
  PROVE  /\ IsPrefix(q, p) <=> Len(q) <= Len(p) /\ \A i \in 1 .. Len(q) : q[i] = p[i]
         /\ q = p <=> Len(q) = Len(p) /\ \A i \in 1 .. Len(q) : q[i] = p[i]
<1>1. q \in Seq(Name) /\ p \in Seq(Name) /\ Len(q) \in Nat /\ Len(p) \in Nat
  BY PathType
<1> QED
  BY <1>1 DEF IsPrefix

LEMMA ChildIs ==
  ASSUME NEW d \in Inner, NEW n \in Name
  PROVE  LET k == Append(d, n)
         IN /\ k \in Path /\ k \in Entry /\ d \in Path /\ Len(d) \in Nat /\ Len(k) = Len(d) + 1
            /\ k[Len(d) + 1] = n /\ \A i \in 1 .. Len(d) : k[i] = d[i]
            /\ DOMAIN k = 1 .. Len(d) + 1
            /\ Front(k) = d
<1> DEFINE k == Append(d, n)
<1>1. d \in Path /\ d \in Seq(Name) /\ Len(d) \in Nat /\ Len(d) < Depth
  BY PathType DEF Inner
<1>2. /\ k \in Seq(Name) /\ Len(k) = Len(d) + 1 /\ k[Len(d) + 1] = n
      /\ \A i \in 1 .. Len(d) : k[i] = d[i]
      /\ DOMAIN k = 1 .. Len(d) + 1
  BY <1>1
<1>3. SubSeq(k, 1, Len(d)) = d
  BY <1>1
<1> HIDE DEF k
<1>4. k \in Path
  BY <1>1, <1>2, PathIs, SyncAssumption
<1>5. k \in Entry
  BY <1>1, <1>2, <1>4, RootPath DEF Entry
<1>6. Front(k) = d
  BY <1>1, <1>2, <1>3 DEF Front
<1> QED
  BY <1>1, <1>2, <1>4, <1>5, <1>6 DEF k

LEMMA FrontIs ==
  ASSUME NEW p \in Entry
  PROVE  /\ p \in Path /\ Front(p) \in Inner
         /\ \E n \in Name : p = Append(Front(p), n)
<1> DEFINE m == Len(p) - 1
<1>1. p \in Path /\ p \in Seq(Name) /\ Len(p) \in 0 .. Depth /\ p # <<>>
  BY PathType DEF Entry, Root
<1>2. m \in Nat /\ m < Len(p) /\ Len(p) = m + 1 /\ m < Depth /\ Len(p) \in Nat
  BY <1>1, SyncAssumption
<1> HIDE DEF m
<1>3. SubSeq(p, 1, m) \in Seq(Name) /\ Len(SubSeq(p, 1, m)) = m
  BY <1>1, <1>2
<1>4. Front(p) = SubSeq(p, 1, m)
  BY DEF Front, m
<1>5. Front(p) \in Inner
  <2>1. Front(p) \in Seq(Name) /\ Len(Front(p)) = m /\ m <= Depth
    BY <1>2, <1>3, <1>4, SyncAssumption
  <2>2. Front(p) \in Path
    BY <2>1, PathIs
  <2> QED
    BY <1>2, <2>1, <2>2 DEF Inner
<1>6. p[m + 1] \in Name
  BY <1>1, <1>2
<1>7. p = Append(SubSeq(p, 1, m), p[m + 1])
  BY <1>1, <1>2
<1> QED
  BY <1>1, <1>4, <1>5, <1>6, <1>7

\* The order of paths, without their representation.
LEMMA Order ==
  /\ \A p \in Path : IsPrefix(p, p) /\ IsPrefix(Root, p)
  /\ \A r, q, p \in Path : IsPrefix(r, q) /\ IsPrefix(q, p) => IsPrefix(r, p)
  /\ \A q, p \in Path : IsPrefix(q, p) /\ IsPrefix(p, q) => p = q
  /\ \A p \in Path : p \in Inner \/ p \notin Inner
  /\ \A q, p \in Path : IsPrefix(q, p) /\ p \in Inner => q \in Inner
  /\ \A q, p \in Path : IsPrefix(q, p) /\ q \in Entry => p \in Entry
  /\ \A q \in Path : IsPrefix(q, Root) => q = Root
<1>1. \A p \in Path : Len(p) \in Nat
  BY PathType
<1>2. \A q, p \in Path : IsPrefix(q, p) /\ p \in Inner => q \in Inner
  <2> SUFFICES ASSUME NEW q \in Path, NEW p \in Path, IsPrefix(q, p), p \in Inner PROVE q \in Inner
    OBVIOUS
  <2>1. Len(q) <= Len(p) /\ Len(p) < Depth /\ Len(q) \in Nat /\ Len(p) \in Nat /\ Depth \in Nat
    BY <1>1, PrefixIs, SyncAssumption DEF Inner
  <2> QED
    BY <2>1 DEF Inner
<1>3. \A q \in Path : IsPrefix(q, Root) => q = Root
  BY <1>1, PrefixIs, RootPath
<1>4. \A q, p \in Path : IsPrefix(q, p) /\ q \in Entry => p \in Entry
  BY <1>3 DEF Entry
<1>5. \A p \in Path : IsPrefix(p, p) /\ IsPrefix(Root, p)
  BY <1>1, PrefixIs, RootPath
<1>6. \A r, q, p \in Path : IsPrefix(r, q) /\ IsPrefix(q, p) => IsPrefix(r, p)
  <2> SUFFICES ASSUME NEW r \in Path, NEW q \in Path, NEW p \in Path, IsPrefix(r, q), IsPrefix(q, p)
               PROVE  IsPrefix(r, p)
    OBVIOUS
  <2>1. /\ Len(r) \in Nat /\ Len(q) \in Nat /\ Len(p) \in Nat
        /\ Len(r) <= Len(q) /\ \A i \in 1 .. Len(r) : r[i] = q[i]
        /\ Len(q) <= Len(p) /\ \A i \in 1 .. Len(q) : q[i] = p[i]
    BY <1>1, PrefixIs
  <2>2. \A i \in 1 .. Len(r) : r[i] = p[i]
    BY <2>1
  <2> QED
    BY <2>1, <2>2, PrefixIs
<1>7. \A q, p \in Path : IsPrefix(q, p) /\ IsPrefix(p, q) => p = q
  <2> SUFFICES ASSUME NEW q \in Path, NEW p \in Path, IsPrefix(q, p), IsPrefix(p, q) PROVE q = p
    OBVIOUS
  <2>1. Len(q) = Len(p) /\ \A i \in 1 .. Len(q) : q[i] = p[i]
    BY <1>1, PrefixIs
  <2> QED
    BY <2>1, PrefixIs
<1> QED
  BY <1>2, <1>3, <1>4, <1>5, <1>6, <1>7

\* The children of a directory divide what is below it.
LEMMA Branches ==
  /\ \A d \in Inner : \A n \in Name :
       /\ IsPrefix(d, Append(d, n)) /\ ~IsPrefix(Append(d, n), d) /\ d # Append(d, n)
       /\ \A q \in Path : IsPrefix(q, Append(d, n)) => q = Append(d, n) \/ IsPrefix(q, d)
  /\ \A d, p \in Path : IsPrefix(d, p) /\ d # p =>
       d \in Inner /\ \E n \in Name : IsPrefix(Append(d, n), p)
  /\ \A d \in Inner : \A m, n \in Name : \A p \in Path :
       IsPrefix(Append(d, m), p) /\ IsPrefix(Append(d, n), p) => m = n
  /\ \A r, q, p \in Path : IsPrefix(r, p) /\ IsPrefix(q, p) => IsPrefix(r, q) \/ IsPrefix(q, r)
<1>0. \A p \in Path : Len(p) \in Nat
  BY PathType
<1>1. ASSUME NEW d \in Inner, NEW n \in Name
      PROVE  /\ IsPrefix(d, Append(d, n)) /\ ~IsPrefix(Append(d, n), d) /\ d # Append(d, n)
             /\ \A q \in Path : IsPrefix(q, Append(d, n)) => q = Append(d, n) \/ IsPrefix(q, d)
  <2> DEFINE k == Append(d, n)
  <2>1. /\ k \in Path /\ d \in Path /\ Len(d) \in Nat /\ Len(k) = Len(d) + 1
        /\ \A i \in 1 .. Len(d) : k[i] = d[i]
    BY ChildIs
  <2> HIDE DEF k
  <2>2. IsPrefix(d, k) /\ ~IsPrefix(k, d) /\ d # k
    BY <2>1, PrefixIs
  <2>3. ASSUME NEW q \in Path, IsPrefix(q, k) PROVE q = k \/ IsPrefix(q, d)
    <3>1. Len(q) <= Len(k) /\ Len(q) \in Nat /\ \A i \in 1 .. Len(q) : q[i] = k[i]
      BY <1>0, <2>1, <2>3, PrefixIs
    <3>2. CASE Len(q) = Len(k)
      BY <2>1, <3>1, <3>2, PrefixIs
    <3>3. CASE Len(q) <= Len(d)
      <4>1. \A i \in 1 .. Len(q) : q[i] = d[i]
        BY <2>1, <3>1, <3>3
      <4> QED
        BY <2>1, <3>3, <4>1, PrefixIs
    <3> QED
      BY <2>1, <3>1, <3>2, <3>3
  <2> QED
    BY <2>2, <2>3 DEF k
<1>2. ASSUME NEW d \in Path, NEW p \in Path, IsPrefix(d, p), d # p
      PROVE  d \in Inner /\ \E n \in Name : IsPrefix(Append(d, n), p)
  <2> DEFINE n == p[Len(d) + 1]
  <2>1. /\ Len(d) \in Nat /\ Len(p) \in Nat /\ Len(p) <= Depth /\ p \in Seq(Name)
        /\ Len(d) <= Len(p) /\ \A i \in 1 .. Len(d) : d[i] = p[i]
    BY <1>0, <1>2, PathType, PrefixIs, SyncAssumption
  <2>2. Len(d) < Len(p)
    BY <1>2, <2>1, PrefixIs
  <2>3. d \in Inner /\ n \in Name
    BY <2>1, <2>2, SyncAssumption DEF Inner
  <2>4. /\ Append(d, n) \in Path /\ Len(Append(d, n)) = Len(d) + 1
        /\ Append(d, n)[Len(d) + 1] = n /\ \A i \in 1 .. Len(d) : Append(d, n)[i] = d[i]
    BY <2>3, ChildIs
  <2>5. IsPrefix(Append(d, n), p)
    <3> DEFINE k == Append(d, n)
    <3>1. k \in Path /\ Len(k) <= Len(p) /\ Len(k) = Len(d) + 1
      BY <2>1, <2>2, <2>4
    <3>2. \A i \in 1 .. Len(d) + 1 : k[i] = p[i]
      BY <2>1, <2>4
    <3> HIDE DEF k
    <3>3. IsPrefix(k, p)
      BY <3>1, <3>2, PrefixIs
    <3> QED
      BY <3>3 DEF k
  <2> QED
    BY <2>3, <2>5
<1>3. ASSUME NEW d \in Inner, NEW m \in Name, NEW n \in Name, NEW p \in Path,
             IsPrefix(Append(d, m), p), IsPrefix(Append(d, n), p)
      PROVE  m = n
  <2>1. ASSUME NEW o \in Name, IsPrefix(Append(d, o), p) PROVE p[Len(d) + 1] = o
    <3> DEFINE k == Append(d, o)
    <3>1. k \in Path /\ Len(k) = Len(d) + 1 /\ Len(d) \in Nat /\ k[Len(d) + 1] = o
      BY ChildIs
    <3>2. IsPrefix(k, p)
      BY <2>1
    <3> HIDE DEF k
    <3> QED
      BY <3>1, <3>2, PrefixIs
  <2> QED
    BY <1>3, <2>1
<1>4. ASSUME NEW r \in Path, NEW q \in Path, NEW p \in Path, IsPrefix(r, p), IsPrefix(q, p)
      PROVE  IsPrefix(r, q) \/ IsPrefix(q, r)
  <2>1. /\ Len(r) \in Nat /\ Len(q) \in Nat
        /\ \A i \in 1 .. Len(r) : r[i] = p[i]
        /\ \A i \in 1 .. Len(q) : q[i] = p[i]
    BY <1>0, <1>4, PrefixIs
  <2>2. CASE Len(r) <= Len(q)
    <3>1. \A i \in 1 .. Len(r) : r[i] = q[i]
      BY <2>1, <2>2
    <3> QED
      BY <2>2, <3>1, PrefixIs
  <2>3. CASE Len(q) <= Len(r)
    <3>1. \A i \in 1 .. Len(q) : q[i] = r[i]
      BY <2>1, <2>3
    <3> QED
      BY <2>3, <3>1, PrefixIs
  <2> QED
    BY <2>1, <2>2, <2>3
<1> QED
  BY <1>1, <1>2, <1>3, <1>4

\* What is visible lies below what is visible.
LEMMA Seeing ==
  /\ Visible(Root)
  /\ \A q, p \in Path : IsPrefix(q, p) /\ Visible(p) => Visible(q)
  /\ \A d \in Inner : \A n \in Name : Visible(Append(d, n)) <=> Visible(d) /\ ~IsIgnored(n)
<1>1. Visible(Root)
  BY DEF Visible, Root
<1>2. \A p \in Path : DOMAIN p = 1 .. Len(p) /\ Len(p) \in Nat
  BY PathType
<1>3. ASSUME NEW q \in Path, NEW p \in Path, IsPrefix(q, p), Visible(p) PROVE Visible(q)
  <2>1. /\ Len(q) <= Len(p) /\ \A i \in 1 .. Len(q) : q[i] = p[i]
        /\ DOMAIN q = 1 .. Len(q) /\ DOMAIN p = 1 .. Len(p) /\ Len(q) \in Nat /\ Len(p) \in Nat
    BY <1>2, <1>3, PrefixIs
  <2> QED
    BY <1>3, <2>1 DEF Visible
<1>4. ASSUME NEW d \in Inner, NEW n \in Name
      PROVE  Visible(Append(d, n)) <=> Visible(d) /\ ~IsIgnored(n)
  <2> DEFINE k == Append(d, n)
  <2>1. /\ d \in Path /\ Len(d) \in Nat /\ DOMAIN k = 1 .. Len(d) + 1 /\ DOMAIN d = 1 .. Len(d)
        /\ k[Len(d) + 1] = n /\ \A i \in 1 .. Len(d) : k[i] = d[i]
    BY <1>2, ChildIs
  <2> HIDE DEF k
  <2>2. Visible(k) <=> Visible(d) /\ ~IsIgnored(n)
    BY <2>1 DEF Visible
  <2> QED
    BY <2>2 DEF k
<1> QED
  BY <1>1, <1>3, <1>4

--------------------------------------------------------------------------------
(***************************************************************************)
(* Trees.                                                                  *)
(***************************************************************************)
LEMMA Induction ==
  ASSUME NEW S, 0 \in S, \A n \in Nat : n \in S => n + 1 \in S
  PROVE  Nat \subseteq S
<1> SUFFICES ASSUME NEW m \in Nat, m \notin S PROVE FALSE
  OBVIOUS
<1> DEFINE below(n) == 0 .. n - 1
           T == {below(n) : n \in Nat \ S}
<1>1. \A n \in Nat : IsFiniteSet(below(n))
  BY FS_Interval
<1>2. IsWellFoundedOn(StrictSubsetOrdering(Nat), FiniteSubsetsOf(Nat))
  BY FS_StrictSubsetOrderingWellFounded
<1>3. T \subseteq FiniteSubsetsOf(Nat) /\ T # {}
  BY <1>1 DEF FiniteSubsetsOf
<1>4. PICK X \in T : \A Y \in T : ~ (<<Y, X>> \in StrictSubsetOrdering(Nat))
  <2> HIDE DEF T
  <2> QED
    BY <1>2, <1>3, WFMin
<1>5. PICK n \in Nat \ S : X = below(n)
  BY <1>4
<1>6. n # 0 /\ n - 1 \in Nat /\ n - 1 + 1 = n
  OBVIOUS
<1>7. n - 1 \notin S
  BY <1>6
<1>8. below(n - 1) \in T
  BY <1>6, <1>7
<1>9. <<below(n - 1), below(n)>> \in StrictSubsetOrdering(Nat)
  <2>1. below(n - 1) \in SUBSET Nat /\ below(n) \in SUBSET Nat /\ below(n - 1) \subseteq below(n)
    BY <1>6
  <2>2. n - 1 \in below(n) /\ n - 1 \notin below(n - 1)
    BY <1>6
  <2>3. below(n - 1) # below(n)
    BY <2>2
  <2> HIDE DEF below
  <2> QED
    BY <2>1, <2>3 DEF StrictSubsetOrdering
<1> QED
  BY <1>4, <1>5, <1>8, <1>9

\* Only directories have entries, down to the last level the paths reach.
Tree(t) ==
  /\ t \in [Path -> Node]
  /\ \A p \in Path : /\ ~Exists(t[p]) => t[p] = Absent
                     /\ p \notin Inner => t[p].kind # "dir"
  /\ \A p, q \in Path : IsPrefix(q, p) /\ q # p /\ Exists(t[p]) => t[q].kind = "dir"

LEMMA NodeFacts ==
  /\ Absent \in Node /\ ~Exists(Absent)
  /\ \A t \in Int : Dir(t) \in Node /\ Exists(Dir(t)) /\ Dir(t).kind = "dir"
  /\ \A t \in Int : \A c \in Side \cup {"torn", "none"} :
       /\ File(c, t) \in Node /\ Exists(File(c, t)) /\ File(c, t).kind = "file"
       /\ File(c, t).content = c /\ File(c, t).mtime = t
  /\ \A x \in Node : /\ x.kind = "dir" => Exists(x)
                     /\ x.kind = "file" => Exists(x)
                     /\ Exists(x) => x.kind \in {"dir", "file"}
                     /\ x.mtime \in Int /\ x.content \in Side \cup {"torn", "none"}
BY DEF Absent, Dir, File, Node, Exists, Side

LEMMA Upward ==
  ASSUME NEW t \in [Path -> Node], \A p \in Entry : Exists(t[p]) => t[Front(p)].kind = "dir"
  PROVE  \A p, q \in Path : IsPrefix(q, p) /\ q # p /\ Exists(t[p]) => t[q].kind = "dir"
<1> DEFINE S == {n \in Nat : \A p, q \in Path :
                   Len(p) = n /\ IsPrefix(q, p) /\ q # p /\ Exists(t[p]) => t[q].kind = "dir"}
<1>1. 0 \in S
  <2>1. ASSUME NEW p \in Path, Len(p) = 0 PROVE p = Root
    BY <2>1, RootPath, PrefixIs
  <2> QED
    BY <2>1, Order
<1>2. ASSUME NEW n \in Nat, n \in S PROVE n + 1 \in S
  <2> SUFFICES ASSUME NEW p \in Path, NEW q \in Path, Len(p) = n + 1, IsPrefix(q, p), q # p, Exists(t[p])
               PROVE  t[q].kind = "dir"
    OBVIOUS
  <2>1. p \in Entry
    BY RootPath DEF Entry
  <2>2. PICK m \in Name : p = Append(Front(p), m)
    BY <2>1, FrontIs
  <2>3. Front(p) \in Inner /\ Front(p) \in Path /\ Len(p) = Len(Front(p)) + 1 /\ Len(Front(p)) \in Nat
    BY <2>1, <2>2, FrontIs, ChildIs
  <2>4. t[Front(p)].kind = "dir" /\ Exists(t[Front(p)])
    BY <2>1, <2>3, NodeFacts
  <2>5. IsPrefix(q, Front(p))
    <3> DEFINE d == Front(p)
    <3>1. d \in Inner /\ p = Append(d, m)
      BY <2>2, <2>3
    <3> HIDE DEF d
    <3>2. IsPrefix(q, d)
      BY <3>1, Branches
    <3> QED
      BY <3>2 DEF d
  <2> QED
    BY <1>2, <2>3, <2>4, <2>5
<1> HIDE DEF S
<1>3. Nat \subseteq S
  BY <1>1, <1>2, Induction
<1> QED
  BY <1>3, PathType DEF S

LEMMA CallTrees == \A c \in Calls : \A s \in Side : Tree(c.trees[s])
<1> SUFFICES ASSUME NEW c \in Calls, NEW s \in Side PROVE Tree(c.trees[s])
  OBVIOUS
<1> DEFINE t == c.trees[s]
<1>1. /\ t \in [Path -> Node]
      /\ \A p \in Path : /\ ~Exists(t[p]) => t[p] = Absent
                         /\ p \in Entry /\ Exists(t[p]) => t[Front(p)].kind = "dir"
                         /\ p \notin Inner => t[p].kind # "dir"
  BY SyncAssumption
<1> HIDE DEF t
<1>2. \A p \in Entry : Exists(t[p]) => t[Front(p)].kind = "dir"
  BY <1>1 DEF Entry
<1>3. Tree(t)
  BY <1>1, <1>2, Upward DEF Tree
<1> QED
  BY <1>3 DEF t

LEMMA MkdirTree ==
  ASSUME NEW t, Tree(t), NEW d \in Inner, CanMkdir(t, d), NEW tm \in Int
  PROVE  /\ Tree(Mkdir(t, d, tm))
         /\ \A q \in Path : Mkdir(t, d, tm)[q] =
                              IF IsPrefix(q, d) /\ ~Exists(t[q]) THEN Dir(tm) ELSE t[q]
         /\ \A q \in Path : IsPrefix(q, d) => Mkdir(t, d, tm)[q].kind = "dir"
<1> DEFINE u == Mkdir(t, d, tm)
<1>0. d \in Path /\ Dir(tm) \in Node /\ Dir(tm).kind = "dir" /\ Exists(Dir(tm))
  BY NodeFacts DEF Inner
<1>1. /\ u \in [Path -> Node]
      /\ \A q \in Path : u[q] = IF IsPrefix(q, d) /\ ~Exists(t[q]) THEN Dir(tm) ELSE t[q]
  BY <1>0 DEF Mkdir, Tree
<1> HIDE DEF u
<1>2. \A q \in Path : IsPrefix(q, d) => u[q].kind = "dir"
  BY <1>0, <1>1, NodeFacts DEF CanMkdir, Tree
<1>3. ASSUME NEW p \in Path
      PROVE  (~Exists(u[p]) => u[p] = Absent) /\ (p \notin Inner => u[p].kind # "dir")
  BY <1>0, <1>1, Order DEF Tree
<1>4. ASSUME NEW p \in Path, NEW q \in Path, IsPrefix(q, p), q # p, Exists(u[p])
      PROVE  u[q].kind = "dir"
  <2>1. CASE IsPrefix(p, d)
    BY <1>0, <1>2, <1>4, <2>1, Order
  <2>2. CASE ~IsPrefix(p, d)
    <3>1. t[q].kind = "dir"
      BY <1>1, <1>4, <2>2 DEF Tree
    <3> QED
      BY <1>0, <1>1, <3>1
  <2> QED
    BY <2>1, <2>2
<1>5. Tree(u)
  BY <1>1, <1>3, <1>4 DEF Tree
<1> QED
  BY <1>1, <1>2, <1>5 DEF u

LEMMA PutTree ==
  ASSUME NEW t, Tree(t), NEW d \in Inner, NEW k \in Path,
         \A q \in Path : IsPrefix(q, k) => q = k \/ IsPrefix(q, d),
         t[d].kind = "dir", t[k].kind # "dir", NEW x \in Node, x.kind = "file",
         NEW u \in [Path -> Node], u[k] = x, \A q \in Path : q # k => u[q] = t[q]
  PROVE  Tree(u)
<1>0. k \in Path /\ d \in Path /\ Exists(x) /\ Exists(t[d])
  BY NodeFacts DEF Tree, Inner
<1>1. \A q \in Path : IsPrefix(q, k) => q = k \/ IsPrefix(q, d)
  OBVIOUS
<1>2. u \in [Path -> Node] /\ \A q \in Path : u[q] = IF q = k THEN x ELSE t[q]
  OBVIOUS
<1>3. ASSUME NEW p \in Path
      PROVE  (~Exists(u[p]) => u[p] = Absent) /\ (p \notin Inner => u[p].kind # "dir")
  BY <1>0, <1>2 DEF Tree
<1>4. ASSUME NEW p \in Path, NEW q \in Path, IsPrefix(q, p), q # p, Exists(u[p])
      PROVE  u[q].kind = "dir"
  <2>1. CASE p = k
    <3>1. IsPrefix(q, d)
      BY <1>1, <1>4, <2>1
    <3>2. t[q].kind = "dir"
      BY <1>0, <3>1 DEF Tree
    <3> QED
      BY <1>2, <1>4, <2>1, <3>2
  <2>2. CASE p # k
    <3>1. t[q].kind = "dir"
      BY <1>2, <1>4, <2>2 DEF Tree
    <3>2. q # k
      BY <3>1
    <3> QED
      BY <1>2, <3>1, <3>2
  <2> QED
    BY <2>1, <2>2
<1>5. Tree(u)
  BY <1>2, <1>3, <1>4 DEF Tree
<1> QED
  BY <1>2, <1>5

LEMMA EraseTree ==
  ASSUME NEW t, Tree(t), NEW gone, gone \subseteq Path, \A q \in gone : Under(q) \subseteq gone
  PROVE  /\ Tree([q \in Path |-> IF q \in gone THEN Absent ELSE t[q]])
<1> DEFINE u == [q \in Path |-> IF q \in gone THEN Absent ELSE t[q]]
<1>1. u \in [Path -> Node] /\ \A q \in Path : u[q] = IF q \in gone THEN Absent ELSE t[q]
  BY NodeFacts DEF Tree
<1> HIDE DEF u
<1>2. ASSUME NEW p \in Path
      PROVE  (~Exists(u[p]) => u[p] = Absent) /\ (p \notin Inner => u[p].kind # "dir")
  BY <1>1 DEF Tree, Absent
<1>3. ASSUME NEW p \in Path, NEW q \in Path, IsPrefix(q, p), q # p, Exists(u[p])
      PROVE  u[q].kind = "dir"
  <2>1. p \notin gone /\ t[q].kind = "dir"
    BY <1>1, <1>3, NodeFacts DEF Tree
  <2>2. q \notin gone
    BY <1>3, <2>1 DEF Under
  <2> QED
    BY <1>1, <2>1, <2>2
<1>4. Tree(u)
  BY <1>1, <1>2, <1>3 DEF Tree
<1> QED
  BY <1>4 DEF u

--------------------------------------------------------------------------------
(***************************************************************************)
(* Types.                                                                  *)
(***************************************************************************)
Phase == {"listLocal", "listRemote", "visit", "run"}
Frame == [dir : Inner, phase : Phase, list : [Side -> [Name -> Node]],
          todo : SUBSET Name, job : [Name -> JobState]]
\* Directories below the last level are never listed as such.
Sound(c) == \A s \in Side : \A n \in Name : c.list[s][n].kind = "dir" => Append(c.dir, n) \in Inner

Settings ==
  /\ opts \in Options /\ rounds \in Nat /\ round \in 1 .. rounds
  /\ before \in {"none", "ok", "error"}
  /\ fs0 \in [Side -> [Path -> Node]] /\ \A s \in Side : Tree(fs0[s])
Trees == fs \in [Side -> [Path -> Node]] /\ \A s \in Side : Tree(fs[s])
Stacked ==
  /\ stack \in Seq(Frame) /\ status \in {"running", "ok", "error"}
  /\ (status = "running") = (stack # <<>>)
  /\ \A i \in 1 .. Len(stack) : /\ Len(stack[i].dir) = i - 1 /\ Sound(stack[i])
                                /\ i < Len(stack) => stack[i].phase = "visit"
Counters ==
  /\ reg \in [Name -> Nat] /\ failed \in BOOLEAN
  /\ result \in [transferred : Nat, deleted : Nat, skipped : Nat]
  /\ faults \in 0 .. MaxFaults /\ listFaults \in 0 .. MaxListFaults
TypeInv == Settings /\ Trees /\ Stacked /\ Counters

LEMMA Sides ==
  ASSUME Settings
  PROVE  /\ Source \in Side /\ Dest \in Side /\ Source # Dest /\ Dest = Other(Source)
         /\ Side = {Source, Dest}
         /\ \A s \in Side : Other(s) \in Side /\ Other(s) # s /\ Stamp(s) \in Int
<1>1. round \in Int /\ opts.offset \in Int /\ Now \in Int
  BY SyncAssumption DEF Settings, Options
<1>2. \A s \in Side : Stamp(s) \in Int
  BY <1>1 DEF Stamp, Clock
<1> QED
  BY <1>2 DEF Source, Dest, Other, Side

LEMMA TopIs ==
  ASSUME TypeInv, status = "running"
  PROVE  /\ Len(stack) \in Nat \ {0} /\ Len(stack) \in 1 .. Len(stack)
         /\ DOMAIN stack = 1 .. Len(stack)
         /\ top = stack[Len(stack)] /\ top \in Frame /\ top.dir \in Inner /\ Sound(top)
         /\ top.dir \in Path
<1>1. stack # <<>> /\ stack \in Seq(Frame)
  BY DEF TypeInv, Stacked
<1>2. Len(stack) \in Nat \ {0} /\ Len(stack) \in 1 .. Len(stack) /\ DOMAIN stack = 1 .. Len(stack)
  BY <1>1
<1>3. top = stack[Len(stack)] /\ top \in Frame /\ Sound(top)
  BY <1>1, <1>2 DEF top, TypeInv, Stacked
<1> QED
  BY <1>2, <1>3 DEF Frame, Inner

\* The innermost call changes, and nothing else on the stack.
LEMMA Updated ==
  ASSUME TypeInv, status = "running", NEW f \in Frame, Update(f)
  PROVE  /\ stack' \in Seq(Frame) /\ Len(stack') = Len(stack) /\ stack' # <<>>
         /\ stack'[Len(stack)] = f
         /\ \A i \in 1 .. Len(stack) : i # Len(stack) => stack'[i] = stack[i]
BY TopIs DEF Update, TypeInv, Stacked

LEMMA UpdatedType ==
  ASSUME TypeInv, status = "running", NEW f \in Frame, Update(f), f.dir = top.dir, Sound(f),
         status' = status
  PROVE  Stacked'
<1>1. /\ stack' \in Seq(Frame) /\ Len(stack') = Len(stack) /\ stack' # <<>>
      /\ stack'[Len(stack)] = f
      /\ \A i \in 1 .. Len(stack) : i # Len(stack) => stack'[i] = stack[i]
  BY Updated
<1>2. /\ Len(stack) \in 1 .. Len(stack) /\ Len(stack) \in Nat
      /\ top = stack[Len(stack)]
  BY TopIs
<1>3. ASSUME NEW i \in 1 .. Len(stack')
      PROVE  /\ Len(stack'[i].dir) = i - 1 /\ Sound(stack'[i])
             /\ i < Len(stack') => stack'[i].phase = "visit"
  <2>1. CASE i = Len(stack)
    <3>1. Len(top.dir) = Len(stack) - 1
      BY <1>2 DEF TypeInv, Stacked
    <3>2. stack'[i] = f /\ ~(i < Len(stack'))
      BY <1>1, <1>2, <2>1
    <3> QED
      BY <2>1, <3>1, <3>2
  <2>2. CASE i # Len(stack)
    BY <1>1, <1>2, <2>2 DEF TypeInv, Stacked
  <2> QED
    BY <2>1, <2>2
<1>4. Sound(f)' <=> Sound(f)
  BY DEF Sound
<1> QED
  BY <1>1, <1>3 DEF Stacked, TypeInv, Sound

\* The frames the actions put on top.
LEMMA NewTop ==
  ASSUME TypeInv, status = "running", NEW n \in Name
  PROVE  /\ \A x \in JobState :
              LET f == [top EXCEPT !.job[n] = x]
              IN /\ f \in Frame /\ f.dir = top.dir /\ f.list = top.list /\ f.phase = top.phase
                 /\ f.todo = top.todo
                 /\ \A m \in Name : f.job[m] = IF m = n THEN x ELSE top.job[m]
         /\ LET f == [top EXCEPT !.todo = @ \ {n}]
            IN /\ f \in Frame /\ f.dir = top.dir /\ f.list = top.list /\ f.phase = top.phase
               /\ f.todo = top.todo \ {n} /\ f.job = top.job
         /\ LET f == [top EXCEPT !.todo = @ \ {n}, !.job[n] = "waiting"]
            IN /\ f \in Frame /\ f.dir = top.dir /\ f.list = top.list /\ f.phase = top.phase
               /\ f.todo = top.todo \ {n}
               /\ \A m \in Name : f.job[m] = IF m = n THEN "waiting" ELSE top.job[m]
<1>1. top \in Frame
  BY TopIs
<1>2. "waiting" \in JobState
  BY DEF JobState
<1> QED
  BY <1>1, <1>2 DEF Frame

LEMMA SoundIs ==
  ASSUME NEW c, NEW f, f.dir = c.dir, f.list = c.list, Sound(c)
  PROVE  Sound(f)
BY DEF Sound

LEMMA CallIs ==
  ASSUME NEW d \in Inner
  PROVE  /\ Call(d) \in Frame /\ Sound(Call(d)) /\ Call(d).dir = d /\ Call(d).phase = "listLocal"
         /\ Call(d).todo = {} /\ \A n \in Name : Call(d).job[n] = "none"
         /\ \A s \in Side : \A n \in Name : Call(d).list[s][n] = Absent
BY NodeFacts DEF Call, Frame, Sound, NoEntries, Phase, JobState, Absent

\* What a listing shows.
LEMMA Listed ==
  ASSUME TypeInv, status = "running", NEW s \in Side, NEW fails \in BOOLEAN, SafeList(s, fails)
  PROVE  \E f \in Frame :
           /\ Update(f) /\ f.dir = top.dir /\ Sound(f) /\ f.job = top.job
           /\ f.phase = IF s = "local" THEN "listRemote" ELSE "visit"
           /\ f.list[Other(s)] = top.list[Other(s)]
           /\ \A n \in Name : f.list[s][n] = IF fails \/ fs[s][top.dir].kind # "dir" THEN Absent
                                             ELSE fs[s][Append(top.dir, n)]
           /\ f.todo = IF s = "local" THEN {}
                       ELSE IF OneWay THEN {n \in Name : Exists(f.list[Source][n])}
                       ELSE {n \in Name : Exists(f.list["local"][n]) \/ Exists(f.list["remote"][n])}
<1> DEFINE l == IF fails THEN NoEntries ELSE Listing(fs[s], top.dir)
           lists == [top.list EXCEPT ![s] = l]
           present == {n \in Name : Exists(lists["local"][n]) \/ Exists(lists["remote"][n])}
           f == [top EXCEPT
                  !.list = lists,
                  !.phase = IF s = "local" THEN "listRemote" ELSE "visit",
                  !.todo = IF s = "local" THEN {}
                           ELSE IF OneWay THEN {n \in Name : Exists(lists[Source][n])}
                           ELSE present]
<1>1. top \in Frame /\ top.dir \in Inner /\ Sound(top)
  BY TopIs
<1>2. /\ l \in [Name -> Node]
      /\ \A n \in Name : l[n] = IF fails \/ fs[s][top.dir].kind # "dir" THEN Absent
                                ELSE fs[s][Append(top.dir, n)]
  <2>1. \A n \in Name : Append(top.dir, n) \in Path
    BY <1>1, ChildIs
  <2>2. fs[s] \in [Path -> Node]
    BY DEF TypeInv, Trees
  <2> QED
    BY <2>1, <2>2, NodeFacts DEF Listing, NoEntries
<1>3. \A n \in Name : l[n].kind = "dir" => Append(top.dir, n) \in Inner
  BY <1>1, <1>2, ChildIs DEF TypeInv, Trees, Tree, Absent
<1> HIDE DEF l
<1>4. /\ lists \in [Side -> [Name -> Node]] /\ lists[s] = l
      /\ lists[Other(s)] = top.list[Other(s)]
      /\ \A u \in Side : u # s => lists[u] = top.list[u]
  BY <1>1, <1>2 DEF Frame, Other, Side
<1> HIDE DEF lists
<1>5. /\ f \in Frame /\ f.dir = top.dir /\ f.list = lists /\ f.job = top.job
      /\ f.phase = IF s = "local" THEN "listRemote" ELSE "visit"
      /\ f.todo = IF s = "local" THEN {}
                  ELSE IF OneWay THEN {n \in Name : Exists(lists[Source][n])} ELSE present
  BY <1>1, <1>4 DEF Frame, Phase
<1>6. Update(f)
  BY DEF SafeList, l, lists
<1> HIDE DEF f
<1>7. Sound(f)
  BY <1>1, <1>3, <1>4, <1>5 DEF Sound
<1> QED
  BY <1>2, <1>4, <1>5, <1>6, <1>7

LEMMA OneTree ==
  ASSUME Trees, NEW s \in Side, NEW t, Tree(t), fs' = [fs EXCEPT ![s] = t]
  PROVE  Trees' /\ fs'[s] = t /\ \A u \in Side : u # s => fs'[u] = fs[u]
<1>1. /\ fs' \in [Side -> [Path -> Node]] /\ fs'[s] = t
      /\ \A u \in Side : u # s => fs'[u] = fs[u]
  BY DEF Trees, Tree
<1>2. \A u \in Side : Tree(fs'[u])
  BY <1>1 DEF Trees
<1>3. \A u : Tree(u)' <=> Tree(u)
  BY DEF Tree
<1> QED
  BY <1>1, <1>2, <1>3 DEF Trees, Tree

\* The task function of n returns an error.
Fails(n) == \E injected \in BOOLEAN : FailJob(n, injected)

\* What the task of n has done to the file k on side to, and what it answers.
CopyOutcome(n, from, to, k) ==
  \/ /\ Succeed(n, "transferred") /\ done' = done \cup {<<to, k>>}
     /\ fs[from][k].kind = "file" /\ fs[to][k].kind # "dir"
     /\ fs'[to][k] = File(fs[from][k].content, Stamp(to))
  \/ /\ Fails(n)
     /\ \/ fs'[to][k] = fs[to][k]
        \/ fs[to][k].kind # "dir" /\ fs'[to][k] = File("torn", Stamp(to))
        \/ /\ fs[to][k].kind # "dir" /\ fs[from][k].kind = "file"
           /\ fs'[to][k] = File(fs[from][k].content, Stamp(to))

\* What a copy, complete or not, does to the tree it writes to.
LEMMA Copied ==
  ASSUME TypeInv, status = "running", NEW n \in Name, NEW from \in Side, Copy(n, from),
         NEW k, k = Append(top.dir, n), NEW to, to = Other(from)
  PROVE  /\ Trees' /\ fs'[from] = fs[from]
         /\ \A q \in Path : q # k =>
              \/ fs'[to][q] = fs[to][q]
              \/ IsPrefix(q, top.dir) /\ ~Exists(fs[to][q]) /\ fs'[to][q].kind = "dir"
         /\ CopyOutcome(n, from, to, k)
<1> DEFINE src == fs[from][k]
           writable == CanMkdir(fs[to], top.dir) /\ fs[to][k].kind # "dir"
           possible == writable /\ src.kind = "file"
           made == Mkdir(fs[to], top.dir, Stamp(to))
           Write(c) == fs' = [fs EXCEPT ![to] = [made EXCEPT ![k] = File(c, Stamp(to))]]
           Wrote(c) ==
             /\ Trees' /\ fs'[from] = fs[from] /\ fs'[to][k] = File(c, Stamp(to))
             /\ \A q \in Path : q # k =>
                  \/ fs'[to][q] = fs[to][q]
                  \/ IsPrefix(q, top.dir) /\ ~Exists(fs[to][q]) /\ fs'[to][q].kind = "dir"
<1>0. \/ possible /\ Write(src.content) /\ done' = done \cup {<<to, k>>} /\ Succeed(n, "transferred")
      \/ UNCHANGED fs /\ FailJob(n, possible)
      \/ CanMkdir(fs[to], top.dir) /\ fs' = [fs EXCEPT ![to] = made] /\ FailJob(n, possible)
      \/ writable /\ Write("torn") /\ FailJob(n, possible)
      \/ possible /\ to = "remote" /\ Write(src.content) /\ FailJob(n, TRUE)
  BY DEF Copy, Child
<1>1. /\ to \in Side /\ from # to /\ Stamp(to) \in Int /\ top.dir \in Inner /\ k \in Path
      /\ top.dir \in Path /\ ~IsPrefix(k, top.dir) /\ IsPrefix(top.dir, top.dir)
      /\ \A q \in Path : IsPrefix(q, k) => q = k \/ IsPrefix(q, top.dir)
  BY Sides, TopIs, ChildIs, Branches, Order DEF TypeInv
<1>2. Tree(fs[to]) /\ Tree(fs[from]) /\ Trees
  BY <1>1 DEF TypeInv, Trees
<1>3. src.content \in Side \cup {"torn", "none"}
  <2>1. src \in Node
    BY <1>1 DEF TypeInv, Trees
  <2> QED
    BY <1>1, <2>1, NodeFacts
<1>4. (FailJob(n, possible) => Fails(n)) /\ (FailJob(n, TRUE) => Fails(n))
  <2>1. possible \in BOOLEAN
    OBVIOUS
  <2> HIDE DEF possible
  <2> QED
    BY <2>1 DEF Fails
<1>5. ASSUME NEW c \in Side \cup {"torn", "none"}, Write(c), writable PROVE Wrote(c)
  <2> DEFINE x == File(c, Stamp(to))
             u == [made EXCEPT ![k] = x]
  <2>1. x \in Node /\ x.kind = "file"
    BY <1>1, <1>5, NodeFacts
  <2>2. /\ Tree(made) /\ made[top.dir].kind = "dir" /\ made[k] = fs[to][k]
        /\ \A q \in Path : \/ made[q] = fs[to][q]
                           \/ IsPrefix(q, top.dir) /\ ~Exists(fs[to][q]) /\ made[q].kind = "dir"
    BY <1>1, <1>2, <1>5, MkdirTree, NodeFacts
  <2>3. fs' = [fs EXCEPT ![to] = u]
    BY <1>5
  <2>4. fs[to][k].kind # "dir"
    BY <1>5
  <2> HIDE DEF x, made
  <2>5. u \in [Path -> Node] /\ \A q \in Path : u[q] = IF q = k THEN x ELSE made[q]
    BY <1>1, <2>1, <2>2 DEF Tree
  <2> HIDE DEF u
  <2>6. Tree(u)
    <3>1. /\ made[k].kind # "dir" /\ u \in [Path -> Node] /\ u[k] = x
          /\ \A q \in Path : q # k => u[q] = made[q]
      BY <1>1, <2>2, <2>4, <2>5
    <3>2. top.dir \in Inner /\ k \in Path
          /\ \A q \in Path : IsPrefix(q, k) => q = k \/ IsPrefix(q, top.dir)
      BY <1>1
    <3>3. Tree(made) /\ made[top.dir].kind = "dir" /\ x \in Node /\ x.kind = "file"
      BY <2>1, <2>2
    <3> QED
      BY <3>1, <3>2, <3>3, PutTree
  <2>7. Trees' /\ fs'[to] = u /\ fs'[from] = fs[from]
    BY <1>1, <1>2, <2>3, <2>6, OneTree
  <2> QED
    BY <1>1, <2>2, <2>5, <2>7 DEF x
<1>6. CASE UNCHANGED fs /\ FailJob(n, possible)
  <2>1. Trees'
    BY <1>6 DEF TypeInv, Trees, Tree
  <2> QED
    BY <1>4, <1>6, <2>1 DEF CopyOutcome
<1>7. CASE CanMkdir(fs[to], top.dir) /\ fs' = [fs EXCEPT ![to] = made] /\ FailJob(n, possible)
  <2>1. /\ Tree(made) /\ made[k] = fs[to][k]
        /\ \A q \in Path : \/ made[q] = fs[to][q]
                           \/ IsPrefix(q, top.dir) /\ ~Exists(fs[to][q]) /\ made[q].kind = "dir"
    BY <1>1, <1>2, <1>7, MkdirTree, NodeFacts
  <2> HIDE DEF made
  <2>2. Trees' /\ fs'[to] = made /\ fs'[from] = fs[from]
    BY <1>1, <1>2, <1>7, <2>1, OneTree
  <2> QED
    BY <1>4, <1>7, <2>1, <2>2 DEF CopyOutcome
<1>8. CASE possible /\ Write(src.content) /\ done' = done \cup {<<to, k>>} /\ Succeed(n, "transferred")
  <2>1. Wrote(src.content)
    BY <1>3, <1>5, <1>8
  <2> QED
    BY <1>8, <2>1 DEF CopyOutcome
<1>9. CASE writable /\ Write("torn") /\ FailJob(n, possible)
  <2>1. Wrote("torn")
    BY <1>5, <1>9
  <2> QED
    BY <1>4, <1>9, <2>1 DEF CopyOutcome
<1>10. CASE possible /\ Write(src.content) /\ FailJob(n, TRUE)
  <2>1. Wrote(src.content)
    BY <1>3, <1>5, <1>10
  <2> QED
    BY <1>4, <1>10, <2>1 DEF CopyOutcome
<1> QED
  BY <1>0, <1>6, <1>7, <1>8, <1>9, <1>10

\* What a removal has done to the entry k, and what it answers.
DeleteOutcome(n, k) ==
  \/ /\ Succeed(n, "deleted") /\ done' = done \cup {<<Dest, k>>}
     /\ \A q \in Path : IsPrefix(k, q) => fs'[Dest][q] = Absent
  \/ Fails(n)

\* A removal.
LEMMA Deleted ==
  ASSUME TypeInv, status = "running", NEW n \in Name, DeleteJob(n),
         NEW k, k = Append(top.dir, n)
  PROVE  /\ Trees' /\ fs'[Source] = fs[Source]
         /\ \A q \in Path : /\ fs'[Dest][q] = fs[Dest][q] \/ fs'[Dest][q] = Absent
                            /\ ~IsPrefix(k, q) => fs'[Dest][q] = fs[Dest][q]
         /\ DeleteOutcome(n, k)
<1>1. top.dir \in Inner /\ k \in Path /\ Dest \in Side /\ Source \in Side /\ Source # Dest
  BY TopIs, ChildIs, Sides DEF TypeInv
<1>2. PICK gone \in SUBSET Path :
        /\ Erase(gone) /\ gone \subseteq Under(k)
        /\ \A q \in gone : Under(q) \subseteq gone
        /\ \/ gone = Under(k) /\ done' = done \cup {<<Dest, k>>} /\ Succeed(n, "deleted")
           \/ FailJob(n, TRUE)
  <2>1. CASE Erase(Under(k)) /\ done' = done \cup {<<Dest, k>>} /\ Succeed(n, "deleted")
    <3>1. \A q \in Under(k) : Under(q) \subseteq Under(k)
      BY <1>1, Order DEF Under
    <3> QED
      BY <2>1, <3>1 DEF Under
  <2>2. CASE \E gone \in SUBSET (Under(k) \ {k}) :
               /\ \A q \in gone : Under(q) \subseteq gone
               /\ Erase(gone)
               /\ FailJob(n, TRUE)
    <3>1. PICK gone \in SUBSET (Under(k) \ {k}) :
               /\ \A q \in gone : Under(q) \subseteq gone
               /\ Erase(gone)
               /\ FailJob(n, TRUE)
      BY <2>2
    <3>2. gone \in SUBSET Path /\ gone \subseteq Under(k)
      BY DEF Under
    <3> QED
      BY <3>1, <3>2
  <2> QED
    BY <2>1, <2>2 DEF DeleteJob, Child
<1> DEFINE u == [q \in Path |-> IF q \in gone THEN Absent ELSE fs[Dest][q]]
<1>3. Tree(u) /\ \A q \in Path : u[q] = IF q \in gone THEN Absent ELSE fs[Dest][q]
  BY <1>1, <1>2, EraseTree DEF TypeInv, Trees
<1>4. fs' = [fs EXCEPT ![Dest] = u]
  BY <1>2 DEF Erase
<1> HIDE DEF u
<1>5. Trees' /\ fs'[Dest] = u /\ fs'[Source] = fs[Source]
  BY <1>1, <1>3, <1>4, OneTree DEF TypeInv
<1>6. \A q \in Path : q \in Under(k) <=> IsPrefix(k, q)
  BY DEF Under
<1>7. \A q \in Path : /\ fs'[Dest][q] = fs[Dest][q] \/ fs'[Dest][q] = Absent
                      /\ ~IsPrefix(k, q) => fs'[Dest][q] = fs[Dest][q]
  BY <1>2, <1>3, <1>5, <1>6
<1>8. DeleteOutcome(n, k)
  <2>1. FailJob(n, TRUE) => Fails(n)
    BY DEF Fails
  <2> QED
    BY <1>2, <1>3, <1>5, <1>6, <2>1 DEF DeleteOutcome
<1> QED
  BY <1>5, <1>7, <1>8

\* A subdirectory that can be entered.
LEMMA Descended ==
  ASSUME TypeInv, status = "running", NEW n \in Name, NEW fails \in BOOLEAN, Descend(n, fails)
  PROVE  LET k == Append(top.dir, n)
             f == [top EXCEPT !.todo = @ \ {n}]
         IN /\ Trees' /\ k \in Inner /\ Seen(Source, n).kind = "dir" /\ ~IsIgnored(n) /\ OneWay
            /\ faults' = faults + (IF fails THEN 1 ELSE 0)
            /\ UNCHANGED <<calls, reg, failed, result, listFaults, done>>
            /\ \/ ReturnError /\ UNCHANGED fs
               \/ /\ stack' = Append([stack EXCEPT ![Len(stack)] = f], Call(k))
                  /\ UNCHANGED status /\ fs'[Source] = fs[Source]
                  /\ \A q \in Path :
                       \/ fs'[Dest][q] = fs[Dest][q]
                       \/ IsPrefix(q, k) /\ ~Exists(fs[Dest][q]) /\ fs'[Dest][q].kind = "dir"
                  /\ fs'[Dest][k].kind = "dir"
<1> DEFINE k == Append(top.dir, n)
<1>1. /\ OneWay /\ ~IsIgnored(n) /\ Seen(Source, n).kind = "dir"
      /\ faults' = faults + (IF fails THEN 1 ELSE 0)
      /\ UNCHANGED <<calls, reg, failed, result, listFaults, done>>
  BY DEF Descend
<1>2. k \in Inner
  BY <1>1, Sides, TopIs DEF Sound, Seen, TypeInv
<1>3. k \in Path /\ IsPrefix(k, k) /\ Dest \in Side /\ Source \in Side /\ Source # Dest /\ Stamp(Dest) \in Int
  BY <1>2, Order, Sides DEF Inner, TypeInv
<1>4. CASE ReturnError /\ UNCHANGED fs
  <2>1. Trees'
    BY <1>4 DEF TypeInv, Trees, Tree
  <2> QED
    BY <1>1, <1>2, <1>4, <2>1
<1>5. CASE /\ CanMkdir(fs[Dest], k)
           /\ fs' = [fs EXCEPT ![Dest] = Mkdir(@, k, Stamp(Dest))]
           /\ stack' = Append([stack EXCEPT ![Len(stack)].todo = @ \ {n}], Call(k))
           /\ UNCHANGED status
  <2> HIDE DEF k
  <2> DEFINE u == Mkdir(fs[Dest], k, Stamp(Dest))
  <2>1. /\ Tree(u) /\ u[k].kind = "dir"
        /\ \A q \in Path : \/ u[q] = fs[Dest][q]
                           \/ IsPrefix(q, k) /\ ~Exists(fs[Dest][q]) /\ u[q].kind = "dir"
    BY <1>2, <1>3, <1>5, MkdirTree, NodeFacts DEF TypeInv, Trees
  <2>2. fs' = [fs EXCEPT ![Dest] = u]
    BY <1>5
  <2> HIDE DEF u
  <2>3. Trees' /\ fs'[Dest] = u /\ fs'[Source] = fs[Source]
    BY <1>3, <2>1, <2>2, OneTree DEF TypeInv
  <2>4. stack' = Append([stack EXCEPT ![Len(stack)] = [top EXCEPT !.todo = @ \ {n}]], Call(k))
    BY <1>5 DEF top
  <2> QED
    BY <1>1, <1>2, <1>5, <2>1, <2>3, <2>4 DEF k
<1> QED
  BY <1>1, <1>4, <1>5 DEF Descend, Child
LEMMA Pushed ==
  ASSUME TypeInv, status = "running", NEW f \in Frame, f.dir = top.dir, Sound(f), f.phase = "visit",
         NEW c \in Frame, Len(c.dir) = Len(stack), Sound(c),
         stack' = Append([stack EXCEPT ![Len(stack)] = f], c), status' = status
  PROVE  /\ Stacked' /\ Len(stack') = Len(stack) + 1
         /\ stack'[Len(stack)] = f /\ stack'[Len(stack) + 1] = c
         /\ \A i \in 1 .. Len(stack) - 1 : stack'[i] = stack[i]
<1> DEFINE new == [stack EXCEPT ![Len(stack)] = f]
<1>1. /\ Len(stack) \in 1 .. Len(stack) /\ Len(stack) \in Nat \ {0} /\ stack \in Seq(Frame)
      /\ top = stack[Len(stack)] /\ top.dir \in Path
  BY TopIs DEF TypeInv, Stacked
<1>2. /\ new \in Seq(Frame) /\ Len(new) = Len(stack) /\ new[Len(stack)] = f
      /\ \A i \in 1 .. Len(stack) : i # Len(stack) => new[i] = stack[i]
  BY <1>1
<1>3. stack' = Append(new, c)
  OBVIOUS
<1> HIDE DEF new
<1>4. /\ stack' \in Seq(Frame) /\ Len(stack') = Len(stack) + 1 /\ stack' # <<>>
      /\ stack'[Len(stack) + 1] = c
      /\ \A i \in 1 .. Len(stack) : stack'[i] = new[i]
  BY <1>1, <1>2, <1>3
<1>5. stack'[Len(stack)] = f /\ \A i \in 1 .. Len(stack) - 1 : stack'[i] = stack[i]
  BY <1>1, <1>2, <1>4
<1>6. ASSUME NEW i \in 1 .. Len(stack')
      PROVE  /\ Len(stack'[i].dir) = i - 1 /\ Sound(stack'[i])
             /\ i < Len(stack') => stack'[i].phase = "visit"
  <2>1. CASE i = Len(stack) + 1
    BY <1>1, <1>4, <2>1
  <2>2. CASE i = Len(stack)
    <3>1. Len(top.dir) = Len(stack) - 1
      BY <1>1 DEF TypeInv, Stacked
    <3> QED
      BY <1>5, <2>2, <3>1
  <2>3. CASE i \in 1 .. Len(stack) - 1
    <3>1. stack'[i] = stack[i] /\ i \in 1 .. Len(stack) /\ i < Len(stack)
      BY <1>1, <1>5, <2>3
    <3> QED
      BY <3>1 DEF TypeInv, Stacked
  <2> QED
    BY <1>1, <1>4, <2>1, <2>2, <2>3
<1>7. \A x : Sound(x)' <=> Sound(x)
  BY DEF Sound
<1> QED
  BY <1>4, <1>5, <1>6, <1>7 DEF Stacked, TypeInv

LEMMA Popped ==
  ASSUME TypeInv, status = "running", stack' = Front(stack),
         status' = IF Len(stack) = 1 THEN "ok" ELSE "running"
  PROVE  /\ Stacked' /\ Len(stack') = Len(stack) - 1
         /\ \A i \in 1 .. Len(stack) - 1 : stack'[i] = stack[i]
<1>1. Len(stack) \in Nat \ {0} /\ stack \in Seq(Frame)
  BY TopIs DEF TypeInv, Stacked
<1>2. /\ stack' \in Seq(Frame) /\ Len(stack') = Len(stack) - 1
      /\ \A i \in 1 .. Len(stack) - 1 : stack'[i] = stack[i]
  <2> DEFINE m == Len(stack) - 1
  <2>1. stack' = SubSeq(stack, 1, m)
    BY DEF Front
  <2>2. m \in Nat /\ m < Len(stack)
    BY <1>1
  <2> HIDE DEF m
  <2>3. stack' \in Seq(Frame) /\ Len(stack') = m /\ \A i \in 1 .. m : stack'[i] = stack[i]
    BY <1>1, <2>1, <2>2
  <2> QED
    BY <2>3 DEF m
<1>3. ASSUME NEW i \in 1 .. Len(stack')
      PROVE  /\ Len(stack'[i].dir) = i - 1 /\ Sound(stack'[i])
             /\ i < Len(stack') => stack'[i].phase = "visit"
  <2>1. stack'[i] = stack[i] /\ i \in 1 .. Len(stack) /\ i < Len(stack)
    BY <1>1, <1>2
  <2> QED
    BY <2>1 DEF TypeInv, Stacked
<1>4. \A x : Sound(x)' <=> Sound(x)
  BY DEF Sound
<1>5. (status' = "running") = (stack' # <<>>) /\ status' \in {"running", "ok", "error"}
  BY <1>1, <1>2
<1> QED
  BY <1>2, <1>3, <1>4, <1>5 DEF Stacked, TypeInv

\* The stack a call of Sync begins with, and the one it leaves when it fails.
LEMMA StackOf ==
  ASSUME NEW st, NEW su, \/ st = <<Call(Root)>> /\ su = "running"
                         \/ st = <<>> /\ su \in {"ok", "error"}
  PROVE  /\ st \in Seq(Frame) /\ su \in {"running", "ok", "error"}
         /\ (su = "running") = (st # <<>>)
         /\ \A i \in 1 .. Len(st) : /\ Len(st[i].dir) = i - 1 /\ Sound(st[i])
                                    /\ i < Len(st) => st[i].phase = "visit"
<1>1. /\ Call(Root) \in Frame /\ Sound(Call(Root)) /\ Call(Root).dir = Root /\ Len(Root) = 0
  BY RootPath, CallIs
<1>2. CASE st = <<Call(Root)>> /\ su = "running"
  <2> DEFINE c == Call(Root)
  <2>1. st \in Seq(Frame) /\ st # <<>> /\ Len(st) = 1 /\ st[1] = c
    BY <1>1, <1>2
  <2>2. c.dir = Root /\ Sound(c)
    BY <1>1
  <2> HIDE DEF c
  <2> QED
    BY <1>1, <1>2, <2>1, <2>2
<1>3. CASE st = <<>> /\ su \in {"ok", "error"}
  BY <1>3
<1> QED
  BY <1>2, <1>3

LEMMA InitType == Init => TypeInv
<1> SUFFICES ASSUME Init PROVE TypeInv
  OBVIOUS
<1>1. PICK c \in Calls : opts = c.opts /\ fs = c.trees /\ rounds = c.rounds
  BY DEF Init
<1>2. Settings /\ Trees
  BY <1>1, CallTrees, SyncAssumption DEF Init, Settings, Trees
<1>3. Stacked
  BY StackOf DEF Init, Stacked
<1>4. Counters
  <2>1. MaxFaults \in Nat /\ MaxListFaults \in Nat
    BY SyncAssumption
  <2>2. /\ reg = [n \in Name |-> 0] /\ failed = FALSE /\ result = NoResult
        /\ faults = 0 /\ listFaults = 0
    BY DEF Init
  <2>3. faults \in 0 .. MaxFaults /\ listFaults \in 0 .. MaxListFaults
    BY <2>1, <2>2
  <2>4. reg \in [Name -> Nat]
    BY <2>2
  <2> QED
    BY <2>2, <2>3, <2>4 DEF Counters, NoResult
<1> QED
  BY <1>2, <1>3, <1>4 DEF TypeInv

\* The steps of the innermost call that leave the trees alone.
LEMMA VisitType ==
  ASSUME TypeInv, status = "running", NEW n \in Name,
         \/ Skip(n) \/ AddTransfer(n) \/ StartJob(n) \/ CountJob(n)
  PROVE  TypeInv'
<1>1. /\ UNCHANGED <<calls, fs, status, faults, listFaults>>
      /\ reg' \in [Name -> Nat] /\ failed' \in BOOLEAN
      /\ result' \in [transferred : Nat, deleted : Nat, skipped : Nat]
  BY DEF TypeInv, Counters, Skip, AddTransfer, StartJob, CountJob
<1>2. Settings' /\ Trees' /\ Counters'
  BY <1>1 DEF TypeInv, Settings, Trees, Tree, Counters, calls
<1>3. PICK f \in Frame : Update(f) /\ f.dir = top.dir /\ Sound(f)
  <2>0. Sound(top) /\ {"waiting", "running", "done"} \subseteq JobState
    BY TopIs DEF JobState
  <2>1. CASE Skip(n)
    <3> DEFINE f == [top EXCEPT !.todo = @ \ {n}]
    <3>1. f \in Frame /\ f.dir = top.dir /\ f.list = top.list
      BY NewTop
    <3>2. Update(f)
      BY <2>1 DEF Skip
    <3> QED
      BY <2>0, <3>1, <3>2, SoundIs
  <2>2. CASE AddTransfer(n)
    <3> DEFINE f == [top EXCEPT !.todo = @ \ {n}, !.job[n] = "waiting"]
    <3>1. f \in Frame /\ f.dir = top.dir /\ f.list = top.list
      BY NewTop
    <3>2. Update(f)
      BY <2>2 DEF AddTransfer
    <3> QED
      BY <2>0, <3>1, <3>2, SoundIs
  <2>3. ASSUME NEW x \in JobState, Update([top EXCEPT !.job[n] = x])
        PROVE  \E f \in Frame : Update(f) /\ f.dir = top.dir /\ Sound(f)
    <3> DEFINE f == [top EXCEPT !.job[n] = x]
    <3>1. f \in Frame /\ f.dir = top.dir /\ f.list = top.list
      BY NewTop
    <3>2. Update(f)
      BY <2>3
    <3> QED
      BY <2>0, <3>1, <3>2, SoundIs
  <2>4. CASE StartJob(n)
    BY <2>0, <2>3, <2>4 DEF StartJob
  <2>5. CASE CountJob(n)
    BY <2>0, <2>3, <2>5 DEF CountJob
  <2> QED
    BY <2>1, <2>2, <2>4, <2>5
<1>4. Stacked'
  BY <1>1, <1>3, UpdatedType
<1> QED
  BY <1>2, <1>4 DEF TypeInv

\* A task function returns, whatever it returns.
LEMMA TaskType ==
  ASSUME TypeInv, status = "running", NEW n \in Name, Trees',
         UNCHANGED <<calls, result, status, listFaults>>,
         \/ \E counter \in {"transferred", "deleted"} : Succeed(n, counter)
         \/ Fails(n)
  PROVE  TypeInv'
<1>0. Sound(top) /\ {"counting", "done"} \subseteq JobState
  BY TopIs DEF JobState
<1>1. ASSUME NEW x \in JobState, Update([top EXCEPT !.job[n] = x]) PROVE Stacked'
  <2> DEFINE f == [top EXCEPT !.job[n] = x]
  <2>1. f \in Frame /\ f.dir = top.dir /\ f.list = top.list
    BY NewTop
  <2>2. Update(f)
    BY <1>1
  <2> HIDE DEF f
  <2>3. Sound(f)
    BY <1>0, <2>1, SoundIs
  <2> QED
    BY <2>1, <2>2, <2>3, UpdatedType
<1>2. Stacked'
  BY <1>0, <1>1 DEF Succeed, Fails, FailJob
<1>3. Counters'
  <2>1. CASE \E counter \in {"transferred", "deleted"} : Succeed(n, counter)
    BY <2>1 DEF TypeInv, Counters, Succeed
  <2>2. CASE Fails(n)
    BY <2>2, SyncAssumption DEF TypeInv, Counters, Fails, FailJob
  <2> QED
    BY <2>1, <2>2
<1>4. Settings'
  BY DEF TypeInv, Settings, calls, Tree
<1> QED
  BY <1>2, <1>3, <1>4 DEF TypeInv

LEMMA TransferType ==
  ASSUME TypeInv, status = "running", NEW n \in Name, TransferJob(n)
  PROVE  TypeInv'
<1>1. UNCHANGED <<calls, result, status, listFaults>>
  BY DEF TransferJob
<1>2. CASE From(n) = "neither"
  <2>1. Succeed(n, "transferred") /\ UNCHANGED fs
    BY <1>2 DEF TransferJob
  <2>2. Trees'
    BY <2>1 DEF TypeInv, Trees, Tree
  <2> QED
    BY <1>1, <2>1, <2>2, TaskType
<1>3. CASE From(n) # "neither"
  <2>1. Copy(n, From(n)) /\ From(n) \in Side
    BY <1>3, Sides DEF TransferJob, From, Side, TypeInv
  <2>2. /\ Trees'
        /\ Succeed(n, "transferred") \/ Fails(n)
    <3> DEFINE k == Append(top.dir, n)
               to == Other(From(n))
    <3>1. k = Append(top.dir, n) /\ to = Other(From(n))
      OBVIOUS
    <3> HIDE DEF k, to
    <3> QED
      BY <2>1, <3>1, Copied DEF CopyOutcome
  <2> QED
    BY <1>1, <2>2, TaskType
<1> QED
  BY <1>2, <1>3

LEMMA DeleteType ==
  ASSUME TypeInv, status = "running", NEW n \in Name, DeleteJob(n)
  PROVE  TypeInv'
<1>1. UNCHANGED <<calls, result, status, listFaults>>
  BY DEF DeleteJob
<1>2. Trees' /\ (Succeed(n, "deleted") \/ Fails(n))
  BY Deleted DEF DeleteOutcome
<1> QED
  BY <1>1, <1>2, TaskType

LEMMA DescendType ==
  ASSUME TypeInv, status = "running", top.phase = "visit", NEW n \in Name, NEW fails \in BOOLEAN,
         fails => faults < MaxFaults, Descend(n, fails)
  PROVE  TypeInv'
<1> DEFINE k == Append(top.dir, n)
           f == [top EXCEPT !.todo = @ \ {n}]
<1>1. /\ Trees' /\ k \in Inner
      /\ faults' = faults + (IF fails THEN 1 ELSE 0)
      /\ UNCHANGED <<calls, reg, failed, result, listFaults, done>>
      /\ \/ ReturnError /\ UNCHANGED fs
         \/ /\ stack' = Append([stack EXCEPT ![Len(stack)] = f], Call(k))
            /\ UNCHANGED status
  BY Descended
<1>2. Settings'
  BY <1>1 DEF TypeInv, Settings, calls, Tree
<1>3. Counters'
  BY <1>1, SyncAssumption DEF TypeInv, Counters
<1>4. f \in Frame /\ f.dir = top.dir /\ f.phase = "visit" /\ f.list = top.list
  BY NewTop
<1> HIDE DEF f
<1>5. Sound(f)
  BY <1>4, TopIs, SoundIs
<1>6. /\ Len(k) = Len(stack) /\ top.dir \in Inner
  <2>1. Len(top.dir) = Len(stack) - 1 /\ Len(stack) \in Nat /\ top.dir \in Inner
    BY TopIs DEF TypeInv, Stacked
  <2>2. Len(k) = Len(top.dir) + 1
    BY <2>1, ChildIs
  <2> QED
    BY <2>1, <2>2
<1> HIDE DEF k
<1>7. Call(k) \in Frame /\ Sound(Call(k)) /\ Call(k).dir = k
  BY <1>1, CallIs
<1>8. Stacked'
  <2>1. CASE ReturnError
    <3>1. stack' = <<>> /\ status' = "error"
      BY <2>1 DEF ReturnError
    <3> QED
      BY <3>1 DEF Stacked
  <2>2. CASE /\ stack' = Append([stack EXCEPT ![Len(stack)] = f], Call(k))
             /\ UNCHANGED status
    <3> DEFINE c == Call(k)
    <3>1. c \in Frame /\ Sound(c) /\ Len(c.dir) = Len(stack) /\ status' = status
          /\ stack' = Append([stack EXCEPT ![Len(stack)] = f], c)
      BY <1>6, <1>7, <2>2
    <3> HIDE DEF c
    <3> QED
      BY <1>4, <1>5, <3>1, Pushed
  <2> QED
    BY <1>1, <2>1, <2>2
<1> QED
  BY <1>1, <1>2, <1>3, <1>8 DEF TypeInv

LEMMA NextType == TypeInv /\ [Next]_vars => TypeInv'
<1> SUFFICES ASSUME TypeInv, [Next]_vars PROVE TypeInv'
  OBVIOUS
<1>1. ASSUME NEW s \in Side, NEW fails \in BOOLEAN, status = "running", SafeList(s, fails)
      PROVE  TypeInv'
  <2>1. PICK f \in Frame : Update(f) /\ f.dir = top.dir /\ Sound(f)
    BY <1>1, Listed
  <2>2. UNCHANGED <<calls, fs, reg, failed, result, status, faults, done>>
    BY <1>1 DEF SafeList
  <2>3. Stacked'
    BY <1>1, <2>1, <2>2, UpdatedType
  <2>4. Settings' /\ Trees'
    BY <2>2 DEF TypeInv, Settings, Trees, Tree, calls
  <2>5. listFaults' \in 0 .. MaxListFaults
    BY <1>1, SyncAssumption DEF SafeList, TypeInv, Counters
  <2>6. Counters'
    BY <2>2, <2>5 DEF TypeInv, Counters
  <2> QED
    BY <2>3, <2>4, <2>6 DEF TypeInv
<1>2. ASSUME NEW n \in Name, VisitEntry(n) PROVE TypeInv'
  BY <1>2, VisitType, DescendType DEF VisitEntry, At
<1>3. ASSUME StartRunAll PROVE TypeInv'
  <2> DEFINE f == [top EXCEPT !.phase = "run",
                              !.job = [n \in Name |-> IF Extraneous(n) THEN "waiting" ELSE @[n]]]
  <2>1. /\ status = "running" /\ Update(f) /\ failed' = FALSE
        /\ UNCHANGED <<calls, fs, reg, result, status, faults, listFaults, done>>
    BY <1>3 DEF StartRunAll, At
  <2>2. top \in Frame /\ Sound(top)
    BY <2>1, TopIs
  <2>3. f \in Frame /\ f.dir = top.dir /\ f.list = top.list
    BY <2>2 DEF Frame, Phase, JobState
  <2> HIDE DEF f
  <2>4. Stacked'
    BY <2>1, <2>2, <2>3, SoundIs, UpdatedType
  <2>5. Settings' /\ Trees'
    BY <2>1 DEF TypeInv, Settings, Trees, Tree, calls
  <2>6. Counters'
    BY <2>1 DEF TypeInv, Counters
  <2> QED
    BY <2>4, <2>5, <2>6 DEF TypeInv
<1>4. ASSUME NEW n \in Name, StartJob(n) \/ TransferJob(n) \/ DeleteJob(n) \/ CountJob(n)
      PROVE  TypeInv'
  <2>1. status = "running"
    BY <1>4 DEF StartJob, TransferJob, DeleteJob, CountJob, At
  <2> QED
    BY <1>4, <2>1, VisitType, TransferType, DeleteType
<1>5. ASSUME Return PROVE TypeInv'
  <2>1. status = "running" /\ UNCHANGED <<calls, fs, reg, failed, result, faults, listFaults, done>>
    BY <1>5 DEF Return, At
  <2>2. Stacked'
    <3>1. CASE failed
      <4>1. stack' = <<>> /\ status' = "error"
        BY <1>5, <3>1 DEF Return, ReturnError
      <4> QED
        BY <4>1 DEF Stacked
    <3>2. CASE ~failed
      BY <1>5, <2>1, <3>2, Popped DEF Return
    <3> QED
      BY <3>1, <3>2
  <2>3. Settings' /\ Trees' /\ Counters'
    BY <2>1 DEF TypeInv, Settings, Trees, Tree, calls, Counters
  <2> QED
    BY <2>2, <2>3 DEF TypeInv
<1>6. ASSUME SyncAgain PROVE TypeInv'
  <2>1. Stacked'
    <3>1. stack' = <<Call(Root)>> /\ status' = "running"
      BY <1>6 DEF SyncAgain
    <3>2. /\ stack' \in Seq(Frame) /\ status' \in {"running", "ok", "error"}
          /\ (status' = "running") = (stack' # <<>>)
          /\ \A i \in 1 .. Len(stack') : /\ Len(stack'[i].dir) = i - 1 /\ Sound(stack'[i])
                                         /\ i < Len(stack') => stack'[i].phase = "visit"
      BY <3>1, StackOf
    <3> QED
      BY <3>2 DEF Stacked, Sound
  <2>2. /\ round < rounds /\ round' = round + 1 /\ fs0' = fs /\ before' = status
        /\ failed' = FALSE /\ result' = NoResult /\ status # "running"
        /\ UNCHANGED <<opts, rounds, fs, reg, faults, listFaults>>
    BY <1>6 DEF SyncAgain
  <2>3. Settings'
    BY <2>2 DEF TypeInv, Settings, Trees, Tree, Stacked
  <2>4. Trees' /\ Counters'
    BY <2>2 DEF TypeInv, Trees, Tree, Counters, NoResult
  <2> QED
    BY <2>1, <2>3, <2>4 DEF TypeInv
<1>7. CASE UNCHANGED vars
  BY <1>7 DEF vars, calls, TypeInv, Settings, Trees, Tree, Stacked, Sound, Counters
<1> QED
  <2>1. ASSUME NEW fails \in BOOLEAN, ListLocal(fails) \/ ListRemote(fails) PROVE TypeInv'
    BY <1>1, <2>1 DEF ListLocal, ListRemote, At, Side
  <2> QED
    BY <1>2, <1>3, <1>4, <1>5, <1>6, <1>7, <2>1 DEF Next, Terminated

\* The variables have their types: in every Sync the calls on the stack go one directory
\* deeper each, and a tree never has an entry below something that is no directory.
THEOREM TypeCorrect == Spec => []TypeOK
<1>1. TypeInv => TypeOK
  <2> SUFFICES ASSUME TypeInv PROVE TypeOK
    OBVIOUS
  <2>1. \A p \in Entry : p \in Path /\ Front(p) \in Path /\ Front(p) # p /\ IsPrefix(Front(p), p)
    <3> SUFFICES ASSUME NEW p \in Entry
                 PROVE  p \in Path /\ Front(p) \in Path /\ Front(p) # p /\ IsPrefix(Front(p), p)
      OBVIOUS
    <3>1. p \in Path /\ Front(p) \in Inner
      BY FrontIs
    <3>2. PICK n \in Name : p = Append(Front(p), n)
      BY FrontIs
    <3> DEFINE d == Front(p)
    <3>3. d \in Inner /\ p = Append(d, n)
      BY <3>1, <3>2
    <3> HIDE DEF d
    <3>4. IsPrefix(d, p) /\ d # p
      BY <3>3, Branches
    <3> QED
      BY <3>1, <3>4 DEF d, Inner
  <2>2. /\ {fs, fs0} \subseteq [Side -> [Path -> Node]]
        /\ \A s \in Side : \A p \in Entry : Exists(fs[s][p]) => fs[s][Front(p)].kind = "dir"
    BY <2>1 DEF TypeInv, Settings, Trees, Tree
  <2>3. ASSUME NEW i \in DOMAIN stack
        PROVE  /\ stack[i].dir \in Inner /\ Len(stack[i].dir) = i - 1
               /\ stack[i].todo \subseteq Name
               /\ stack[i].job \in [Name -> JobState]
               /\ i < Len(stack) => stack[i].phase = "visit"
    <3>1. i \in 1 .. Len(stack) /\ stack[i] \in Frame
      BY DEF TypeInv, Stacked
    <3> QED
      BY <3>1 DEF TypeInv, Stacked, Frame
  <2> QED
    BY <2>2, <2>3 DEF TypeInv, TypeOK, Settings, Stacked, Counters
<1> QED
  BY <1>1, InitType, NextType, PTL DEF Spec
--------------------------------------------------------------------------------
(***************************************************************************)
(* What one Sync does, as long as no List of an existing directory fails.  *)
(* Every entry is open until the call that lists its directory has dealt   *)
(* with it: then it is as it was; afterwards it is as it is to be.         *)
(***************************************************************************)
\* A name of the destination's listing that the source's has not, in any frame.
ExtraIn(c, n) ==
  OneWay /\ opts.delete /\ Exists(c.list[Dest][n]) /\ ~Exists(c.list[Source][n])

\* The call c has still to deal with its entry n.
OpenAt(c, n) ==
  \/ c.phase \in {"listLocal", "listRemote"}
  \/ n \in c.todo
  \/ c.job[n] \in {"waiting", "running"}
  \/ c.phase = "visit" /\ ExtraIn(c, n)
OpenIn(c, p) == \E n \in Name : OpenAt(c, n) /\ IsPrefix(Append(c.dir, n), p)
OpenOn(st, p) == \E i \in 1 .. Len(st) : OpenIn(st[i], p)

\* What is below the directory of a call is no longer open in the calls around it.
Nested(st) ==
  \A i, j \in 1 .. Len(st) : \A p \in Path :
    i < j /\ IsPrefix(st[j].dir, p) => ~OpenIn(st[i], p)

\* What a call knows of its directory is what the trees had there when Sync began.
Faithful(c) ==
  /\ OneWay => Visited(c.dir)
  /\ c.phase # "listLocal" =>
       \A n \in Name : c.list["local"][n] = fs0["local"][Append(c.dir, n)]
  /\ c.phase \in {"visit", "run"} =>
       \A n \in Name : c.list["remote"][n] = fs0["remote"][Append(c.dir, n)]
  /\ \A n \in c.todo : /\ c.phase = "visit" /\ c.job[n] = "none"
                       /\ OneWay => Exists(src0(Append(c.dir, n)))
  /\ \A n \in Name : c.job[n] # "none" =>
       /\ c.phase \in {"visit", "run"}
       /\ OneWay => ExtraIn(c, n) \/ Due(Append(c.dir, n))

\* The entry that a Sync without an error leaves at p.
Exactly(p, now) ==
  IF Gone(p) THEN now = Absent
  ELSE IF Due(p) THEN now = File(src0(p).content, Stamp(Dest))
  ELSE IF Visited(p) THEN now.kind = "dir"
  ELSE now = dst0(p)

Newer(s, p) ==
  LET x == fs0[s][p]
      y == fs0[Other(s)][p]
      shift == IF s = "local" THEN opts.offset ELSE 0 - opts.offset
  IN Exists(x) /\ (Exists(y) => x.mtime > y.mtime + shift)
Agreed(p, l, r) ==
  /\ Exists(fs0["local"][p]) \/ Exists(fs0["remote"][p]) => Exists(l) /\ Exists(r)
  /\ \A s \in Side : Newer(s, p) => Same(l, fs0[s][p]) /\ Same(r, fs0[s][p])

Right(p) ==
  IF OneWay THEN Exactly(p, fs[Dest][p]) ELSE Flat => Agreed(p, fs["local"][p], fs["remote"][p])

SourceKept == OneWay => fs[Source] = fs0[Source]
Calm == failed => status = "error" \/ (status = "running" /\ top.phase = "run")
Shallow == ~OneWay => Len(stack) <= 1
Untouched == \A p \in Entry : OpenOn(stack, p) => \A s \in Side : fs[s][p] = fs0[s][p]
Finished == status # "error" /\ ~failed => \A p \in Entry : OpenOn(stack, p) \/ Right(p)
\* What a second Sync finds to do: the files dated later than their copies can be.
Late(p) == src0(p).kind = "file" /\ src0(p).mtime > Clock(Dest, round - 1)
Repeated ==
  OneWay /\ opts.update /\ before = "ok" =>
    /\ \A w \in done : Late(w[2])
    /\ \A p \in Entry : ~Gone(p) /\ (Due(p) => Late(p))

Inv2 ==
  /\ SourceKept /\ Calm /\ Shallow /\ Nested(stack)
  /\ \A i \in 1 .. Len(stack) : Faithful(stack[i])
  /\ Untouched /\ OnlyWhatIsDue /\ Finished /\ Repeated

\* The options and the trees Sync was called on stay, and so does what they say.
LEMMA Frozen ==
  ASSUME UNCHANGED <<opts, fs0, round>>
  PROVE  /\ OneWay' <=> OneWay
         /\ Source' = Source /\ Dest' = Dest
         /\ Flat' <=> Flat
         /\ \A s : Stamp(s)' = Stamp(s)
         /\ \A p : src0(p)' = src0(p) /\ dst0(p)' = dst0(p)
         /\ \A p : Visible(p)' <=> Visible(p)
         /\ \A p : Visited(p)' <=> Visited(p)
         /\ \A p : Due(p)' <=> Due(p)
         /\ \A p : Gone(p)' <=> Gone(p)
         /\ \A p, x : Exactly(p, x)' <=> Exactly(p, x)
         /\ \A p, x : Settled(p, x)' <=> Settled(p, x)
         /\ \A p, x, y : Agreed(p, x, y)' <=> Agreed(p, x, y)
         /\ \A c, n : ExtraIn(c, n)' <=> ExtraIn(c, n)
         /\ \A c, n : OpenAt(c, n)' <=> OpenAt(c, n)
         /\ \A c, p : OpenIn(c, p)' <=> OpenIn(c, p)
         /\ \A c : Faithful(c)' <=> Faithful(c)
<1>1. Source' = Source /\ Dest' = Dest /\ (OneWay' <=> OneWay) /\ (Flat' <=> Flat)
      /\ \A s : Stamp(s)' = Stamp(s)
  BY DEF Source, Dest, OneWay, Flat, Stamp, Clock
<1>2. \A p : src0(p)' = src0(p) /\ dst0(p)' = dst0(p)
  BY <1>1 DEF src0, dst0
<1>3. \A p : Visible(p)' <=> Visible(p)
  BY DEF Visible, IsIgnored
<1>4. \A p : Visited(p)' <=> Visited(p)
  BY <1>2, <1>3 DEF Visited
<1>5. \A p : Due(p)' <=> Due(p)
  BY <1>2, <1>3 DEF Due
<1>6. \A p : Gone(p)' <=> Gone(p)
  BY <1>2, <1>4 DEF Gone
<1>7. \A p, x : Exactly(p, x)' <=> Exactly(p, x)
  BY <1>1, <1>2, <1>4, <1>5, <1>6 DEF Exactly
<1>8. \A p, x : Settled(p, x)' <=> Settled(p, x)
  BY <1>2, <1>4, <1>5, <1>6 DEF Settled
<1>9. \A p, x, y : Agreed(p, x, y)' <=> Agreed(p, x, y)
  BY DEF Agreed, Newer
<1>10. \A c, n : ExtraIn(c, n)' <=> ExtraIn(c, n)
  BY <1>1 DEF ExtraIn
<1>11. \A c, n : OpenAt(c, n)' <=> OpenAt(c, n)
  BY <1>10 DEF OpenAt
<1>12. \A c, p : OpenIn(c, p)' <=> OpenIn(c, p)
  BY <1>11 DEF OpenIn
<1>13. \A c : Faithful(c)' <=> Faithful(c)
  BY <1>1, <1>2, <1>4, <1>5, <1>10 DEF Faithful
<1> QED
  BY <1>1, <1>2, <1>3, <1>4, <1>5, <1>6, <1>7, <1>8, <1>9, <1>10, <1>11, <1>12, <1>13

LEMMA Fronts ==
  /\ \A k \in Entry : /\ k \in Path /\ Front(k) \in Path /\ Front(k) \in Inner
                      /\ IsPrefix(Front(k), k) /\ ~IsPrefix(k, Front(k))
  /\ \A q \in Path : \A k \in Entry : IsPrefix(q, k) => q = k \/ IsPrefix(q, Front(k))
<1> SUFFICES ASSUME NEW k \in Entry
             PROVE  /\ k \in Path /\ Front(k) \in Path /\ Front(k) \in Inner
                    /\ IsPrefix(Front(k), k) /\ ~IsPrefix(k, Front(k))
                    /\ \A q \in Path : IsPrefix(q, k) => q = k \/ IsPrefix(q, Front(k))
  OBVIOUS
<1> DEFINE d == Front(k)
<1>1. k \in Path /\ d \in Inner /\ d \in Path
  BY FrontIs DEF Inner
<1>2. PICK n \in Name : k = Append(d, n)
  BY FrontIs
<1> HIDE DEF d
<1>3. /\ IsPrefix(d, k) /\ ~IsPrefix(k, d)
      /\ \A q \in Path : IsPrefix(q, k) => q = k \/ IsPrefix(q, d)
  BY <1>1, <1>2, Branches
<1> QED
  BY <1>1, <1>3 DEF d

\* What the options and the trees say of an entry and of what is below it.
LEMMA Ruled ==
  ASSUME Settings
  PROVE  /\ \A q, d \in Path : IsPrefix(q, d) /\ Visited(d) => Visited(q)
         /\ \A q \in Entry : Visited(q) => ~Gone(q) /\ ~Due(q) /\ Exists(src0(q))
         /\ \A k \in Entry : Due(k) => ~Visited(k) /\ Exists(src0(k))
         /\ \A k \in Entry : \A p \in Path :
              IsPrefix(k, p) /\ Visited(Front(k)) =>
                /\ opts.delete /\ Exists(dst0(k)) /\ ~Exists(src0(k)) => Gone(p)
                /\ ~Visited(k) /\ ~(opts.delete /\ Exists(dst0(k)) /\ ~Exists(src0(k))) =>
                     ~Gone(p) /\ ~Visited(p) /\ (p # k => ~Due(p))
<1>1. Tree(fs0[Source]) /\ \A p \in Path : src0(p) = fs0[Source][p] /\ src0(p) \in Node
  BY Sides DEF Settings, src0
<1>2. \A p, q \in Path : IsPrefix(q, p) /\ q # p /\ Exists(src0(p)) => src0(q).kind = "dir"
  BY <1>1 DEF Tree
<1>3. \A x \in Node : (x.kind = "dir" => Exists(x)) /\ (x.kind = "file" => Exists(x))
  BY NodeFacts
<1>4. ASSUME NEW q \in Path, NEW d \in Path, IsPrefix(q, d), Visited(d) PROVE Visited(q)
  <2>1. CASE d = Root
    BY <1>4, <2>1, Order DEF Visited
  <2>2. CASE d # Root
    <3>1. Visible(d) /\ src0(d).kind = "dir" /\ Exists(src0(d))
      BY <1>1, <1>3, <1>4, <2>2 DEF Visited
    <3>2. Visible(q) /\ src0(q).kind = "dir"
      BY <1>2, <1>4, <3>1, Seeing
    <3> QED
      BY <3>2 DEF Visited
  <2> QED
    BY <2>1, <2>2
<1>5. ASSUME NEW q \in Entry, Visited(q) PROVE ~Gone(q) /\ ~Due(q) /\ Exists(src0(q))
  <2>1. q \in Path /\ q # Root /\ src0(q).kind = "dir" /\ Exists(src0(q))
    BY <1>1, <1>3, <1>5 DEF Visited, Entry
  <2>2. ASSUME NEW r \in Entry, IsPrefix(r, q) PROVE Exists(src0(r))
    BY <1>1, <1>2, <1>3, <2>1, <2>2 DEF Entry
  <2> QED
    BY <2>1, <2>2 DEF Gone, Due
<1>6. ASSUME NEW k \in Entry, Due(k) PROVE ~Visited(k) /\ Exists(src0(k))
  BY <1>1, <1>3, <1>6 DEF Due, Visited, Entry
<1>7. ASSUME NEW k \in Entry, NEW p \in Path, IsPrefix(k, p), Visited(Front(k)),
             opts.delete, Exists(dst0(k)), ~Exists(src0(k))
      PROVE  Gone(p)
  BY <1>7 DEF Gone
<1>8. ASSUME NEW k \in Entry, NEW p \in Path, IsPrefix(k, p), Visited(Front(k)),
             ~Visited(k), ~(opts.delete /\ Exists(dst0(k)) /\ ~Exists(src0(k)))
      PROVE  ~Gone(p) /\ ~Visited(p) /\ (p # k => ~Due(p))
  <2>1. k \in Path /\ Front(k) \in Path /\ k # Root
    BY Fronts DEF Entry
  <2>2. ~Visited(p)
    BY <1>4, <1>8, <2>1
  <2>3. p # k => ~Due(p)
    <3> SUFFICES ASSUME p # k, Due(p) PROVE FALSE
      OBVIOUS
    <3>1. Visible(p) /\ Exists(src0(p))
      BY <1>1, <1>3 DEF Due
    <3>2. Visible(k) /\ src0(k).kind = "dir"
      BY <1>2, <1>8, <2>1, <3>1, Seeing
    <3> QED
      BY <1>8, <3>2 DEF Visited
  <2>4. ASSUME Gone(p) PROVE FALSE
    <3>1. PICK q \in Entry : /\ opts.delete /\ IsPrefix(q, p) /\ Visited(Front(q))
                             /\ Exists(dst0(q)) /\ ~Exists(src0(q))
      BY <2>4 DEF Gone
    <3>2. q \in Path /\ Front(q) \in Path /\ q # k
      BY <1>8, <3>1, Fronts
    <3>3. CASE IsPrefix(q, k)
      <4>1. IsPrefix(q, Front(k))
        BY <3>2, <3>3, Fronts
      <4>2. Visited(q)
        BY <1>4, <1>8, <2>1, <3>2, <4>1
      <4> QED
        BY <1>5, <3>1, <4>2
    <3>4. CASE IsPrefix(k, q)
      <4>1. IsPrefix(k, Front(q))
        BY <2>1, <3>2, <3>4, Fronts
      <4>2. Visited(k)
        BY <1>4, <2>1, <3>1, <3>2, <4>1
      <4> QED
        BY <1>8, <4>2
    <3> QED
      BY <1>8, <2>1, <3>1, <3>2, <3>3, <3>4, Branches
  <2> QED
    BY <2>2, <2>3, <2>4
<1> QED
  BY <1>4, <1>5, <1>6, <1>7, <1>8
\* Which entries are open depends on the innermost call whose directory they are below.
LEMMA OpenBranch ==
  ASSUME NEW c \in Frame, NEW n \in Name, NEW p \in Path, IsPrefix(Append(c.dir, n), p)
  PROVE  OpenIn(c, p) <=> OpenAt(c, n)
<1>1. c.dir \in Inner
  BY DEF Frame
<1>2. \A m \in Name : IsPrefix(Append(c.dir, m), p) => m = n
  BY <1>1, Branches
<1> QED
  BY <1>2 DEF OpenIn

LEMMA OpenOf ==
  ASSUME NEW st \in Seq(Frame), st # <<>>, Nested(st),
         NEW t, t = st[Len(st)]
  PROVE  /\ \A n \in Name : \A p \in Path :
              IsPrefix(Append(t.dir, n), p) => (OpenOn(st, p) <=> OpenAt(t, n))
         /\ \A p \in Path : IsPrefix(p, t.dir) => ~OpenOn(st, p)
<1>1. /\ Len(st) \in Nat \ {0} /\ t \in Frame /\ t.dir \in Inner /\ t.dir \in Path
      /\ \A i \in 1 .. Len(st) : st[i] \in Frame /\ st[i].dir \in Inner
  <2>1. Len(st) \in Nat \ {0} /\ \A i \in 1 .. Len(st) : st[i] \in Frame
    OBVIOUS
  <2>2. \A c \in Frame : c.dir \in Inner /\ c.dir \in Path
    BY DEF Frame, Inner
  <2> QED
    BY <2>1, <2>2
<1>2. \A i \in 1 .. Len(st) : \A p \in Path :
        IsPrefix(t.dir, p) /\ OpenIn(st[i], p) => i = Len(st)
  <2> SUFFICES ASSUME NEW i \in 1 .. Len(st), NEW p \in Path, IsPrefix(t.dir, p),
                      OpenIn(st[i], p), i # Len(st)
               PROVE  FALSE
    OBVIOUS
  <2>1. i < Len(st) /\ Len(st) \in 1 .. Len(st)
    BY <1>1
  <2> QED
    BY <2>1 DEF Nested
<1>3. ASSUME NEW n \in Name, NEW p \in Path, IsPrefix(Append(t.dir, n), p)
      PROVE  OpenOn(st, p) <=> OpenAt(t, n)
  <2>1. IsPrefix(t.dir, p)
    <3> DEFINE k == Append(t.dir, n)
    <3>1. IsPrefix(t.dir, k) /\ k \in Path
      BY <1>1, Branches, ChildIs
    <3>2. IsPrefix(k, p)
      BY <1>3
    <3> HIDE DEF k
    <3> QED
      BY <1>1, <3>1, <3>2, Order
  <2>2. OpenOn(st, p) <=> OpenIn(t, p)
    BY <1>1, <1>2, <2>1 DEF OpenOn
  <2>3. OpenIn(t, p) <=> OpenAt(t, n)
    BY <1>1, <1>3, OpenBranch
  <2> QED
    BY <2>2, <2>3
<1>4. ASSUME NEW p \in Path, IsPrefix(p, t.dir), OpenOn(st, p) PROVE FALSE
  <2>1. PICK i \in 1 .. Len(st) : OpenIn(st[i], p)
    BY <1>4 DEF OpenOn
  <2>2. PICK n \in Name : OpenAt(st[i], n) /\ IsPrefix(Append(st[i].dir, n), p)
    BY <2>1 DEF OpenIn
  <2> DEFINE k == Append(st[i].dir, n)
  <2>3. k \in Path /\ IsPrefix(k, p) /\ ~IsPrefix(k, st[i].dir)
    BY <1>1, <2>2, ChildIs, Branches
  <2>4. IsPrefix(k, t.dir)
    <3> HIDE DEF k
    <3> QED
      BY <1>1, <1>4, <2>3, Order
  <2>5. OpenIn(st[i], t.dir)
    BY <2>2, <2>4 DEF OpenIn
  <2>6. i = Len(st)
    BY <1>1, <1>2, <2>5, Order
  <2> QED
    BY <2>3, <2>4, <2>6
<1> QED
  BY <1>3, <1>4

\* The innermost call goes on.
LEMMA OpenReplaced ==
  ASSUME TypeInv, status = "running", Nested(stack), NEW f \in Frame, f.dir = top.dir,
         NEW st \in Seq(Frame), st # <<>>, Len(st) = Len(stack), st[Len(stack)] = f,
         \A i \in 1 .. Len(stack) : i # Len(stack) => st[i] = stack[i]
  PROVE  /\ Nested(st)
         /\ \A n \in Name : \A p \in Path : IsPrefix(Append(top.dir, n), p) =>
              /\ OpenOn(st, p) <=> OpenAt(f, n)
              /\ OpenOn(stack, p) <=> OpenAt(top, n)
         /\ \A p \in Path : (\A n \in Name : ~IsPrefix(Append(top.dir, n), p)) =>
              (OpenOn(st, p) <=> OpenOn(stack, p))
<1>1. /\ st \in Seq(Frame) /\ Len(st) = Len(stack) /\ st # <<>>
      /\ st[Len(stack)] = f
      /\ \A i \in 1 .. Len(stack) : i # Len(stack) => st[i] = stack[i]
  OBVIOUS
<1>2. /\ Len(stack) \in 1 .. Len(stack) /\ Len(stack) \in Nat \ {0} /\ stack \in Seq(Frame)
      /\ top = stack[Len(stack)] /\ stack # <<>>
  BY TopIs DEF TypeInv, Stacked
<1>3. Nested(st)
  <2> SUFFICES ASSUME NEW i \in 1 .. Len(st), NEW j \in 1 .. Len(st), NEW p \in Path,
                      i < j, IsPrefix(st[j].dir, p)
               PROVE  ~OpenIn(st[i], p)
    BY DEF Nested
  <2>1. i # Len(stack) /\ i \in 1 .. Len(stack) /\ j \in 1 .. Len(stack)
    BY <1>1, <1>2
  <2>2. st[i] = stack[i] /\ st[j].dir = stack[j].dir
    BY <1>1, <1>2, <2>1
  <2> QED
    BY <2>1, <2>2 DEF Nested
<1>4. ASSUME NEW n \in Name, NEW p \in Path, IsPrefix(Append(top.dir, n), p)
      PROVE  (OpenOn(st, p) <=> OpenAt(f, n)) /\ (OpenOn(stack, p) <=> OpenAt(top, n))
  <2>1. IsPrefix(Append(f.dir, n), p)
    BY <1>4
  <2>2. OpenOn(st, p) <=> OpenAt(f, n)
    BY <1>1, <1>3, <2>1, OpenOf
  <2>3. OpenOn(stack, p) <=> OpenAt(top, n)
    BY <1>2, <1>4, OpenOf
  <2> QED
    BY <2>2, <2>3
<1>5. ASSUME NEW p \in Path, \A n \in Name : ~IsPrefix(Append(top.dir, n), p)
      PROVE  OpenOn(st, p) <=> OpenOn(stack, p)
  <2>1. ~OpenIn(f, p) /\ ~OpenIn(top, p)
    BY <1>5 DEF OpenIn
  <2> QED
    BY <1>1, <1>2, <2>1 DEF OpenOn
<1> QED
  BY <1>1, <1>3, <1>4, <1>5

LEMMA OpenUpdated ==
  ASSUME TypeInv, status = "running", Nested(stack), NEW f \in Frame, Update(f), f.dir = top.dir
  PROVE  /\ Nested(stack') /\ stack' # <<>> /\ stack' \in Seq(Frame) /\ Len(stack') = Len(stack)
         /\ stack'[Len(stack)] = f
         /\ \A i \in 1 .. Len(stack) : i # Len(stack) => stack'[i] = stack[i]
         /\ \A n \in Name : \A p \in Path : IsPrefix(Append(top.dir, n), p) =>
              /\ OpenOn(stack', p) <=> OpenAt(f, n)
              /\ OpenOn(stack, p) <=> OpenAt(top, n)
         /\ \A p \in Path : (\A n \in Name : ~IsPrefix(Append(top.dir, n), p)) =>
              (OpenOn(stack', p) <=> OpenOn(stack, p))
<1>1. /\ stack' \in Seq(Frame) /\ Len(stack') = Len(stack) /\ stack' # <<>>
      /\ stack'[Len(stack)] = f
      /\ \A i \in 1 .. Len(stack) : i # Len(stack) => stack'[i] = stack[i]
  BY Updated
<1> QED
  BY <1>1, OpenReplaced

\* A call on top of the others.
LEMMA OpenPushed ==
  ASSUME NEW st \in Seq(Frame), st # <<>>, Nested(st), NEW c \in Frame,
         \A p \in Path : IsPrefix(c.dir, p) => ~OpenOn(st, p),
         NEW su \in Seq(Frame), Len(su) = Len(st) + 1, su[Len(st) + 1] = c,
         \A i \in 1 .. Len(st) : su[i] = st[i]
  PROVE  Nested(su) /\ \A p \in Path : OpenOn(su, p) <=> OpenOn(st, p) \/ OpenIn(c, p)
<1>1. Len(st) \in Nat
  OBVIOUS
<1>2. ASSUME NEW p \in Path PROVE OpenOn(su, p) <=> OpenOn(st, p) \/ OpenIn(c, p)
  <2>1. \A i \in 1 .. Len(su) : i \in 1 .. Len(st) \/ i = Len(st) + 1
    BY <1>1
  <2>2. Len(st) + 1 \in 1 .. Len(su) /\ \A i \in 1 .. Len(st) : i \in 1 .. Len(su)
    BY <1>1
  <2> QED
    BY <2>1, <2>2 DEF OpenOn
<1>3. ASSUME NEW i \in 1 .. Len(su), NEW j \in 1 .. Len(su), NEW p \in Path,
             i < j, IsPrefix(su[j].dir, p)
      PROVE  ~OpenIn(su[i], p)
  <2>1. i \in 1 .. Len(st) /\ su[i] = st[i]
    BY <1>1, <1>3
  <2>2. CASE j = Len(st) + 1
    <3>1. ~OpenOn(st, p)
      BY <1>3, <2>2
    <3> QED
      BY <2>1, <3>1 DEF OpenOn
  <2>3. CASE j # Len(st) + 1
    <3>1. j \in 1 .. Len(st) /\ su[j] = st[j]
      BY <1>1, <2>3
    <3> QED
      BY <1>3, <2>1, <3>1 DEF Nested
  <2> QED
    BY <2>2, <2>3
<1> QED
  BY <1>2, <1>3 DEF Nested

\* One step of the system, as far as the entries of the trees are concerned.
LEMMA Reached ==
  ASSUME TypeInv, Inv2, UNCHANGED <<opts, fs0, round, before>>,
         OneWay => fs'[Source] = fs[Source],
         failed \/ status = "error" => failed' \/ status' = "error",
         \A p \in Entry : OpenOn(stack', p) =>
           OpenOn(stack, p) /\ \A s \in Side : fs'[s][p] = fs[s][p],
         OneWay => \A p \in Entry :
           \/ fs'[Dest][p] = fs[Dest][p]
           \/ Settled(p, fs'[Dest][p])
           \/ fs'[Dest][p].content = "torn" /\ Due(p) /\ (failed' \/ status' = "error"),
         status' # "error" /\ ~failed' => \A p \in Entry :
           \/ OpenOn(stack', p)
           \/ ~OpenOn(stack, p) /\ \A s \in Side : fs'[s][p] = fs[s][p]
           \/ OneWay /\ Exactly(p, fs'[Dest][p])
           \/ ~OneWay /\ (Flat => Agreed(p, fs'["local"][p], fs'["remote"][p])),
         \/ done' = done
         \/ OneWay => \E p \in Entry : done' = done \cup {<<Dest, p>>} /\ (Due(p) \/ Gone(p)),
         Calm', ~OneWay => Len(stack') <= 1, Nested(stack'),
         \A i \in 1 .. Len(stack') : Faithful(stack'[i])
  PROVE  Inv2'
<1>0. UNCHANGED <<opts, fs0, round>>
  OBVIOUS
<1>1. Source' = Source /\ Dest' = Dest /\ (OneWay' <=> OneWay) /\ (Flat' <=> Flat)
      /\ \A p : src0(p)' = src0(p) /\ dst0(p)' = dst0(p)
  BY <1>0, Frozen
<1>2. SourceKept' /\ Shallow'
  BY <1>1 DEF Inv2, SourceKept, Shallow
<1>3. Nested(stack)' /\ \A p : OpenOn(stack, p)' <=> OpenOn(stack', p)
  <2>1. \A c, p : OpenIn(c, p)' <=> OpenIn(c, p)
    BY <1>0, Frozen
  <2> QED
    BY <2>1 DEF Nested, OpenOn
<1>4. (\A i \in 1 .. Len(stack) : Faithful(stack[i]))'
  <2>1. \A c : Faithful(c)' <=> Faithful(c)
    BY <1>0, Frozen
  <2> QED
    BY <2>1 DEF Faithful
<1>5. Untouched'
  BY <1>3 DEF Inv2, Untouched
<1>6. OnlyWhatIsDue'
  <2>1. ASSUME OneWay, NEW p \in Entry
        PROVE  \/ Same(fs'[Dest][p], dst0(p))
               \/ Settled(p, fs'[Dest][p])
               \/ fs'[Dest][p].content = "torn" /\ Due(p) /\ (failed' \/ status' = "error")
    BY <2>1 DEF Inv2, OnlyWhatIsDue
  <2>2. ASSUME OneWay, NEW p \in Path PROVE fs'[Source][p] = src0(p)
    BY <2>2 DEF Inv2, OnlyWhatIsDue
  <2>3. \A p : (Gone(p)' <=> Gone(p)) /\ (Due(p)' <=> Due(p)) /\ (Visited(p)' <=> Visited(p))
    BY <1>0, Frozen
  <2> QED
    BY <1>1, <2>1, <2>2, <2>3 DEF OnlyWhatIsDue, Settled, Same
<1>7. Finished'
  <2> SUFFICES ASSUME status' # "error", ~failed', NEW p \in Entry, ~OpenOn(stack', p)
               PROVE  Right(p)'
    BY <1>3 DEF Finished
  <2>1. status # "error" /\ ~failed
    OBVIOUS
  <2>2. \/ OneWay /\ Exactly(p, fs'[Dest][p])
        \/ ~OneWay /\ (Flat => Agreed(p, fs'["local"][p], fs'["remote"][p]))
    <3>1. CASE ~OpenOn(stack, p) /\ \A s \in Side : fs'[s][p] = fs[s][p]
      <4>1. Right(p)
        BY <2>1, <3>1 DEF Inv2, Finished
      <4>2. /\ fs'[Dest][p] = fs[Dest][p] /\ fs'["local"][p] = fs["local"][p]
            /\ fs'["remote"][p] = fs["remote"][p]
        BY <3>1, Sides DEF Side, TypeInv
      <4> QED
        BY <4>1, <4>2 DEF Right
    <3> QED
      BY <3>1
  <2>3. \A q, x : Exactly(q, x)' <=> Exactly(q, x)
    BY <1>0, Frozen
  <2>4. CASE OneWay
    <3>1. \A q : (Gone(q)' <=> Gone(q)) /\ (Due(q)' <=> Due(q)) /\ (Visited(q)' <=> Visited(q))
          /\ Stamp(Dest)' = Stamp(Dest)
      BY <1>0, Frozen
    <3>2. Exactly(p, fs[Dest][p])'
      BY <1>1, <2>2, <2>4, <3>1 DEF Exactly, File
    <3> QED
      BY <1>1, <2>4, <3>2 DEF Right
  <2>5. CASE ~OneWay
    BY <1>1, <2>2, <2>5 DEF Right, Agreed, Newer
  <2> QED
    BY <2>4, <2>5
<1>8. Repeated'
  <2> SUFFICES ASSUME OneWay, opts.update, before = "ok"
               PROVE  /\ \A w \in done' : Late(w[2])'
                      /\ \A p \in Entry : ~Gone(p)' /\ (Due(p)' => Late(p)')
    BY <1>1 DEF Repeated
  <2>1. /\ \A w \in done : Late(w[2])
        /\ \A p \in Entry : ~Gone(p) /\ (Due(p) => Late(p))
    BY DEF Inv2, Repeated
  <2>2. \A p : /\ Late(p)' <=> Late(p)
               /\ (Gone(p)' <=> Gone(p)) /\ (Due(p)' <=> Due(p))
    <3>1. \A p : Late(p)' <=> Late(p)
      BY <1>1 DEF Late, Clock
    <3> QED
      BY <1>0, <3>1, Frozen
  <2>3. \A w \in done' : Late(w[2])
    BY <2>1
  <2> QED
    BY <2>1, <2>2, <2>3
<1> QED
  BY <1>2, <1>3, <1>4, <1>5, <1>6, <1>7, <1>8 DEF Inv2
LEMMA ExactlySettles ==
  ASSUME NEW p, NEW x, Exactly(p, x)
  PROVE  Settled(p, x)
BY DEF Exactly, Settled, Same, File, Absent, Exists, Due

\* A step of the innermost call that stays in its directory.
LEMMA Advanced ==
  ASSUME TypeInv, Inv2, status = "running", UNCHANGED <<opts, fs0, round, before, status>>,
         NEW f \in Frame, Update(f), f.dir = top.dir, Faithful(f),
         OneWay => fs'[Source] = fs[Source],
         failed => failed', failed' => f.phase = "run",
         \A p \in Entry : (\A n \in Name : ~IsPrefix(Append(top.dir, n), p)) =>
           \/ \A s \in Side : fs'[s][p] = fs[s][p]
           \/ OneWay /\ IsPrefix(p, top.dir) /\ fs'[Dest][p].kind = "dir",
         \A n \in Name : \A p \in Entry : IsPrefix(Append(top.dir, n), p) =>
           \/ (OpenAt(f, n) <=> OpenAt(top, n)) /\ \A s \in Side : fs'[s][p] = fs[s][p]
           \/ /\ ~OpenAt(f, n)
              /\ OneWay => \/ fs'[Dest][p] = fs[Dest][p]
                           \/ Settled(p, fs'[Dest][p])
                           \/ fs'[Dest][p].content = "torn" /\ Due(p) /\ failed'
              /\ ~failed' => \/ OneWay /\ Exactly(p, fs'[Dest][p])
                             \/ ~OneWay /\ (Flat => Agreed(p, fs'["local"][p], fs'["remote"][p])),
         \/ done' = done
         \/ OneWay => \E p \in Entry : done' = done \cup {<<Dest, p>>} /\ (Due(p) \/ Gone(p))
  PROVE  Inv2'
<1>1. /\ Nested(stack') /\ stack' # <<>> /\ stack' \in Seq(Frame) /\ Len(stack') = Len(stack)
      /\ stack'[Len(stack)] = f
      /\ \A i \in 1 .. Len(stack) : i # Len(stack) => stack'[i] = stack[i]
      /\ \A n \in Name : \A p \in Path : IsPrefix(Append(top.dir, n), p) =>
           /\ OpenOn(stack', p) <=> OpenAt(f, n)
           /\ OpenOn(stack, p) <=> OpenAt(top, n)
      /\ \A p \in Path : (\A n \in Name : ~IsPrefix(Append(top.dir, n), p)) =>
           (OpenOn(stack', p) <=> OpenOn(stack, p))
  BY OpenUpdated DEF Inv2
<1>2. /\ Len(stack) \in 1 .. Len(stack) /\ Len(stack) \in Nat \ {0} /\ stack \in Seq(Frame)
      /\ top = stack[Len(stack)] /\ stack # <<>> /\ top.dir \in Path
      /\ \A p \in Entry : p \in Path
  BY TopIs DEF TypeInv, Stacked, Entry
<1>3. Faithful(top)
  BY <1>2 DEF Inv2
<1>4. ASSUME NEW p \in Entry, OneWay, IsPrefix(p, top.dir)
      PROVE  ~OpenOn(stack, p) /\ Visited(p) /\ ~Gone(p) /\ ~Due(p)
  <2>1. ~OpenOn(stack, p)
    BY <1>2, <1>4, OpenOf DEF Inv2
  <2>2. Visited(p)
    BY <1>2, <1>3, <1>4, Ruled DEF Faithful, TypeInv
  <2> QED
    BY <2>1, <2>2, Ruled DEF TypeInv
<1>5. \A p \in Entry : OpenOn(stack', p) =>
        OpenOn(stack, p) /\ \A s \in Side : fs'[s][p] = fs[s][p]
  <2> SUFFICES ASSUME NEW p \in Entry, OpenOn(stack', p)
               PROVE  OpenOn(stack, p) /\ \A s \in Side : fs'[s][p] = fs[s][p]
    OBVIOUS
  <2>1. CASE \E n \in Name : IsPrefix(Append(top.dir, n), p)
    BY <1>1, <1>2, <2>1
  <2>2. CASE \A n \in Name : ~IsPrefix(Append(top.dir, n), p)
    BY <1>1, <1>2, <1>4, <2>2
  <2> QED
    BY <2>1, <2>2
<1>6. ASSUME OneWay, NEW p \in Entry
      PROVE  \/ fs'[Dest][p] = fs[Dest][p]
             \/ Settled(p, fs'[Dest][p])
             \/ fs'[Dest][p].content = "torn" /\ Due(p) /\ (failed' \/ status' = "error")
  <2>0. Dest \in Side
    BY Sides DEF TypeInv
  <2>1. CASE \E n \in Name : IsPrefix(Append(top.dir, n), p)
    BY <1>6, <2>0, <2>1
  <2>2. CASE \A n \in Name : ~IsPrefix(Append(top.dir, n), p)
    <3>1. CASE \A s \in Side : fs'[s][p] = fs[s][p]
      BY <2>0, <3>1
    <3>2. CASE IsPrefix(p, top.dir) /\ fs'[Dest][p].kind = "dir"
      BY <1>4, <1>6, <3>2 DEF Settled
    <3> QED
      BY <2>2, <3>1, <3>2
  <2> QED
    BY <2>1, <2>2
<1>7. ASSUME ~failed', NEW p \in Entry
      PROVE  \/ OpenOn(stack', p)
             \/ ~OpenOn(stack, p) /\ \A s \in Side : fs'[s][p] = fs[s][p]
             \/ OneWay /\ Exactly(p, fs'[Dest][p])
             \/ ~OneWay /\ (Flat => Agreed(p, fs'["local"][p], fs'["remote"][p]))
  <2>1. CASE \E n \in Name : IsPrefix(Append(top.dir, n), p)
    BY <1>1, <1>2, <1>7, <2>1
  <2>2. CASE \A n \in Name : ~IsPrefix(Append(top.dir, n), p)
    <3>1. CASE \A s \in Side : fs'[s][p] = fs[s][p]
      BY <1>1, <1>2, <2>2, <3>1
    <3>2. CASE OneWay /\ IsPrefix(p, top.dir) /\ fs'[Dest][p].kind = "dir"
      BY <1>4, <3>2 DEF Exactly
    <3> QED
      BY <2>2, <3>1, <3>2
  <2> QED
    BY <2>1, <2>2
<1>8. Calm'
  <2>1. top' = stack'[Len(stack')]
    BY DEF top
  <2> QED
    BY <1>1, <2>1 DEF Calm
<1>9. ~OneWay => Len(stack') <= 1
  BY <1>1 DEF Inv2, Shallow
<1>10. \A i \in 1 .. Len(stack') : Faithful(stack'[i])
  BY <1>1 DEF Inv2
<1>11. failed \/ status = "error" => failed' \/ status' = "error"
  OBVIOUS
<1> QED
  BY <1>1, <1>5, <1>6, <1>7, <1>8, <1>9, <1>10, <1>11, Reached

\* What the innermost call knows of one of its entries.
LEMMA TopKnows ==
  ASSUME TypeInv, Inv2, status = "running", top.phase \in {"visit", "run"},
         NEW n \in Name, NEW k, k = Append(top.dir, n)
  PROVE  /\ k \in Entry /\ k \in Path /\ Front(k) = top.dir
         /\ \A s \in Side : Seen(s, n) = fs0[s][k] /\ fs0[s][k] \in Node
         /\ Seen(Source, n) = src0(k) /\ Seen(Dest, n) = dst0(k)
         /\ src0(k) \in Node /\ dst0(k) \in Node
         /\ OneWay => Visited(top.dir)
         /\ Extraneous(n) <=> ExtraIn(top, n)
         /\ Extraneous(n) <=> OneWay /\ opts.delete /\ Exists(dst0(k)) /\ ~Exists(src0(k))
         /\ Visible(k) <=> Visible(top.dir) /\ ~IsIgnored(n)
         /\ OneWay => Visible(top.dir)
<1>1. /\ top.dir \in Inner /\ top = stack[Len(stack)] /\ Len(stack) \in 1 .. Len(stack)
  BY TopIs
<1>2. Faithful(top)
  BY <1>1 DEF Inv2
<1>3. k \in Entry /\ k \in Path /\ Front(k) = top.dir
  BY <1>1, ChildIs
<1>4. \A s \in Side : Seen(s, n) = fs0[s][k] /\ fs0[s][k] \in Node
  <2>1. Seen("local", n) = fs0["local"][k] /\ Seen("remote", n) = fs0["remote"][k]
    BY <1>2 DEF Faithful, Seen
  <2>2. \A s \in Side : fs0[s][k] \in Node
    BY <1>3 DEF TypeInv, Settings
  <2> QED
    BY <2>1, <2>2 DEF Side
<1>5. /\ Seen(Source, n) = src0(k) /\ Seen(Dest, n) = dst0(k)
      /\ src0(k) \in Node /\ dst0(k) \in Node
  BY <1>4, Sides DEF src0, dst0, TypeInv
<1>6. /\ Extraneous(n) <=> ExtraIn(top, n)
      /\ Extraneous(n) <=> OneWay /\ opts.delete /\ Exists(dst0(k)) /\ ~Exists(src0(k))
  BY <1>5 DEF Extraneous, ExtraIn, Seen
<1>7. /\ Visible(k) <=> Visible(top.dir) /\ ~IsIgnored(n)
      /\ OneWay => Visited(top.dir) /\ Visible(top.dir)
  BY <1>1, <1>2, Seeing DEF Faithful, Visited
<1> QED
  BY <1>3, <1>4, <1>5, <1>6, <1>7

\* An entry of the source that is passed over, with all that is below it.
LEMMA Passed ==
  ASSUME Settings, NEW k \in Entry, Visited(Front(k)), ~Visited(k), ~Due(k),
         ~(opts.delete /\ Exists(dst0(k)) /\ ~Exists(src0(k))), NEW p \in Path, IsPrefix(k, p)
  PROVE  Exactly(p, dst0(p))
<1>1. ~Gone(p) /\ ~Visited(p) /\ (p # k => ~Due(p))
  BY Ruled
<1> QED
  BY <1>1 DEF Exactly

\* A step of the innermost call that leaves the trees alone.
LEMMA Quiet ==
  ASSUME TypeInv, Inv2, status = "running",
         UNCHANGED <<opts, fs0, round, before, status, fs, done, failed>>,
         NEW f \in Frame, Update(f), f.dir = top.dir, Faithful(f),
         failed => f.phase = "run",
         \A n \in Name :
           \/ OpenAt(f, n) <=> OpenAt(top, n)
           \/ /\ ~OpenAt(f, n) /\ OpenAt(top, n)
              /\ \A p \in Entry : IsPrefix(Append(top.dir, n), p) =>
                   \/ OneWay /\ Exactly(p, dst0(p))
                   \/ ~OneWay /\ (Flat => Agreed(p, fs0["local"][p], fs0["remote"][p]))
  PROVE  Inv2'
<1>1. ASSUME NEW n \in Name, NEW p \in Entry, IsPrefix(Append(top.dir, n), p)
      PROVE  \/ (OpenAt(f, n) <=> OpenAt(top, n)) /\ \A s \in Side : fs'[s][p] = fs[s][p]
             \/ /\ ~OpenAt(f, n) /\ fs'[Dest][p] = fs[Dest][p]
                /\ \/ OneWay /\ Exactly(p, fs'[Dest][p])
                   \/ ~OneWay /\ (Flat => Agreed(p, fs'["local"][p], fs'["remote"][p]))
  <2>1. CASE OpenAt(f, n) <=> OpenAt(top, n)
    BY <2>1
  <2>2. CASE ~OpenAt(f, n) /\ OpenAt(top, n)
    <3>1. OpenOn(stack, p)
      <4>1. /\ stack \in Seq(Frame) /\ stack # <<>> /\ top = stack[Len(stack)] /\ p \in Path
        BY TopIs DEF TypeInv, Stacked, Entry
      <4> QED
        BY <1>1, <2>2, <4>1, OpenOf DEF Inv2
    <3>2. /\ fs[Dest][p] = dst0(p) /\ fs["local"][p] = fs0["local"][p]
          /\ fs["remote"][p] = fs0["remote"][p]
      BY <3>1, Sides DEF Inv2, Untouched, TypeInv, dst0, Side
    <3>3. \/ OneWay /\ Exactly(p, dst0(p))
          \/ ~OneWay /\ (Flat => Agreed(p, fs0["local"][p], fs0["remote"][p]))
      BY <1>1, <2>2
    <3> QED
      BY <2>2, <3>2, <3>3
  <2> QED
    BY <1>1, <2>1, <2>2
<1>2. \A p \in Entry : (\A n \in Name : ~IsPrefix(Append(top.dir, n), p)) =>
        \A s \in Side : fs'[s][p] = fs[s][p]
  OBVIOUS
<1>3. (OneWay => fs'[Source] = fs[Source]) /\ (failed => failed') /\ (failed' => f.phase = "run")
  OBVIOUS
<1> QED
  BY <1>1, <1>2, <1>3, Advanced
LEMMA ListSteps ==
  ASSUME TypeInv, Inv2, status = "running", NEW s \in Side,
         top.phase = (IF s = "local" THEN "listLocal" ELSE "listRemote"), SafeList(s, FALSE)
  PROVE  Inv2'
<1>1. PICK f \in Frame :
        /\ Update(f) /\ f.dir = top.dir /\ Sound(f) /\ f.job = top.job
        /\ f.phase = IF s = "local" THEN "listRemote" ELSE "visit"
        /\ f.list[Other(s)] = top.list[Other(s)]
        /\ \A n \in Name : f.list[s][n] = IF FALSE \/ fs[s][top.dir].kind # "dir" THEN Absent
                                          ELSE fs[s][Append(top.dir, n)]
        /\ f.todo = IF s = "local" THEN {}
                    ELSE IF OneWay THEN {n \in Name : Exists(f.list[Source][n])}
                    ELSE {n \in Name : Exists(f.list["local"][n]) \/ Exists(f.list["remote"][n])}
  BY Listed
<1>2. UNCHANGED <<opts, fs0, round, before, status, fs, done, failed>>
  BY DEF SafeList, calls
<1>3. /\ top.dir \in Inner /\ top = stack[Len(stack)] /\ Len(stack) \in 1 .. Len(stack)
      /\ top.dir \in Path /\ stack \in Seq(Frame) /\ stack # <<>> /\ Nested(stack)
  BY TopIs DEF TypeInv, Stacked, Inv2
<1>4. Faithful(top)
  BY <1>3 DEF Inv2
<1>5. \A n \in Name : OpenAt(top, n) /\ top.job[n] = "none"
  BY <1>4 DEF OpenAt, Faithful
<1>6. ASSUME NEW n \in Name, NEW u \in Side
      PROVE  fs[u][Append(top.dir, n)] = fs0[u][Append(top.dir, n)]
  <2> DEFINE k == Append(top.dir, n)
  <2>1. k \in Entry /\ k \in Path /\ IsPrefix(Append(top.dir, n), k)
    BY <1>3, ChildIs, Order
  <2>2. OpenOn(stack, k)
    BY <1>3, <1>5, <2>1, OpenOf
  <2> HIDE DEF k
  <2>3. fs[u][k] = fs0[u][k]
    BY <2>1, <2>2 DEF Inv2, Untouched
  <2> QED
    BY <2>3 DEF k
<1>7. \A n \in Name : f.list[s][n] = fs0[s][Append(top.dir, n)]
  <2> SUFFICES ASSUME NEW n \in Name PROVE f.list[s][n] = fs0[s][Append(top.dir, n)]
    OBVIOUS
  <2> DEFINE k == Append(top.dir, n)
  <2>1. k \in Path /\ IsPrefix(top.dir, k) /\ top.dir # k
    BY <1>3, ChildIs, Branches
  <2>2. fs[s][k] = fs0[s][k]
    BY <1>6
  <2>3. f.list[s][n] = IF fs[s][top.dir].kind # "dir" THEN Absent ELSE fs[s][k]
    BY <1>1
  <2> HIDE DEF k
  <2>4. Tree(fs[s])
    BY DEF TypeInv, Trees
  <2>5. fs[s][top.dir].kind # "dir" => fs[s][k] = Absent
    BY <1>3, <2>1, <2>4 DEF Tree
  <2>6. f.list[s][n] = fs0[s][k]
    BY <2>2, <2>3, <2>5
  <2> QED
    BY <2>6 DEF k
<1>8. CASE s = "local"
  <2>1. f.phase = "listRemote" /\ f.todo = {}
    BY <1>1, <1>8
  <2>2. Faithful(f)
    BY <1>1, <1>4, <1>5, <1>7, <1>8, <2>1 DEF Faithful
  <2>3. \A n \in Name : OpenAt(f, n) <=> OpenAt(top, n)
    BY <1>5, <2>1 DEF OpenAt
  <2>4. ~failed
    BY <1>8 DEF Inv2, Calm
  <2> QED
    BY <1>1, <1>2, <2>2, <2>3, <2>4, Quiet
<1>9. CASE s = "remote"
  <2>1. f.phase = "visit" /\ Other(s) = "local" /\ Side = {"local", "remote"}
    BY <1>1, <1>9 DEF Other, Side
  <2>2. ~failed
    BY <1>9 DEF Inv2, Calm
  <2>3. \A u \in Side : \A n \in Name : f.list[u][n] = fs0[u][Append(f.dir, n)]
    <3>1. \A n \in Name : f.list["local"][n] = fs0["local"][Append(top.dir, n)]
      BY <1>1, <1>4, <1>9, <2>1 DEF Faithful
    <3> QED
      BY <1>1, <1>7, <1>9, <2>1, <3>1
  <2>4. /\ Source \in Side /\ Dest \in Side
        /\ \A k : src0(k) = fs0[Source][k] /\ dst0(k) = fs0[Dest][k]
    BY Sides DEF TypeInv, src0, dst0
  <2>5. Faithful(f)
    <3>1. ASSUME NEW n \in f.todo
          PROVE  f.phase = "visit" /\ f.job[n] = "none" /\ (OneWay => Exists(src0(Append(f.dir, n))))
      <4>1. n \in Name
        BY <3>1 DEF Frame
      <4>2. OneWay => Exists(f.list[Source][n])
        BY <1>1, <1>9, <3>1
      <4> QED
        BY <1>1, <1>5, <2>1, <2>3, <2>4, <4>1, <4>2
    <3>2. \A n \in Name : f.job[n] = "none"
      BY <1>1, <1>5
    <3>3. OneWay => Visited(f.dir)
      BY <1>1, <1>4 DEF Faithful
    <3> QED
      BY <2>1, <2>3, <3>1, <3>2, <3>3 DEF Faithful
  <2>6. ASSUME NEW n \in Name
        PROVE  \/ OpenAt(f, n) <=> OpenAt(top, n)
               \/ /\ ~OpenAt(f, n) /\ OpenAt(top, n)
                  /\ \A p \in Entry : IsPrefix(Append(top.dir, n), p) =>
                       \/ OneWay /\ Exactly(p, dst0(p))
                       \/ ~OneWay /\ (Flat => Agreed(p, fs0["local"][p], fs0["remote"][p]))
    <3> SUFFICES ASSUME ~OpenAt(f, n), NEW p \in Entry, IsPrefix(Append(top.dir, n), p)
                 PROVE  \/ OneWay /\ Exactly(p, dst0(p))
                        \/ ~OneWay /\ (Flat => Agreed(p, fs0["local"][p], fs0["remote"][p]))
      BY <1>5
    <3> DEFINE k == Append(top.dir, n)
    <3>1. k \in Entry /\ k \in Path /\ Front(k) = top.dir /\ IsPrefix(k, p) /\ p \in Path
      BY <1>3, ChildIs DEF Entry
    <3>2. \A u \in Side : f.list[u][n] = fs0[u][k]
      BY <1>1, <2>3
    <3>3. n \notin f.todo /\ ~ExtraIn(f, n)
      BY <2>1 DEF OpenAt
    <3> HIDE DEF k
    <3>4. CASE OneWay
      <4>1. Visited(Front(k)) /\ ~Exists(src0(k))
        BY <1>1, <1>4, <1>9, <2>4, <3>1, <3>2, <3>3, <3>4 DEF Faithful
      <4>2. ~(opts.delete /\ Exists(dst0(k)) /\ ~Exists(src0(k)))
        BY <2>4, <3>2, <3>3, <3>4 DEF ExtraIn
      <4>3. ~Visited(k) /\ ~Due(k)
        BY <3>1, <4>1, Ruled DEF TypeInv
      <4> QED
        BY <3>1, <3>4, <4>1, <4>2, <4>3, Passed DEF TypeInv
    <3>5. CASE ~OneWay
      <4>1. \A u \in Side : ~Exists(fs0[u][k])
        BY <1>1, <1>9, <2>1, <3>2, <3>3, <3>5
      <4>2. \A u \in Side : ~Exists(fs0[u][p])
        <5> SUFFICES ASSUME NEW u \in Side, Exists(fs0[u][p]) PROVE FALSE
          OBVIOUS
        <5>1. Tree(fs0[u])
          BY DEF TypeInv, Settings
        <5>2. k # p => fs0[u][k].kind = "dir"
          BY <3>1, <5>1 DEF Tree
        <5> QED
          BY <4>1, <5>2 DEF Exists
      <4> QED
        BY <3>5, <4>2 DEF Agreed, Newer, Side
    <3> QED
      BY <3>4, <3>5
  <2> QED
    BY <1>1, <1>2, <2>2, <2>5, <2>6, Quiet
<1> QED
  BY <1>8, <1>9 DEF Side

\* An entry of the source is passed over.
LEMMA SkipSteps ==
  ASSUME TypeInv, Inv2, status = "running", top.phase = "visit", NEW n \in top.todo, n \in Name, Skip(n)
  PROVE  Inv2'
<1> DEFINE k == Append(top.dir, n)
           f == [top EXCEPT !.todo = @ \ {n}]
<1>1. /\ Update(f) /\ OneWay
      /\ IsIgnored(n) \/ (Seen(Source, n).kind = "file" /\ ~Transfers(Seen(Source, n), Seen(Dest, n)))
      /\ UNCHANGED <<opts, fs0, round, before, status, fs, done, failed>>
  BY DEF Skip, calls
<1>2. /\ f \in Frame /\ f.dir = top.dir /\ f.list = top.list /\ f.phase = top.phase
      /\ f.todo = top.todo \ {n} /\ f.job = top.job
  BY NewTop
<1>3. Faithful(top) /\ ~failed
  <2>1. top = stack[Len(stack)] /\ Len(stack) \in 1 .. Len(stack)
    BY TopIs
  <2> QED
    BY <2>1 DEF Inv2, Calm
<1> HIDE DEF f
<1>4. Faithful(f)
  BY <1>2, <1>3 DEF Faithful, ExtraIn
<1>5. k = Append(top.dir, n)
  OBVIOUS
<1> HIDE DEF k
<1>6. /\ k \in Entry /\ k \in Path /\ Front(k) = top.dir /\ Visited(top.dir)
      /\ Seen(Source, n) = src0(k) /\ Seen(Dest, n) = dst0(k)
      /\ Visible(k) <=> ~IsIgnored(n)
      /\ Exists(src0(k))
      /\ ~ExtraIn(top, n) /\ k # Root
  <2>1. Exists(src0(k))
    BY <1>1, <1>3, <1>5 DEF Faithful
  <2> QED
    BY <1>1, <1>5, <2>1, TopKnows DEF Entry
<1>7. ~Visited(k) /\ ~Due(k)
  BY <1>1, <1>6 DEF Visited, Due, Transfers
<1>8. \A p \in Entry : IsPrefix(k, p) => Exactly(p, dst0(p))
  BY <1>6, <1>7, Passed DEF TypeInv, Entry
<1>9. top.job[n] = "none" /\ \A m \in Name : ExtraIn(f, m) <=> ExtraIn(top, m)
  BY <1>2, <1>3 DEF Faithful, ExtraIn
<1>10. ~OpenAt(f, n) /\ OpenAt(top, n) /\ \A m \in Name : m # n => (OpenAt(f, m) <=> OpenAt(top, m))
  BY <1>2, <1>6, <1>9 DEF OpenAt
<1> QED
  BY <1>1, <1>2, <1>3, <1>4, <1>5, <1>8, <1>10, Quiet
\* A task of the innermost call goes from one state to another.
LEMMA JobStep ==
  ASSUME TypeInv, Inv2, status = "running", NEW n \in Name, NEW x \in JobState,
         top.job[n] # "none", top.phase = "run"
  PROVE  \E f \in Frame :
           /\ f = [top EXCEPT !.job[n] = x] /\ f.dir = top.dir /\ f.phase = "run" /\ Faithful(f)
           /\ OpenAt(f, n) <=> x \in {"waiting", "running"}
           /\ OpenAt(top, n) <=> top.job[n] \in {"waiting", "running"}
           /\ \A m \in Name : m # n => (OpenAt(f, m) <=> OpenAt(top, m))
<1> DEFINE f == [top EXCEPT !.job[n] = x]
<1>1. /\ f \in Frame /\ f.dir = top.dir /\ f.list = top.list /\ f.phase = "run"
      /\ f.todo = top.todo
      /\ \A m \in Name : f.job[m] = IF m = n THEN x ELSE top.job[m]
  BY NewTop
<1>2. Faithful(top)
  <2>1. top = stack[Len(stack)] /\ Len(stack) \in 1 .. Len(stack)
    BY TopIs
  <2> QED
    BY <2>1 DEF Inv2
<1>3. top.todo = {}
  BY <1>2 DEF Faithful
<1>4. f = [top EXCEPT !.job[n] = x]
  OBVIOUS
<1> HIDE DEF f
<1>5. Faithful(f)
  BY <1>1, <1>2, <1>3 DEF Faithful, ExtraIn
<1>6. /\ OpenAt(f, n) <=> x \in {"waiting", "running"}
      /\ OpenAt(top, n) <=> top.job[n] \in {"waiting", "running"}
      /\ \A m \in Name : m # n => (OpenAt(f, m) <=> OpenAt(top, m))
  BY <1>1, <1>3 DEF OpenAt
<1> QED
  BY <1>1, <1>4, <1>5, <1>6

LEMMA JobSteps ==
  ASSUME TypeInv, Inv2, status = "running", NEW n \in Name, StartJob(n) \/ CountJob(n)
  PROVE  Inv2'
<1>1. /\ UNCHANGED <<opts, fs0, round, before, status, fs, done, failed>>
      /\ top.phase = "run" /\ top.job[n] # "none"
  BY DEF StartJob, CountJob, calls, At
<1>2. ASSUME NEW x \in JobState, Update([top EXCEPT !.job[n] = x]),
             x \in {"waiting", "running"} <=> top.job[n] \in {"waiting", "running"}
      PROVE  Inv2'
  <2>1. PICK f \in Frame :
           /\ f = [top EXCEPT !.job[n] = x] /\ f.dir = top.dir /\ f.phase = "run" /\ Faithful(f)
           /\ OpenAt(f, n) <=> x \in {"waiting", "running"}
           /\ OpenAt(top, n) <=> top.job[n] \in {"waiting", "running"}
           /\ \A m \in Name : m # n => (OpenAt(f, m) <=> OpenAt(top, m))
    BY <1>1, JobStep
  <2>2. Update(f)
    BY <1>2, <2>1
  <2>3. \A m \in Name : OpenAt(f, m) <=> OpenAt(top, m)
    BY <1>2, <2>1
  <2> QED
    BY <1>1, <2>1, <2>2, <2>3, Quiet
<1>3. CASE StartJob(n)
  <2>1. top.job[n] = "waiting" /\ Update([top EXCEPT !.job[n] = "running"])
    BY <1>3 DEF StartJob
  <2> QED
    BY <1>2, <2>1 DEF JobState
<1>4. CASE CountJob(n)
  <2>1. top.job[n] = "counting" /\ Update([top EXCEPT !.job[n] = "done"])
    BY <1>4 DEF CountJob
  <2> QED
    BY <1>2, <2>1 DEF JobState
<1> QED
  BY <1>3, <1>4

LEMMA AddSteps ==
  ASSUME TypeInv, Inv2, status = "running", top.phase = "visit", NEW n \in top.todo, n \in Name,
         AddTransfer(n)
  PROVE  Inv2'
<1> DEFINE k == Append(top.dir, n)
           f == [top EXCEPT !.todo = @ \ {n}, !.job[n] = "waiting"]
<1>1. /\ Update(f)
      /\ OneWay => /\ ~IsIgnored(n) /\ Seen(Source, n).kind = "file"
                   /\ Transfers(Seen(Source, n), Seen(Dest, n))
      /\ UNCHANGED <<opts, fs0, round, before, status, fs, done, failed>>
  BY DEF AddTransfer, calls
<1>2. /\ f \in Frame /\ f.dir = top.dir /\ f.list = top.list /\ f.phase = top.phase
      /\ f.todo = top.todo \ {n}
      /\ \A m \in Name : f.job[m] = IF m = n THEN "waiting" ELSE top.job[m]
  BY NewTop
<1>3. Faithful(top) /\ ~failed
  <2>1. top = stack[Len(stack)] /\ Len(stack) \in 1 .. Len(stack)
    BY TopIs
  <2> QED
    BY <2>1 DEF Inv2, Calm
<1>4. k = Append(top.dir, n)
  OBVIOUS
<1> HIDE DEF f, k
<1>5. OneWay => Due(k)
  <2>1. /\ Seen(Source, n) = src0(k) /\ Seen(Dest, n) = dst0(k)
        /\ OneWay => (Visible(k) <=> ~IsIgnored(n))
    BY <1>4, TopKnows
  <2> QED
    BY <1>1, <2>1 DEF Due, Transfers
<1>6. Faithful(f)
  <2>1. OneWay => Due(Append(f.dir, n))
    BY <1>2, <1>5 DEF k
  <2>2. ASSUME NEW m \in Name, f.job[m] # "none"
        PROVE  OneWay => ExtraIn(f, m) \/ Due(Append(f.dir, m))
    <3>1. CASE m = n
      BY <2>1, <3>1
    <3>2. CASE m # n
      BY <1>2, <1>3, <2>2, <3>2 DEF Faithful, ExtraIn
    <3> QED
      BY <3>1, <3>2
  <2>3. ASSUME NEW m \in f.todo
        PROVE  f.job[m] = "none" /\ (OneWay => Exists(src0(Append(f.dir, m))))
    <3>1. m \in top.todo /\ m # n /\ m \in Name
      BY <1>2, <2>3 DEF Frame
    <3> QED
      BY <1>2, <1>3, <3>1 DEF Faithful
  <2> QED
    BY <1>2, <1>3, <2>2, <2>3 DEF Faithful
<1>7. \A m \in Name : OpenAt(f, m) <=> OpenAt(top, m)
  BY <1>2 DEF OpenAt, ExtraIn
<1> QED
  BY <1>1, <1>2, <1>3, <1>6, <1>7, Quiet

LEMMA RunSteps ==
  ASSUME TypeInv, Inv2, StartRunAll
  PROVE  Inv2'
<1> DEFINE f == [top EXCEPT !.phase = "run",
                            !.job = [n \in Name |-> IF Extraneous(n) THEN "waiting" ELSE @[n]]]
<1>1. /\ status = "running" /\ top.phase = "visit" /\ top.todo = {}
      /\ Update(f) /\ failed' = FALSE
      /\ UNCHANGED <<opts, fs0, round, before, status, fs, done>>
  BY DEF StartRunAll, At, calls
<1>2. /\ top \in Frame /\ top = stack[Len(stack)] /\ Len(stack) \in 1 .. Len(stack)
  BY <1>1, TopIs
<1>3. Faithful(top) /\ failed = FALSE
  BY <1>1, <1>2 DEF Inv2, Calm, TypeInv, Counters
<1>4. /\ f \in Frame /\ f.dir = top.dir /\ f.list = top.list /\ f.phase = "run" /\ f.todo = {}
      /\ \A n \in Name : f.job[n] = IF Extraneous(n) THEN "waiting" ELSE top.job[n]
  BY <1>1, <1>2 DEF Frame, Phase, JobState
<1> HIDE DEF f
<1>5. \A n \in Name : (Extraneous(n) <=> ExtraIn(top, n)) /\ (ExtraIn(f, n) <=> ExtraIn(top, n))
  BY <1>4 DEF Extraneous, ExtraIn, Seen
<1>6. Faithful(f)
  BY <1>1, <1>3, <1>4, <1>5 DEF Faithful
<1>7. \A n \in Name : OpenAt(f, n) <=> OpenAt(top, n)
  BY <1>1, <1>4, <1>5 DEF OpenAt
<1> QED
  BY <1>1, <1>3, <1>4, <1>6, <1>7, Quiet

\* In both directions the task copies from the newer side.
LEMMA FromNewer ==
  ASSUME TypeInv, Inv2, status = "running", top.phase = "run", NEW n \in Name,
         NEW k, k = Append(top.dir, n), ~OneWay
  PROVE  /\ \A s \in Side : Newer(s, k) => From(n) = s
         /\ From(n) = "neither" => Exists(fs0["local"][k]) /\ Exists(fs0["remote"][k])
         /\ From(n) \in Side \cup {"neither"}
<1>1. /\ Seen("local", n) = fs0["local"][k] /\ Seen("remote", n) = fs0["remote"][k]
      /\ fs0["local"][k] \in Node /\ fs0["remote"][k] \in Node
  BY TopKnows DEF Side
<1>2. fs0["local"][k].mtime \in Int /\ fs0["remote"][k].mtime \in Int /\ opts.offset \in Int
  BY <1>1, NodeFacts DEF TypeInv, Settings, Options
<1>3. Newer("local", k) => From(n) = "local"
  BY <1>1, <1>2 DEF Newer, From, Other
<1>4. Newer("remote", k) => From(n) = "remote"
  BY <1>1, <1>2 DEF Newer, From, Other
<1> QED
  BY <1>1, <1>3, <1>4 DEF Side, From
\* What is below an entry that is dealt with stays as it is.
LEMMA BelowFile ==
  ASSUME Settings, NEW k \in Entry, NEW p \in Entry, IsPrefix(k, p), p # k
  PROVE  Flat => Agreed(p, fs0["local"][p], fs0["remote"][p])
<1> SUFFICES ASSUME Flat PROVE Agreed(p, fs0["local"][p], fs0["remote"][p])
  OBVIOUS
<1>1. \A u \in Side : ~Exists(fs0[u][p])
  <2> SUFFICES ASSUME NEW u \in Side, Exists(fs0[u][p]) PROVE FALSE
    OBVIOUS
  <2>1. Tree(fs0[u]) /\ k \in Path /\ p \in Path
    BY DEF Settings, Entry
  <2>2. fs0[u][k].kind = "dir"
    BY <2>1 DEF Tree
  <2> QED
    BY <2>2 DEF Flat
<1> QED
  BY <1>1 DEF Agreed, Newer, Side

LEMMA NeitherSteps ==
  ASSUME TypeInv, Inv2, status = "running", NEW n \in Name, TransferJob(n), From(n) = "neither"
  PROVE  Inv2'
<1>1. /\ top.phase = "run" /\ top.job[n] = "running" /\ Succeed(n, "transferred")
      /\ UNCHANGED <<opts, fs0, round, before, status, fs, done, failed>>
  BY DEF TransferJob, Succeed, calls, At
<1>2. PICK f \in Frame :
        /\ f = [top EXCEPT !.job[n] = "counting"] /\ f.dir = top.dir /\ f.phase = "run" /\ Faithful(f)
        /\ OpenAt(f, n) <=> "counting" \in {"waiting", "running"}
        /\ OpenAt(top, n) <=> top.job[n] \in {"waiting", "running"}
        /\ \A m \in Name : m # n => (OpenAt(f, m) <=> OpenAt(top, m))
  BY <1>1, JobStep DEF JobState
<1>3. Update(f)
  BY <1>1, <1>2 DEF Succeed
<1>4. ~OneWay
  BY DEF From, Source
<1> DEFINE k == Append(top.dir, n)
<1>5. k = Append(top.dir, n)
  OBVIOUS
<1> HIDE DEF k
<1>6. /\ k \in Entry /\ k \in Path
      /\ \A s \in Side : Newer(s, k) => From(n) = s
      /\ Exists(fs0["local"][k]) /\ Exists(fs0["remote"][k])
  BY <1>1, <1>4, <1>5, TopKnows, FromNewer
<1>7. \A p \in Entry : IsPrefix(k, p) => (Flat => Agreed(p, fs0["local"][p], fs0["remote"][p]))
  <2>1. Agreed(k, fs0["local"][k], fs0["remote"][k])
    BY <1>6 DEF Agreed, Side
  <2> QED
    BY <1>6, <2>1, BelowFile DEF TypeInv
<1>8. ~OpenAt(f, n) /\ OpenAt(top, n) /\ \A m \in Name : m # n => (OpenAt(f, m) <=> OpenAt(top, m))
  BY <1>1, <1>2
<1> QED
  BY <1>1, <1>2, <1>3, <1>4, <1>5, <1>7, <1>8, Quiet

LEMMA CopySteps ==
  ASSUME TypeInv, Inv2, status = "running", NEW n \in Name, TransferJob(n), From(n) # "neither",
         NEW k, k = Append(top.dir, n), NEW from, from = From(n), NEW to, to = Other(from)
  PROVE  Inv2'
<1>1. /\ top.phase = "run" /\ top.job[n] = "running" /\ ~Extraneous(n) /\ Copy(n, from)
      /\ UNCHANGED <<opts, fs0, round, before, status>>
  BY DEF TransferJob, calls, At
<1>2. /\ k = Append(top.dir, n) /\ to = Other(from) /\ from = From(n)
  OBVIOUS
<1>3. /\ from \in Side /\ to \in Side /\ from # to /\ Side = {from, to}
      /\ Source \in Side /\ Dest \in Side /\ Source # Dest
      /\ OneWay => from = Source /\ to = Dest
  BY Sides DEF From, Side, Source, Dest, Other, OneWay, TypeInv
<1>4. /\ Trees' /\ fs'[from] = fs[from]
      /\ \A q \in Path : q # k =>
           \/ fs'[to][q] = fs[to][q]
           \/ IsPrefix(q, top.dir) /\ ~Exists(fs[to][q]) /\ fs'[to][q].kind = "dir"
      /\ \/ /\ Succeed(n, "transferred") /\ done' = done \cup {<<to, k>>}
            /\ fs[from][k].kind = "file" /\ fs[to][k].kind # "dir"
            /\ fs'[to][k] = File(fs[from][k].content, Stamp(to))
         \/ /\ Fails(n)
            /\ \/ fs'[to][k] = fs[to][k]
               \/ fs[to][k].kind # "dir" /\ fs'[to][k] = File("torn", Stamp(to))
               \/ /\ fs[to][k].kind # "dir" /\ fs[from][k].kind = "file"
                  /\ fs'[to][k] = File(fs[from][k].content, Stamp(to))
  <2>1. k = Append(top.dir, n) /\ to = Other(from) /\ from \in Side /\ Copy(n, from)
    BY <1>1, <1>2, <1>3
  <2>2. Trees' /\ fs'[from] = fs[from]
    BY <2>1, Copied
  <2>3. \A q \in Path : q # k =>
           \/ fs'[to][q] = fs[to][q]
           \/ IsPrefix(q, top.dir) /\ ~Exists(fs[to][q]) /\ fs'[to][q].kind = "dir"
    BY <2>1, Copied
  <2>4. CopyOutcome(n, from, to, k)
    BY <2>1, Copied
  <2> QED
    BY <2>2, <2>3, <2>4 DEF CopyOutcome
<1> DEFINE whole == File(fs[from][k].content, Stamp(to))
<1>5. PICK x \in {"counting", "done"} :
        /\ Update([top EXCEPT !.job[n] = x])
        /\ (failed => failed') /\ (failed' # TRUE => failed' = FALSE)
        /\ x = "counting" => Succeed(n, "transferred") /\ failed' = failed
        /\ x = "done" => failed' = TRUE /\ done' = done
  <2>1. CASE Succeed(n, "transferred")
    BY <2>1 DEF Succeed, TypeInv, Counters
  <2>2. CASE Fails(n)
    BY <2>2 DEF Fails, FailJob
  <2> QED
    BY <1>4, <2>1, <2>2
<1>6. PICK f \in Frame :
        /\ f = [top EXCEPT !.job[n] = x] /\ f.dir = top.dir /\ f.phase = "run" /\ Faithful(f)
        /\ OpenAt(f, n) <=> x \in {"waiting", "running"}
        /\ OpenAt(top, n) <=> top.job[n] \in {"waiting", "running"}
        /\ \A m \in Name : m # n => (OpenAt(f, m) <=> OpenAt(top, m))
  BY <1>1, JobStep DEF JobState
<1>7. Update(f) /\ ~OpenAt(f, n) /\ OpenAt(top, n)
  BY <1>1, <1>5, <1>6
<1>8. /\ k \in Entry /\ k \in Path /\ Front(k) = top.dir
      /\ \A s \in Side : fs0[s][k] \in Node
      /\ OneWay => Visited(Front(k)) /\ Due(k) /\ ~Visited(k) /\ Exists(src0(k))
  <2>1. top = stack[Len(stack)] /\ Len(stack) \in 1 .. Len(stack)
    BY TopIs
  <2>2. Faithful(top)
    BY <2>1 DEF Inv2
  <2>3. /\ k \in Entry /\ k \in Path /\ Front(k) = top.dir
        /\ \A s \in Side : fs0[s][k] \in Node
        /\ ~ExtraIn(top, n) /\ (OneWay => Visited(top.dir))
    BY <1>1, <1>2, TopKnows
  <2>4. OneWay => Due(k)
    BY <1>1, <2>2, <2>3 DEF Faithful
  <2> QED
    BY <2>3, <2>4, Ruled DEF TypeInv
<1>9. /\ stack \in Seq(Frame) /\ stack # <<>> /\ top = stack[Len(stack)] /\ Nested(stack)
      /\ top.dir \in Inner /\ top.dir \in Path
  BY TopIs DEF TypeInv, Stacked, Inv2
<1>10. ASSUME NEW p \in Entry, IsPrefix(k, p) PROVE \A s \in Side : fs[s][p] = fs0[s][p]
  <2>1. OpenOn(stack, p)
    <3>1. IsPrefix(Append(top.dir, n), p) /\ p \in Path
      BY <1>10 DEF Entry
    <3> QED
      BY <1>7, <1>9, <3>1, OpenOf
  <2> QED
    BY <2>1 DEF Inv2, Untouched
<1>11. OneWay => fs'[Source] = fs[Source]
  BY <1>3, <1>4
<1>12. ASSUME NEW p \in Entry, p # k, ~IsPrefix(p, top.dir)
       PROVE  \A s \in Side : fs'[s][p] = fs[s][p]
  BY <1>3, <1>4, <1>12 DEF Entry
<1>13. ASSUME NEW p \in Entry, \A m \in Name : ~IsPrefix(Append(top.dir, m), p)
       PROVE  \/ \A s \in Side : fs'[s][p] = fs[s][p]
              \/ OneWay /\ IsPrefix(p, top.dir) /\ fs'[Dest][p].kind = "dir"
  <2>1. p # k /\ p \in Path
    <3>1. ~IsPrefix(k, p) /\ p \in Path
      BY <1>13 DEF Entry
    <3> QED
      BY <3>1, Order
  <2>2. CASE OneWay
    BY <1>3, <1>4, <2>1, <2>2
  <2>3. CASE ~OneWay
    <3>1. top.dir = Root
      <4>0. Len(stack) <= 1 /\ Len(stack) \in Nat \ {0} /\ Len(stack) \in 1 .. Len(stack)
        BY <2>3, TopIs DEF Inv2, Shallow
      <4>1. Len(stack) = 1 /\ Len(top.dir) = Len(stack) - 1
        <5>1. top = stack[Len(stack)]
          BY <1>9
        <5>2. Len(top.dir) = Len(stack) - 1
          BY <4>0, <5>1 DEF TypeInv, Stacked
        <5>3. \A m \in Nat \ {0} : m <= 1 => m = 1
          OBVIOUS
        <5> QED
          BY <4>0, <5>2, <5>3
      <4>2. Len(top.dir) = Len(Root)
        BY <4>1, RootPath
      <4> QED
        BY <1>9, <4>1, <4>2, PrefixIs, RootPath
    <3>2. ~IsPrefix(p, top.dir)
      BY <2>1, <3>1, Order DEF Entry
    <3> QED
      BY <1>12, <2>1, <3>2
  <2> QED
    BY <2>2, <2>3
<1>14. ASSUME NEW m \in Name, m # n, NEW p \in Entry, IsPrefix(Append(top.dir, m), p)
       PROVE  \A s \in Side : fs'[s][p] = fs[s][p]
  <2> DEFINE j == Append(top.dir, m)
  <2>1. j \in Path /\ ~IsPrefix(j, top.dir) /\ p \in Path
    BY <1>9, ChildIs, Branches DEF Entry
  <2>2. ~IsPrefix(p, top.dir)
    <3>1. IsPrefix(j, p)
      BY <1>14
    <3> HIDE DEF j
    <3> QED
      BY <1>9, <2>1, <3>1, Order
  <2>3. p # k
    <3>1. ~IsPrefix(Append(top.dir, n), p)
      BY <1>9, <1>14, <2>1, Branches
    <3> QED
      BY <1>8, <3>1, Order
  <2> QED
    BY <1>12, <2>2, <2>3
<1>15. ASSUME NEW p \in Entry, IsPrefix(k, p), p # k
       PROVE  /\ \A s \in Side : fs'[s][p] = fs[s][p]
              /\ \/ OneWay /\ Exactly(p, fs'[Dest][p])
                 \/ ~OneWay /\ (Flat => Agreed(p, fs'["local"][p], fs'["remote"][p]))
  <2>1. p \in Path /\ ~IsPrefix(k, top.dir)
    BY <1>9, Branches DEF Entry
  <2>2. ~IsPrefix(p, top.dir)
    BY <1>8, <1>9, <1>15, <2>1, Order
  <2>3. \A s \in Side : fs'[s][p] = fs[s][p] /\ fs[s][p] = fs0[s][p]
    BY <1>10, <1>12, <1>15, <2>2
  <2>4. CASE OneWay
    <3>1. ~Gone(p) /\ ~Visited(p) /\ ~Due(p)
      BY <1>8, <1>15, <2>1, <2>4, Ruled DEF TypeInv
    <3>2. fs'[Dest][p] = dst0(p)
      BY <1>3, <2>3 DEF dst0
    <3> QED
      BY <2>3, <2>4, <3>1, <3>2 DEF Exactly
  <2>5. CASE ~OneWay
    BY <1>8, <1>15, <2>3, <2>5, BelowFile DEF TypeInv, Side
  <2> QED
    BY <2>4, <2>5
<1>16. \A s \in Side : fs[s][k] = fs0[s][k]
  BY <1>8, <1>10, Order
<1>17. OneWay => /\ fs[from][k].content = src0(k).content
                 /\ ~Gone(k) /\ Due(k)
                 /\ Exactly(k, whole)
  <2> SUFFICES ASSUME OneWay
               PROVE  fs[from][k].content = src0(k).content /\ ~Gone(k) /\ Due(k) /\ Exactly(k, whole)
    OBVIOUS
  <2>1. fs[from][k] = src0(k)
    BY <1>3, <1>16 DEF src0
  <2>2. ~Gone(k)
    BY <1>8, Order, Ruled DEF TypeInv
  <2> QED
    BY <1>3, <1>8, <2>1, <2>2 DEF Exactly
<1>18. OneWay => \/ fs'[Dest][k] = fs[Dest][k]
                 \/ Settled(k, fs'[Dest][k])
                 \/ fs'[Dest][k].content = "torn" /\ Due(k) /\ failed'
  <2> SUFFICES ASSUME OneWay
               PROVE  \/ fs'[Dest][k] = fs[Dest][k]
                      \/ Settled(k, fs'[Dest][k])
                      \/ fs'[Dest][k].content = "torn" /\ Due(k) /\ failed'
    OBVIOUS
  <2>1. to = Dest /\ (fs'[to][k] = whole => Settled(k, fs'[to][k]))
    BY <1>3, <1>17, ExactlySettles
  <2>2. \A t : File("torn", t).content = "torn"
    BY DEF File
  <2>3. (Fails(n)) => failed'
    BY DEF Fails, FailJob
  <2> QED
    BY <1>4, <1>17, <2>1, <2>2, <2>3
<1>19. ~failed' => \/ OneWay /\ Exactly(k, fs'[Dest][k])
                   \/ ~OneWay /\ Agreed(k, fs'["local"][k], fs'["remote"][k])
  <2> SUFFICES ASSUME ~failed'
               PROVE  \/ OneWay /\ Exactly(k, fs'[Dest][k])
                      \/ ~OneWay /\ Agreed(k, fs'["local"][k], fs'["remote"][k])
    OBVIOUS
  <2>1. fs[from][k].kind = "file" /\ fs'[to][k] = whole
    BY <1>4 DEF Fails, FailJob
  <2>2. CASE OneWay
    BY <1>3, <1>17, <2>1, <2>2
  <2>3. CASE ~OneWay
    <3>1. \A s \in Side : Newer(s, k) => s = from
      BY <1>1, <1>2, <2>3, FromNewer
    <3>2. \A s \in Side : fs'[s][k].kind = "file" /\ fs'[s][k].content = fs0[from][k].content
                          /\ fs0[from][k].kind = "file"
      BY <1>3, <1>4, <1>16, <2>1 DEF File
    <3> QED
      BY <2>3, <3>1, <3>2 DEF Agreed, Same, Exists, Side
  <2> QED
    BY <2>2, <2>3
<1>20. \/ done' = done
       \/ OneWay => \E p \in Entry : done' = done \cup {<<Dest, p>>} /\ (Due(p) \/ Gone(p))
  <2>1. OneWay => to = Dest /\ k \in Entry /\ Due(k)
    BY <1>3, <1>8
  <2>2. done' = done \/ done' = done \cup {<<to, k>>}
    BY <1>4 DEF Fails, FailJob
  <2> QED
    BY <2>1, <2>2
<1>21. ASSUME NEW m \in Name, NEW p \in Entry, IsPrefix(Append(top.dir, m), p)
       PROVE
           \/ (OpenAt(f, m) <=> OpenAt(top, m)) /\ \A s \in Side : fs'[s][p] = fs[s][p]
           \/ /\ ~OpenAt(f, m)
              /\ OneWay => \/ fs'[Dest][p] = fs[Dest][p]
                           \/ Settled(p, fs'[Dest][p])
                           \/ fs'[Dest][p].content = "torn" /\ Due(p) /\ failed'
              /\ ~failed' => \/ OneWay /\ Exactly(p, fs'[Dest][p])
                             \/ ~OneWay /\ (Flat => Agreed(p, fs'["local"][p], fs'["remote"][p]))
  <2>1. CASE m # n
    BY <1>6, <1>14, <1>21, <2>1
  <2>2. CASE m = n
    <3>1. IsPrefix(k, p)
      BY <1>21, <2>2
    <3>2. CASE p = k
      BY <1>7, <1>18, <1>19, <2>2, <3>2
    <3>3. CASE p # k
      BY <1>3, <1>7, <1>15, <2>2, <3>1, <3>3
    <3> QED
      BY <3>2, <3>3
  <2> QED
    BY <2>1, <2>2
<1> QED
  BY <1>1, <1>5, <1>6, <1>7, <1>11, <1>13, <1>20, <1>21, Advanced

LEMMA DeleteSteps ==
  ASSUME TypeInv, Inv2, status = "running", NEW n \in Name, DeleteJob(n),
         NEW k, k = Append(top.dir, n)
  PROVE  Inv2'
<1>1. /\ top.phase = "run" /\ top.job[n] = "running" /\ Extraneous(n)
      /\ UNCHANGED <<opts, fs0, round, before, status>>
  BY DEF DeleteJob, calls, At
<1>2. k = Append(top.dir, n)
  OBVIOUS
<1>3. /\ fs'[Source] = fs[Source]
      /\ \A q \in Path : /\ fs'[Dest][q] = fs[Dest][q] \/ fs'[Dest][q] = Absent
                         /\ ~IsPrefix(k, q) => fs'[Dest][q] = fs[Dest][q]
      /\ DeleteOutcome(n, k)
  BY <1>2, Deleted
<1>4. Side = {Source, Dest}
  BY Sides DEF TypeInv
<1>5. PICK x \in {"counting", "done"} :
        /\ Update([top EXCEPT !.job[n] = x])
        /\ (failed => failed') /\ (failed' # TRUE => failed' = FALSE)
        /\ x = "counting" => failed' = failed
        /\ x = "done" => failed' = TRUE /\ done' = done
  <2>1. CASE Succeed(n, "deleted")
    BY <2>1 DEF Succeed, TypeInv, Counters
  <2>2. CASE Fails(n)
    BY <2>2 DEF Fails, FailJob
  <2> QED
    BY <1>3, <2>1, <2>2 DEF DeleteOutcome
<1>6. PICK f \in Frame :
        /\ f = [top EXCEPT !.job[n] = x] /\ f.dir = top.dir /\ f.phase = "run" /\ Faithful(f)
        /\ OpenAt(f, n) <=> x \in {"waiting", "running"}
        /\ \A m \in Name : m # n => (OpenAt(f, m) <=> OpenAt(top, m))
  BY <1>1, JobStep DEF JobState
<1>7. Update(f) /\ ~OpenAt(f, n)
  BY <1>1, <1>5, <1>6
<1>8. /\ k \in Entry /\ k \in Path /\ Front(k) = top.dir
      /\ OneWay /\ opts.delete /\ Exists(dst0(k)) /\ ~Exists(src0(k)) /\ Visited(Front(k))
  BY <1>1, <1>2, TopKnows
<1>9. \A p \in Path : IsPrefix(k, p) => Gone(p)
  BY <1>8, Ruled DEF TypeInv
<1>10. ASSUME NEW p \in Entry, ~IsPrefix(k, p)
       PROVE  \A s \in Side : fs'[s][p] = fs[s][p]
  BY <1>3, <1>4, <1>10 DEF Entry
<1>11. ASSUME NEW p \in Entry, \A m \in Name : ~IsPrefix(Append(top.dir, m), p)
       PROVE  \A s \in Side : fs'[s][p] = fs[s][p]
  BY <1>2, <1>10, <1>11
<1>12. ASSUME NEW p \in Entry, IsPrefix(k, p)
       PROVE  /\ fs'[Dest][p] = fs[Dest][p] \/ Settled(p, fs'[Dest][p])
              /\ ~failed' => Exactly(p, fs'[Dest][p])
  <2>1. p \in Path /\ Gone(p)
    BY <1>9, <1>12 DEF Entry
  <2>2. fs'[Dest][p] = fs[Dest][p] \/ fs'[Dest][p] = Absent
    BY <1>3, <2>1
  <2>3. ~failed' => fs'[Dest][p] = Absent
    BY <1>3, <1>12, <2>1 DEF DeleteOutcome, Fails, FailJob
  <2> QED
    BY <2>1, <2>2, <2>3, NodeFacts DEF Settled, Exactly
<1>13. \/ done' = done
       \/ OneWay => \E p \in Entry : done' = done \cup {<<Dest, p>>} /\ (Due(p) \/ Gone(p))
  <2>1. Gone(k) /\ k \in Entry
    BY <1>8, <1>9, Order
  <2>2. done' = done \/ done' = done \cup {<<Dest, k>>}
    BY <1>3 DEF DeleteOutcome, Fails, FailJob
  <2> QED
    BY <2>1, <2>2
<1>14. ASSUME NEW m \in Name, NEW p \in Entry, IsPrefix(Append(top.dir, m), p)
       PROVE
           \/ (OpenAt(f, m) <=> OpenAt(top, m)) /\ \A s \in Side : fs'[s][p] = fs[s][p]
           \/ /\ ~OpenAt(f, m)
              /\ OneWay => \/ fs'[Dest][p] = fs[Dest][p]
                           \/ Settled(p, fs'[Dest][p])
                           \/ fs'[Dest][p].content = "torn" /\ Due(p) /\ failed'
              /\ ~failed' => \/ OneWay /\ Exactly(p, fs'[Dest][p])
                             \/ ~OneWay /\ (Flat => Agreed(p, fs'["local"][p], fs'["remote"][p]))
  <2>1. CASE m # n
    <3>1. ~IsPrefix(k, p)
      <4>1. top.dir \in Inner /\ p \in Path
        BY TopIs DEF Entry
      <4> QED
        BY <1>2, <1>14, <2>1, <4>1, Branches
    <3> QED
      BY <1>6, <1>10, <2>1, <3>1
  <2>2. CASE m = n
    BY <1>2, <1>7, <1>8, <1>12, <1>14, <2>2
  <2> QED
    BY <2>1, <2>2
<1> QED
  BY <1>1, <1>3, <1>5, <1>6, <1>7, <1>11, <1>13, <1>14, Advanced

\* Sync gives up: nothing of the trees has changed in the step.
LEMMA AbortSteps ==
  ASSUME TypeInv, Inv2, ReturnError, UNCHANGED <<opts, fs0, round, before, fs, done, failed>>
  PROVE  Inv2'
<1>1. stack' = <<>> /\ status' = "error" /\ Len(stack') = 0
  BY DEF ReturnError
<1>2. \A p : ~OpenOn(stack', p)
  BY <1>1 DEF OpenOn
<1>3. Nested(stack') /\ \A i \in 1 .. Len(stack') : Faithful(stack'[i])
  BY <1>1 DEF Nested
<1>4. Calm' /\ Len(stack') <= 1
  BY <1>1 DEF Calm
<1> QED
  BY <1>1, <1>2, <1>3, <1>4, Reached

\* A subdirectory is entered.  Of the entries only its own is no longer open.
ClosesOnly(k) ==
  \A p \in Entry :
    /\ p # k => (OpenOn(stack', p) <=> OpenOn(stack, p))
    /\ p = k => ~OpenOn(stack', p)

LEMMA DescendSteps ==
  ASSUME TypeInv, Inv2, status = "running", top.phase = "visit", NEW n \in top.todo, n \in Name,
         NEW fails \in BOOLEAN, Descend(n, fails), NEW k, k = Append(top.dir, n)
  PROVE  /\ Inv2'
         /\ status' # "error" => ClosesOnly(k)
<1> DEFINE f == [top EXCEPT !.todo = @ \ {n}]
           new == [stack EXCEPT ![Len(stack)] = f]
<1>1. /\ OneWay /\ k \in Inner /\ Seen(Source, n).kind = "dir" /\ ~IsIgnored(n)
      /\ UNCHANGED <<opts, fs0, round, before, done, failed>>
      /\ \/ ReturnError /\ UNCHANGED fs
         \/ /\ stack' = Append(new, Call(k))
            /\ UNCHANGED status /\ fs'[Source] = fs[Source]
            /\ \A q \in Path :
                 \/ fs'[Dest][q] = fs[Dest][q]
                 \/ IsPrefix(q, k) /\ ~Exists(fs[Dest][q]) /\ fs'[Dest][q].kind = "dir"
            /\ fs'[Dest][k].kind = "dir"
  BY Descended DEF calls
<1>2. CASE ReturnError /\ UNCHANGED fs
  <2>1. Inv2' /\ status' = "error"
    BY <1>1, <1>2, AbortSteps DEF ReturnError
  <2> QED
    BY <2>1
<1>3. CASE /\ stack' = Append(new, Call(k))
           /\ UNCHANGED status /\ fs'[Source] = fs[Source]
           /\ \A q \in Path :
                 \/ fs'[Dest][q] = fs[Dest][q]
                 \/ IsPrefix(q, k) /\ ~Exists(fs[Dest][q]) /\ fs'[Dest][q].kind = "dir"
           /\ fs'[Dest][k].kind = "dir"
  <2>1. /\ Len(stack) \in 1 .. Len(stack) /\ Len(stack) \in Nat \ {0} /\ stack \in Seq(Frame)
        /\ top = stack[Len(stack)] /\ stack # <<>> /\ top.dir \in Inner /\ top.dir \in Path
        /\ Nested(stack) /\ Faithful(top) /\ ~failed
    BY TopIs DEF TypeInv, Stacked, Inv2, Calm
  <2>2. /\ f \in Frame /\ f.dir = top.dir /\ f.list = top.list /\ f.phase = "visit"
        /\ f.todo = top.todo \ {n} /\ f.job = top.job
    BY NewTop
  <2> HIDE DEF f
  <2>3. /\ new \in Seq(Frame) /\ Len(new) = Len(stack) /\ new[Len(stack)] = f /\ new # <<>>
        /\ \A i \in 1 .. Len(stack) : i # Len(stack) => new[i] = stack[i]
    BY <2>1, <2>2
  <2>4. /\ Call(k) \in Frame /\ Call(k).dir = k /\ Call(k).phase = "listLocal"
        /\ Call(k).todo = {} /\ \A m \in Name : Call(k).job[m] = "none"
    BY <1>1, CallIs
  <2> DEFINE c == Call(k)
  <2>5. stack' = Append(new, c)
    BY <1>3
  <2>6. /\ c \in Frame /\ c.dir = k /\ c.phase = "listLocal"
        /\ c.todo = {} /\ \A m \in Name : c.job[m] = "none"
    BY <2>4
  <2> HIDE DEF new, c
  <2>7. /\ stack' \in Seq(Frame) /\ Len(stack') = Len(new) + 1 /\ stack'[Len(new) + 1] = c
        /\ \A i \in 1 .. Len(new) : stack'[i] = new[i]
    BY <2>3, <2>5, <2>6
  <2>8. /\ k \in Entry /\ k \in Path /\ Front(k) = top.dir /\ Visited(top.dir) /\ Visited(k)
        /\ Exists(src0(k)) /\ ~ExtraIn(top, n)
    <3>1. k = Append(top.dir, n)
      OBVIOUS
    <3>2. /\ k \in Entry /\ k \in Path /\ Front(k) = top.dir /\ Visited(top.dir)
          /\ Seen(Source, n) = src0(k) /\ src0(k) \in Node /\ Visible(k)
          /\ ExtraIn(top, n) => ~Exists(src0(k))
      BY <1>1, <3>1, TopKnows
    <3>3. src0(k).kind = "dir" /\ Exists(src0(k))
      BY <1>1, <3>2, NodeFacts
    <3> QED
      BY <3>2, <3>3 DEF Visited
  <2>9. Faithful(f) /\ Faithful(c)
    BY <2>1, <2>2, <2>6, <2>8 DEF Faithful, ExtraIn
  <2>10. ~OpenAt(f, n) /\ OpenAt(top, n) /\ \A m \in Name : m # n => (OpenAt(f, m) <=> OpenAt(top, m))
    <3>1. top.job[n] = "none" /\ \A m \in Name : ExtraIn(f, m) <=> ExtraIn(top, m)
      BY <2>1, <2>2 DEF Faithful, ExtraIn
    <3> QED
      BY <2>2, <2>8, <3>1 DEF OpenAt
  <2>11. /\ Nested(new)
         /\ \A m \in Name : \A p \in Path : IsPrefix(Append(top.dir, m), p) =>
              /\ OpenOn(new, p) <=> OpenAt(f, m)
              /\ OpenOn(stack, p) <=> OpenAt(top, m)
         /\ \A p \in Path : (\A m \in Name : ~IsPrefix(Append(top.dir, m), p)) =>
              (OpenOn(new, p) <=> OpenOn(stack, p))
    BY <2>1, <2>2, <2>3, OpenReplaced
  <2>12. \A p \in Path : IsPrefix(k, p) => ~OpenOn(new, p) /\ OpenOn(stack, p)
    BY <2>10, <2>11
  <2>13. Nested(stack') /\ \A p \in Path : OpenOn(stack', p) <=> OpenOn(new, p) \/ OpenIn(c, p)
    <3>1. \A p \in Path : IsPrefix(c.dir, p) => ~OpenOn(new, p)
      BY <2>6, <2>12
    <3>2. Nested(new) /\ new # <<>> /\ c \in Frame
      BY <2>3, <2>6, <2>11
    <3> QED
      BY <2>3, <2>7, <3>1, <3>2, OpenPushed
  <2>14. \A p \in Path : OpenIn(c, p) <=> IsPrefix(k, p) /\ k # p
    <3>1. \A m \in Name : OpenAt(c, m)
      BY <2>6 DEF OpenAt
    <3>2. \A p \in Path : IsPrefix(k, p) /\ k # p => \E m \in Name : IsPrefix(Append(k, m), p)
      BY <2>8, Branches
    <3>3. \A p \in Path : \A m \in Name : IsPrefix(Append(k, m), p) => IsPrefix(k, p) /\ k # p
      <4>1. \A m \in Name : Append(k, m) \in Path /\ IsPrefix(k, Append(k, m)) /\ ~IsPrefix(Append(k, m), k)
        BY <1>1, ChildIs, Branches
      <4> SUFFICES ASSUME NEW p \in Path, NEW m \in Name, NEW j \in Path, j = Append(k, m),
                          IsPrefix(k, j), ~IsPrefix(j, k), IsPrefix(j, p)
                   PROVE  IsPrefix(k, p) /\ k # p
        BY <4>1
      <4> QED
        BY <2>8, Order
    <3> QED
      BY <2>6, <3>1, <3>2, <3>3 DEF OpenIn
  <2>15. \A p \in Path : ~IsPrefix(k, p) => (OpenOn(new, p) <=> OpenOn(stack, p))
    <3> SUFFICES ASSUME NEW p \in Path, ~IsPrefix(k, p) PROVE OpenOn(new, p) <=> OpenOn(stack, p)
      OBVIOUS
    <3>1. CASE \E m \in Name : IsPrefix(Append(top.dir, m), p)
      <4>1. PICK m \in Name : IsPrefix(Append(top.dir, m), p)
        BY <3>1
      <4>2. m # n
        BY <4>1
      <4> QED
        BY <2>10, <2>11, <4>1, <4>2
    <3>2. CASE ~ \E m \in Name : IsPrefix(Append(top.dir, m), p)
      BY <2>11, <3>2
    <3> QED
      BY <3>1, <3>2
  <2>16. \A p \in Path : IsPrefix(p, top.dir) => ~OpenOn(stack, p)
    BY <2>1, OpenOf
  <2>17. \A p \in Path : IsPrefix(p, k) => p = k \/ IsPrefix(p, top.dir)
    BY <2>1, Branches
  <2>18. \A p \in Entry : p \in Path /\ (IsPrefix(p, k) => Visited(p) /\ ~Gone(p) /\ ~Due(p))
    BY <2>8, Ruled DEF TypeInv, Entry
  <2>19. ASSUME NEW p \in Entry
         PROVE  /\ OpenOn(stack', p) => OpenOn(stack, p) /\ \A s \in Side : fs'[s][p] = fs[s][p]
                /\ \/ OpenOn(stack', p)
                   \/ ~OpenOn(stack, p) /\ \A s \in Side : fs'[s][p] = fs[s][p]
                   \/ Exactly(p, fs'[Dest][p])
                /\ fs'[Dest][p] = fs[Dest][p] \/ Settled(p, fs'[Dest][p])
                /\ p # k => (OpenOn(stack', p) <=> OpenOn(stack, p))
                /\ p = k => ~OpenOn(stack', p)
    <3>1. p \in Path /\ Side = {Source, Dest}
      BY <2>18, Sides DEF TypeInv
    <3>2. CASE IsPrefix(p, k)
      <4>1. ~OpenOn(stack', p)
        <5>1. CASE p = k
          BY <2>8, <2>12, <2>13, <2>14, <5>1, Order
        <5>2. CASE p # k
          BY <2>8, <2>13, <2>14, <2>15, <2>16, <2>17, <3>1, <3>2, <5>2, Order
        <5> QED
          BY <5>1, <5>2
      <4>2. p # k => ~OpenOn(stack, p)
        BY <2>16, <2>17, <3>1, <3>2
      <4>3. fs'[Dest][p].kind = "dir" => Exactly(p, fs'[Dest][p])
        BY <2>18, <3>2 DEF Exactly
      <4>4. \/ fs'[Dest][p] = fs[Dest][p] /\ fs'[Source][p] = fs[Source][p] /\ p # k
            \/ fs'[Dest][p].kind = "dir"
        BY <1>3, <3>1
      <4> QED
        BY <3>1, <4>1, <4>2, <4>3, <4>4, ExactlySettles
    <3>3. CASE ~IsPrefix(p, k)
      <4>1. \A s \in Side : fs'[s][p] = fs[s][p]
        BY <1>3, <3>1, <3>3
      <4>2. OpenOn(stack', p) <=> OpenOn(stack, p)
        <5>1. CASE IsPrefix(k, p)
          <6>1. k # p
            BY <2>8, <3>3, Order
          <6> QED
            BY <2>12, <2>13, <2>14, <3>1, <5>1, <6>1
        <5>2. CASE ~IsPrefix(k, p)
          BY <2>13, <2>14, <2>15, <3>1, <5>2
        <5> QED
          BY <5>1, <5>2
      <4>3. p # k
        BY <2>8, <3>3, Order
      <4> QED
        BY <3>1, <4>1, <4>2, <4>3
    <3> QED
      BY <3>2, <3>3
  <2>20. \A i \in 1 .. Len(stack') : Faithful(stack'[i])
    <3> SUFFICES ASSUME NEW i \in 1 .. Len(stack') PROVE Faithful(stack'[i])
      OBVIOUS
    <3>1. CASE i = Len(stack) + 1
      BY <2>3, <2>7, <2>9, <3>1
    <3>2. CASE i = Len(stack)
      BY <2>1, <2>3, <2>7, <2>9, <3>2
    <3>3. CASE i # Len(stack) + 1 /\ i # Len(stack)
      <4>1. i \in 1 .. Len(stack) /\ stack'[i] = stack[i]
        BY <2>1, <2>3, <2>7, <3>3
      <4> QED
        BY <4>1 DEF Inv2
    <3> QED
      BY <3>1, <3>2, <3>3
  <2>21. Calm' /\ ~failed' /\ status' = "running"
    BY <1>1, <1>3, <2>1 DEF Calm
  <2>22. Inv2'
    BY <1>1, <1>3, <2>1, <2>13, <2>19, <2>20, <2>21, Reached
  <2> QED
    BY <2>19, <2>22 DEF ClosesOnly
<1> QED
  BY <1>1, <1>2, <1>3

\* A call of syncDir returns.
LEMMA ReturnSteps ==
  ASSUME TypeInv, Inv2, Return
  PROVE  Inv2' /\ (~failed => \A p : OpenOn(stack', p) <=> OpenOn(stack, p))
<1>1. /\ status = "running" /\ top.phase = "run" /\ Jobs({"waiting", "running", "counting"}) = {}
      /\ UNCHANGED <<opts, fs0, round, before, fs, done, failed>>
  BY DEF Return, At, calls
<1>2. CASE failed
  BY <1>1, <1>2, AbortSteps DEF Return
<1>3. CASE ~failed
  <2>1. stack' = Front(stack) /\ status' = IF Len(stack) = 1 THEN "ok" ELSE "running"
    BY <1>3 DEF Return
  <2>2. /\ Len(stack) \in 1 .. Len(stack) /\ Len(stack) \in Nat \ {0}
        /\ top = stack[Len(stack)] /\ Nested(stack) /\ Faithful(top)
    BY <1>1, TopIs DEF Inv2
  <2>3. Len(stack') = Len(stack) - 1 /\ \A i \in 1 .. Len(stack) - 1 : stack'[i] = stack[i]
    BY <1>1, <2>1, Popped
  <2>4. \A n \in Name : ~OpenAt(top, n)
    <3>1. \A n \in Name : top.job[n] \notin {"waiting", "running"} /\ n \notin top.todo
      BY <1>1, <2>2 DEF Jobs, Faithful
    <3> QED
      BY <1>1, <3>1 DEF OpenAt
  <2>5. \A p : ~OpenIn(top, p)
    BY <2>4 DEF OpenIn
  <2>6. \A i \in 1 .. Len(stack') : i \in 1 .. Len(stack) /\ i # Len(stack) /\ stack'[i] = stack[i]
    BY <2>2, <2>3
  <2>7. \A i \in 1 .. Len(stack) : i # Len(stack) => i \in 1 .. Len(stack')
    BY <2>2, <2>3
  <2>8. \A p : OpenOn(stack', p) <=> OpenOn(stack, p)
    BY <2>2, <2>5, <2>6, <2>7 DEF OpenOn
  <2>9. Nested(stack') /\ \A i \in 1 .. Len(stack') : Faithful(stack'[i])
    BY <2>2, <2>6 DEF Nested, Inv2
  <2>10. Calm' /\ ~failed' /\ status # "error"
    BY <1>1, <1>3 DEF Calm
  <2>11. ~OneWay => Len(stack') <= 1
    BY <2>2, <2>3 DEF Inv2, Shallow
  <2>12. Inv2'
    BY <1>1, <1>3, <2>8, <2>9, <2>10, <2>11, Reached
  <2> QED
    BY <2>8, <2>12
<1> QED
  BY <1>2, <1>3

\* A Sync begins: every entry is open.
LEMMA AllOpen ==
  /\ Nested(<<Call(Root)>>) /\ Faithful(Call(Root))
  /\ \A p \in Entry : OpenOn(<<Call(Root)>>, p)
<1> DEFINE c == Call(Root)
<1>1. /\ c \in Frame /\ c.dir = Root /\ c.phase = "listLocal" /\ c.todo = {}
      /\ \A n \in Name : c.job[n] = "none"
  BY RootPath, CallIs
<1> HIDE DEF c
<1>2. Faithful(c)
  BY <1>1 DEF Faithful, Visited
<1> DEFINE st == <<c>>
<1>3. Len(st) = 1 /\ st[1] = c
  OBVIOUS
<1> HIDE DEF st
<1>4. Nested(st)
  BY <1>3 DEF Nested
<1>5. ASSUME NEW p \in Entry PROVE OpenOn(st, p)
  <2>1. p \in Path /\ IsPrefix(Root, p) /\ Root # p /\ Root \in Path
    BY Order, RootPath DEF Entry
  <2>2. PICK n \in Name : IsPrefix(Append(Root, n), p)
    BY <2>1, Branches
  <2>3. OpenIn(c, p)
    BY <1>1, <2>2 DEF OpenIn, OpenAt
  <2> QED
    BY <1>3, <2>3 DEF OpenOn
<1> QED
  BY <1>2, <1>4, <1>5 DEF st, c

LEMMA InitSteps == Init => Inv2
<1> SUFFICES ASSUME Init PROVE Inv2
  OBVIOUS
<1>1. /\ fs0 = fs /\ before = "none" /\ stack = <<Call(Root)>> /\ failed = FALSE
      /\ status = "running" /\ done = {} /\ Len(stack) = 1 /\ stack[1] = Call(Root)
  BY DEF Init
<1>2. /\ Nested(stack) /\ \A i \in 1 .. Len(stack) : Faithful(stack[i])
      /\ \A p \in Entry : OpenOn(stack, p)
  BY <1>1, AllOpen
<1>3. SourceKept /\ Calm /\ Shallow /\ Untouched /\ Finished /\ Repeated
  BY <1>1, <1>2 DEF SourceKept, Calm, Shallow, Untouched, Finished, Repeated
<1>4. OnlyWhatIsDue
  BY <1>1 DEF OnlyWhatIsDue, Same, src0, dst0
<1> QED
  BY <1>2, <1>3, <1>4 DEF Inv2

\* What is removed, the source does not have.
LEMMA GoneSource ==
  ASSUME TypeInv, NEW p \in Path, Gone(p)
  PROVE  ~Exists(src0(p))
<1>1. /\ \A q \in Path : src0(q) \in Node
      /\ \A q, r \in Path : IsPrefix(q, r) /\ q # r /\ Exists(src0(r)) => src0(q).kind = "dir"
  BY Sides DEF TypeInv, Settings, Tree, src0
<1>2. PICK r \in Entry : IsPrefix(r, p) /\ ~Exists(src0(r))
  BY DEF Gone
<1> QED
  BY <1>1, <1>2, NodeFacts DEF Entry

\* A Sync that returned nil leaves nothing to do for one like it, late files apart.
LEMMA NothingDue ==
  ASSUME TypeInv, Inv2, SyncAgain, OneWay, opts.update, status = "ok", NEW p \in Entry
  PROVE  ~Gone(p)' /\ (Due(p)' => Late(p)')
<1>1. /\ UNCHANGED <<opts, fs>> /\ fs0' = fs /\ stack = <<>> /\ ~failed
      /\ Source' = Source /\ Dest' = Dest
  BY DEF SyncAgain, TypeInv, Stacked, Inv2, Calm, Source, Dest
<1>2. /\ Source \in Side /\ Dest \in Side /\ fs[Source] = fs0[Source]
      /\ \A q \in Path : src0(q) = fs0[Source][q] /\ src0(q) \in Node /\ dst0(q) \in Node
      /\ \A q, r \in Path : IsPrefix(q, r) /\ q # r /\ Exists(src0(r)) => src0(q).kind = "dir"
  <2>1. Source \in Side /\ Dest \in Side
    BY Sides DEF TypeInv
  <2> QED
    BY <2>1 DEF TypeInv, Settings, Tree, src0, dst0, Inv2, SourceKept
<1>3. /\ \A q : src0(q)' = src0(q) /\ dst0(q)' = fs[Dest][q]
      /\ \A q : (Visible(q)' <=> Visible(q)) /\ (Visited(q)' <=> Visited(q))
  BY <1>1, <1>2 DEF src0, dst0, Visible, IsIgnored, Visited
<1>4. \A q \in Entry : q \in Path /\ q # Root /\ Exactly(q, fs[Dest][q])
  <2>1. \A q : ~OpenOn(stack, q)
    BY <1>1 DEF OpenOn
  <2> QED
    BY <1>1, <2>1 DEF Inv2, Finished, Right, Entry
<1>5. \A q \in Entry : Gone(q) => ~Exists(src0(q))
  BY <1>4, GoneSource
<1>6. ~Gone(p)'
  <2> SUFFICES ASSUME opts.delete, NEW q \in Entry, Visited(Front(q)), Exists(fs[Dest][q]),
                      ~Exists(src0(q))
               PROVE  FALSE
    BY <1>1, <1>3 DEF Gone
  <2>1. q \in Path /\ Exactly(q, fs[Dest][q]) /\ src0(q) \in Node /\ q # Root
    BY <1>2, <1>4
  <2>2. ~Due(q) /\ ~Visited(q)
    BY <2>1, NodeFacts DEF Due, Visited
  <2>3. Exists(dst0(q)) => Gone(q)
    BY <2>1, Order DEF Gone
  <2> QED
    BY <2>1, <2>2, <2>3, NodeFacts DEF Exactly
<1>7. Due(p)' => Late(p)'
  <2> SUFFICES ASSUME Visible(p), src0(p).kind = "file",
                      Exists(fs[Dest][p]) =>
                        ~opts.ignoreExisting /\ src0(p).mtime > fs[Dest][p].mtime,
                      ~Exists(fs[Dest][p]) => ~opts.skipCreate
               PROVE  src0(p).mtime > Stamp(Dest)
    <3>1. round' - 1 = round /\ opts' = opts
      BY DEF SyncAgain, TypeInv, Settings
    <3> QED
      BY <1>1, <1>3, <3>1 DEF Due, Late, Clock, Stamp
  <2>1. p \in Path /\ p # Root /\ Exists(src0(p)) /\ Exactly(p, fs[Dest][p]) /\ ~Gone(p) /\ ~Visited(p)
    BY <1>2, <1>4, <1>5, NodeFacts DEF Visited
  <2>2. CASE Due(p)
    <3>1. fs[Dest][p] = File(src0(p).content, Stamp(Dest))
      BY <2>1, <2>2 DEF Exactly
    <3> QED
      BY <3>1 DEF File, Exists
  <2>3. CASE ~Due(p)
    <3>1. fs[Dest][p] = dst0(p)
      BY <2>1, <2>3 DEF Exactly
    <3> QED
      BY <2>3, <3>1 DEF Due
  <2> QED
    BY <2>2, <2>3
<1> QED
  BY <1>6, <1>7

LEMMA AgainSteps ==
  ASSUME TypeInv, Inv2, SyncAgain
  PROVE  Inv2'
<1>1. /\ UNCHANGED <<opts, fs>> /\ fs0' = fs /\ stack' = <<Call(Root)>> /\ failed' = FALSE
      /\ status' = "running" /\ done' = {} /\ before' = status
  BY DEF SyncAgain
<1>2. Source' = Source /\ Dest' = Dest /\ (OneWay' <=> OneWay)
  BY <1>1 DEF Source, Dest, OneWay
<1>3. (/\ Nested(<<Call(Root)>>) /\ Faithful(Call(Root))
       /\ \A p \in Entry : OpenOn(<<Call(Root)>>, p))'
  BY AllOpen, PTL
<1>4. /\ Len(stack') = 1 /\ stack'[1] = Call(Root)' /\ stack' = <<Call(Root)'>>
  <2>1. Call(Root)' = Call(Root)
    BY DEF Call, NoEntries
  <2> QED
    BY <1>1, <2>1
<1>5. /\ Nested(stack)' /\ (\A i \in 1 .. Len(stack) : Faithful(stack[i]))'
      /\ (\A p \in Entry : OpenOn(stack, p))'
  BY <1>3, <1>4
<1>6. SourceKept' /\ Calm' /\ Shallow' /\ Untouched' /\ Finished'
  BY <1>1, <1>4, <1>5 DEF SourceKept, Calm, Shallow, Untouched, Finished
<1>8. OnlyWhatIsDue'
  BY <1>1 DEF OnlyWhatIsDue, Same, src0, dst0
<1>9. Repeated'
  <2> SUFFICES ASSUME OneWay', opts'.update, before' = "ok"
               PROVE  done' = {} /\ \A p \in Entry : ~Gone(p)' /\ (Due(p)' => Late(p)')
    BY DEF Repeated
  <2> QED
    BY <1>1, <1>2, NothingDue
<1> QED
  BY <1>5, <1>6, <1>8, <1>9 DEF Inv2

\* Every step, unless a List of an existing directory fails in it.
LEMMA NextSteps ==
  ASSUME TypeInv, [Next]_vars
  PROVE  /\ listFaults <= listFaults'
         /\ Inv2 /\ listFaults' = listFaults => Inv2'
<1>1. ASSUME NEW s \in Side, NEW fails \in BOOLEAN, status = "running", SafeList(s, fails),
             top.phase = IF s = "local" THEN "listLocal" ELSE "listRemote"
      PROVE  listFaults <= listFaults' /\ (Inv2 /\ listFaults' = listFaults => Inv2')
  <2>1. listFaults \in Int /\ listFaults' = listFaults + (IF fails THEN 1 ELSE 0)
    BY <1>1, SyncAssumption DEF SafeList, TypeInv, Counters
  <2>2. listFaults' = listFaults => fails = FALSE
    BY <2>1
  <2>3. fails = FALSE => SafeList(s, FALSE)
    BY <1>1
  <2>4. top.phase = (IF s = "local" THEN "listLocal" ELSE "listRemote")
    BY <1>1
  <2>5. SafeList(s, FALSE) /\ Inv2 => Inv2'
    BY <1>1, <2>4, ListSteps
  <2>6. listFaults <= listFaults'
    BY <2>1
  <2>7. Inv2 /\ listFaults' = listFaults => Inv2'
    BY <2>2, <2>3, <2>5
  <2> QED
    BY <2>6, <2>7
<1>2. ASSUME NEW n \in Name, VisitEntry(n) PROVE UNCHANGED listFaults /\ (Inv2 => Inv2')
  <2>1. status = "running" /\ top.phase = "visit" /\ n \in top.todo
    BY <1>2 DEF VisitEntry, At
  <2> DEFINE k == Append(top.dir, n)
  <2>2. k = Append(top.dir, n)
    OBVIOUS
  <2> HIDE DEF k
  <2>3. CASE Skip(n)
    BY <2>1, <2>3, SkipSteps DEF Skip
  <2>4. CASE \E fails \in BOOLEAN : Descend(n, fails)
    BY <2>1, <2>2, <2>4, DescendSteps DEF Descend
  <2>5. CASE AddTransfer(n)
    BY <2>1, <2>5, AddSteps DEF AddTransfer
  <2> QED
    BY <1>2, <2>3, <2>4, <2>5 DEF VisitEntry
<1>3. ASSUME StartRunAll PROVE UNCHANGED listFaults /\ (Inv2 => Inv2')
  BY <1>3, RunSteps DEF StartRunAll
<1>4. ASSUME NEW n \in Name, StartJob(n) \/ TransferJob(n) \/ DeleteJob(n) \/ CountJob(n)
      PROVE  UNCHANGED listFaults /\ (Inv2 => Inv2')
  <2>1. status = "running" /\ UNCHANGED listFaults
    BY <1>4 DEF StartJob, TransferJob, DeleteJob, CountJob, At
  <2> DEFINE k == Append(top.dir, n)
             from == From(n)
             to == Other(from)
  <2>2. k = Append(top.dir, n) /\ from = From(n) /\ to = Other(from)
    OBVIOUS
  <2> HIDE DEF k, from, to
  <2>3. CASE StartJob(n) \/ CountJob(n)
    BY <2>1, <2>3, JobSteps
  <2>4. CASE TransferJob(n) /\ From(n) = "neither"
    BY <2>1, <2>4, NeitherSteps
  <2>5. CASE TransferJob(n) /\ From(n) # "neither"
    BY <2>1, <2>2, <2>5, CopySteps
  <2>6. CASE DeleteJob(n)
    BY <2>1, <2>2, <2>6, DeleteSteps
  <2> QED
    BY <1>4, <2>1, <2>3, <2>4, <2>5, <2>6
<1>5. ASSUME Return PROVE UNCHANGED listFaults /\ (Inv2 => Inv2')
  BY <1>5, ReturnSteps DEF Return
<1>6. ASSUME SyncAgain PROVE UNCHANGED listFaults /\ (Inv2 => Inv2')
  BY <1>6, AgainSteps DEF SyncAgain
<1>7. ASSUME UNCHANGED vars PROVE UNCHANGED listFaults /\ (Inv2 => Inv2')
  <2>1. UNCHANGED <<opts, fs0, round, before, fs, done, failed, stack, status, listFaults>>
    BY <1>7 DEF vars, calls
  <2>2. Inv2 => Calm' /\ Nested(stack') /\ (\A i \in 1 .. Len(stack') : Faithful(stack'[i]))
        /\ (~OneWay => Len(stack') <= 1)
    BY <2>1 DEF Inv2, Calm, Nested, Shallow, top
  <2>3. \A p : OpenOn(stack', p) <=> OpenOn(stack, p)
    BY <2>1
  <2> QED
    BY <2>1, <2>2, <2>3, Reached
<1> QED
  <2>1. ASSUME NEW fails \in BOOLEAN, ListLocal(fails) \/ ListRemote(fails)
        PROVE  listFaults <= listFaults' /\ (Inv2 /\ listFaults' = listFaults => Inv2')
    <3>1. CASE ListLocal(fails)
      BY <1>1, <3>1 DEF ListLocal, At, Side
    <3>2. CASE ListRemote(fails)
      BY <1>1, <3>2 DEF ListRemote, At, Side
    <3> QED
      BY <2>1, <3>1, <3>2
  <2>2. listFaults \in Int
    BY SyncAssumption DEF TypeInv, Counters
  <2> QED
    BY <1>2, <1>3, <1>4, <1>5, <1>6, <1>7, <2>1, <2>2 DEF Next, Terminated

Listings == TypeInv /\ (listFaults = 0 => Inv2)

LEMMA ListingsCorrect == Spec => []Listings
<1>1. Init => Listings
  BY InitType, InitSteps DEF Listings
<1>2. Listings /\ [Next]_vars => Listings'
  <2> SUFFICES ASSUME Listings, [Next]_vars PROVE Listings'
    OBVIOUS
  <2>1. TypeInv /\ TypeInv'
    BY NextType DEF Listings
  <2>2. listFaults' = 0 => listFaults = 0
    <3>1. listFaults \in Nat
      BY <2>1, SyncAssumption DEF TypeInv, Counters
    <3> QED
      BY <2>1, <3>1, NextSteps
  <2> QED
    BY <2>1, <2>2, NextSteps DEF Listings
<1> QED
  BY <1>1, <1>2, PTL DEF Spec

\* "remove extraneous files", "don't create", "don't overwrite", "only overwrite when
\* source is newer" at every moment of a one-way Sync, whatever transfers, removals and
\* MkdirAlls fail, as long as no listing of an existing directory failed.
THEOREM OnlyDueCorrect == Spec => [](listFaults = 0 => OnlyWhatIsDue)
<1>1. Listings => (listFaults = 0 => OnlyWhatIsDue)
  BY DEF Listings, Inv2
<1> QED
  BY <1>1, ListingsCorrect, PTL

\* A one-way Sync that returns nil, no listing of an existing directory having failed,
\* has brought every entry of the destination in line, at every depth.
THEOREM InLineCorrect == Spec => [](listFaults = 0 => InLine)
<1>1. Listings => (listFaults = 0 => InLine)
  <2> SUFFICES ASSUME TypeInv, Inv2, OneWay, status = "ok", NEW p \in Entry
               PROVE  Settled(p, fs[Dest][p])
    BY DEF Listings, InLine
  <2>1. stack = <<>> /\ ~failed
    BY DEF TypeInv, Stacked, Inv2, Calm
  <2>2. Exactly(p, fs[Dest][p])
    BY <2>1 DEF Inv2, Finished, Right, OpenOn
  <2> QED
    BY <2>2, ExactlySettles
<1> QED
  BY <1>1, ListingsCorrect, PTL

\* After a Sync in both directions that returns nil, of trees without subdirectories and
\* no listing having failed, both sides hold the same entries, the newer ones.
THEOREM BothAgreeCorrect == Spec => [](listFaults = 0 => BothAgree)
<1>1. Listings => (listFaults = 0 => BothAgree)
  <2> SUFFICES ASSUME TypeInv, Inv2, ~OneWay, Flat, status = "ok", NEW p \in Entry
               PROVE  Agreed(p, fs["local"][p], fs["remote"][p])
    BY DEF Listings, BothAgree, Agreed, Newer, Side
  <2>1. stack = <<>> /\ ~failed
    BY DEF TypeInv, Stacked, Inv2, Calm
  <2> QED
    BY <2>1 DEF Inv2, Finished, Right, OpenOn
<1> QED
  BY <1>1, ListingsCorrect, PTL

\* With update and whatever the server's clock, the Sync after one that returned nil
\* removes nothing and copies only files dated later than the destination's clock was at
\* the first of the two, no listing having failed in either.
THEOREM UpdateSettlesCorrect == Spec => [](listFaults = 0 => UpdateSettles)
<1>1. Listings => (listFaults = 0 => UpdateSettles)
  BY DEF Listings, Inv2, Repeated, Late, UpdateSettles
<1> QED
  BY <1>1, ListingsCorrect, PTL

\* The only entries of the destination that a step of a one-way Sync changes: those a
\* removal takes, those MkdirAll makes, and the file a copy writes, which was due and
\* until then as it was when Sync was called.
Replaced(p) == Due(p) /\ fs[Dest][p] = dst0(p)
Changed(p) ==
  \/ fs'[Dest][p] = Absent /\ Gone(p)
  \/ ~Exists(fs[Dest][p]) /\ Exists(fs'[Dest][p])
  \/ Replaced(p) /\ Exists(fs'[Dest][p])

LEMMA CopyChanges ==
  ASSUME TypeInv, Inv2, OneWay, NEW n \in Name, TransferJob(n), NEW p \in Entry
  PROVE  fs'[Dest][p] = fs[Dest][p] \/ Changed(p)
<1> DEFINE k == Append(top.dir, n)
           from == From(n)
           to == Other(from)
<1>1. k = Append(top.dir, n) /\ from = From(n) /\ to = Other(from)
  OBVIOUS
<1> HIDE DEF k, from, to
<1>2. /\ status = "running" /\ top.phase = "run" /\ top.job[n] = "running" /\ ~Extraneous(n)
      /\ from = Source /\ to = Dest /\ Copy(n, from)
  <2>1. From(n) = Source /\ Source # "neither"
    BY DEF From, Source
  <2> QED
    BY <1>1, <2>1 DEF TransferJob, At, Dest
<1>3. from \in Side /\ Stamp(to) \in Int /\ to \in Side /\ p \in Path
  BY <1>2, Sides DEF TypeInv, Entry
<1>4. /\ \A q \in Path : q # k =>
           \/ fs'[to][q] = fs[to][q]
           \/ IsPrefix(q, top.dir) /\ ~Exists(fs[to][q]) /\ fs'[to][q].kind = "dir"
      /\ CopyOutcome(n, from, to, k)
  <2>1. k = Append(top.dir, n) /\ to = Other(from) /\ from \in Side /\ Copy(n, from)
    BY <1>1, <1>2, <1>3
  <2>2. \A q \in Path : q # k =>
           \/ fs'[to][q] = fs[to][q]
           \/ IsPrefix(q, top.dir) /\ ~Exists(fs[to][q]) /\ fs'[to][q].kind = "dir"
    BY <1>2, <2>1, Copied
  <2>3. CopyOutcome(n, from, to, k)
    BY <1>2, <2>1, Copied
  <2> QED
    BY <2>2, <2>3
<1>5. CASE p # k
  <2>1. fs'[to][p].kind = "dir" => Exists(fs'[to][p])
    BY DEF Exists
  <2> QED
    BY <1>2, <1>3, <1>4, <1>5, <2>1 DEF Changed
<1>6. CASE p = k
  <2>1. /\ top = stack[Len(stack)] /\ Len(stack) \in 1 .. Len(stack) /\ stack # <<>>
        /\ stack \in Seq(Frame) /\ Nested(stack) /\ Faithful(top) /\ top \in Frame
    BY <1>2, TopIs DEF TypeInv, Stacked, Inv2
  <2>2. Due(k)
    <3>1. ~ExtraIn(top, n)
      BY <1>1, <1>2, TopKnows
    <3> QED
      BY <1>1, <1>2, <2>1, <3>1 DEF Faithful
  <2>3. OpenOn(stack, p)
    <3>1. OpenAt(top, n) /\ IsPrefix(Append(top.dir, n), p)
      BY <1>1, <1>2, <1>3, <1>6, Order DEF OpenAt
    <3> QED
      BY <1>3, <2>1, <3>1, OpenOf
  <2>4. Replaced(p)
    <3>1. fs[Dest][p] = dst0(p)
      BY <1>2, <1>3, <2>3 DEF Inv2, Untouched, dst0
    <3> QED
      BY <1>6, <2>2, <3>1 DEF Replaced
  <2>5. \A c : Exists(File(c, Stamp(to)))
    BY DEF File, Exists
  <2>6. fs'[to][k] = fs[to][k] \/ Exists(fs'[to][k])
    BY <1>4, <2>5 DEF CopyOutcome
  <2> QED
    BY <1>2, <1>6, <2>4, <2>6 DEF Changed
<1> QED
  BY <1>5, <1>6

LEMMA OtherChanges ==
  ASSUME TypeInv, Inv2, OneWay, NEW p \in Entry, [Next]_vars,
         ~ \E n \in Name : TransferJob(n)
  PROVE  fs'[Dest][p] = fs[Dest][p] \/ Changed(p)
<1>1. p \in Path
  BY DEF Entry
<1>2. ASSUME NEW n \in Name, DeleteJob(n) PROVE fs'[Dest][p] = fs[Dest][p] \/ Changed(p)
  <2> DEFINE k == Append(top.dir, n)
  <2>1. k = Append(top.dir, n)
    OBVIOUS
  <2> HIDE DEF k
  <2>2. status = "running" /\ top.phase = "run" /\ Extraneous(n)
    BY <1>2 DEF DeleteJob, At
  <2>3. /\ fs'[Dest][p] = fs[Dest][p] \/ fs'[Dest][p] = Absent
        /\ ~IsPrefix(k, p) => fs'[Dest][p] = fs[Dest][p]
    BY <1>1, <1>2, <2>1, <2>2, Deleted
  <2>4. /\ k \in Entry /\ Visited(Front(k))
        /\ opts.delete /\ Exists(dst0(k)) /\ ~Exists(src0(k))
    BY <2>1, <2>2, TopKnows
  <2>5. IsPrefix(k, p) => Gone(p)
    BY <1>1, <2>4, Ruled DEF TypeInv
  <2> QED
    BY <2>3, <2>5 DEF Changed
<1>3. ASSUME NEW n \in Name, VisitEntry(n) PROVE fs'[Dest][p] = fs[Dest][p] \/ Changed(p)
  <2>1. CASE \E fails \in BOOLEAN : Descend(n, fails)
    <3>1. status = "running"
      BY <1>3 DEF VisitEntry, At
    <3>2. \/ fs'[Dest][p] = fs[Dest][p]
          \/ ~Exists(fs[Dest][p]) /\ fs'[Dest][p].kind = "dir"
      BY <1>1, <2>1, <3>1, Descended
    <3>3. fs'[Dest][p].kind = "dir" => Exists(fs'[Dest][p])
      BY DEF Exists
    <3> QED
      BY <3>2, <3>3 DEF Changed
  <2>2. CASE Skip(n) \/ AddTransfer(n)
    BY <2>2 DEF Skip, AddTransfer
  <2> QED
    BY <1>3, <2>1, <2>2 DEF VisitEntry
<1>4. ASSUME UNCHANGED fs PROVE fs'[Dest][p] = fs[Dest][p] \/ Changed(p)
  BY <1>4
<1>5. ASSUME NEW fails \in BOOLEAN, ListLocal(fails) \/ ListRemote(fails) PROVE UNCHANGED fs
  BY <1>5 DEF ListLocal, ListRemote, SafeList
<1>6. ASSUME NEW n \in Name, StartJob(n) \/ CountJob(n) PROVE UNCHANGED fs
  BY <1>6 DEF StartJob, CountJob
<1>7. StartRunAll \/ Return \/ SyncAgain \/ UNCHANGED vars => UNCHANGED fs
  BY DEF StartRunAll, Return, SyncAgain, vars
<1> QED
  BY <1>2, <1>3, <1>4, <1>5, <1>6, <1>7 DEF Next, Terminated

LEMMA Changes ==
  ASSUME TypeInv, Inv2, OneWay, NEW p \in Entry, [Next]_vars
  PROVE  fs'[Dest][p] = fs[Dest][p] \/ Changed(p)
BY CopyChanges, OtherChanges

\* "remove extraneous files from destination": if no listing of an existing directory
\* fails, whatever a step removes from the destination the source does not have.
THEOREM DeletesCorrect ==
  ASSUME MaxListFaults = 0
  PROVE  Spec => DeletesOnlyExtraneous
<1>1. ASSUME Listings, [Next]_vars, OneWay, NEW p \in Entry,
             Exists(fs[Dest][p]), ~Exists(fs'[Dest][p])
      PROVE  ~Exists(fs[Source][p])
  <2>1. TypeInv /\ Inv2
    BY <1>1 DEF Listings, TypeInv, Counters
  <2>2. Gone(p)
    BY <1>1, <2>1, Changes DEF Changed
  <2>3. fs[Source][p] = src0(p) /\ p \in Path
    BY <1>1, <2>1 DEF Inv2, SourceKept, src0, Entry
  <2>4. ~Exists(src0(p))
    BY <2>1, <2>2, <2>3, GoneSource
  <2> QED
    BY <2>3, <2>4
<1>2. Listings /\ [Next]_vars =>
        [OneWay => \A p \in Entry :
           Exists(fs[Dest][p]) /\ ~Exists(fs'[Dest][p]) => ~Exists(fs[Source][p])]_vars
  BY <1>1
<1> QED
  BY <1>2, ListingsCorrect, PTL DEF Spec, DeletesOnlyExtraneous

\* "only overwrite when source is newer": if no listing of an existing directory fails,
\* a step that replaces a destination file puts one there whose mtime, as the sides
\* report them, is later: whatever their clocks are, and whatever RemoteTimeOffset is.
THEOREM OverwritesCorrect ==
  ASSUME MaxListFaults = 0
  PROVE  Spec => OverwritesOnlyOlder
<1>1. ASSUME Listings, [Next]_vars, OneWay, opts.update, NEW p \in Entry,
             Exists(fs[Dest][p]), Exists(fs'[Dest][p]), fs'[Dest][p] # fs[Dest][p]
      PROVE  fs[Source][p].mtime > fs[Dest][p].mtime
  <2>1. TypeInv /\ Inv2
    BY <1>1 DEF Listings, TypeInv, Counters
  <2>2. Due(p) /\ fs[Dest][p] = dst0(p)
    BY <1>1, <2>1, Changes, NodeFacts DEF Changed, Replaced
  <2>3. fs[Source][p] = src0(p)
    BY <1>1, <2>1 DEF Inv2, SourceKept, src0, Entry
  <2> QED
    BY <1>1, <2>2, <2>3 DEF Due
<1>2. Listings /\ [Next]_vars =>
        [OneWay /\ opts.update => \A p \in Entry :
           Exists(fs[Dest][p]) /\ Exists(fs'[Dest][p]) /\ fs'[Dest][p] # fs[Dest][p]
             => fs[Source][p].mtime > fs[Dest][p].mtime]_vars
  BY <1>1
<1> QED
  BY <1>2, ListingsCorrect, PTL DEF Spec, OverwritesOnlyOlder

--------------------------------------------------------------------------------
(***************************************************************************)
(* The counters of a Sync that runs one task at a time.  What is counted   *)
(* so far is what the calls on the stack have closed so far: the entries   *)
(* passed over (Skips), and the operations that have taken effect, less    *)
(* the one whose task has not counted it yet (Books).                      *)
(***************************************************************************)
\* Of the source, an entry that is passed over where its directory is visited.
Skippable(p) ==
  /\ Visited(Front(p)) /\ Exists(src0(p))
  /\ ~Visible(p) \/ (src0(p).kind = "file" /\ ~Due(p))
SkippedOn(st) == {p \in Entry : Skippable(p) /\ ~OpenOn(st, p)}
Skips ==
  OneWay /\ ~failed /\ status # "error" =>
    /\ IsFiniteSet(SkippedOn(stack))
    /\ result.skipped = Cardinality(SkippedOn(stack))

\* Before RunAll no task has begun; one at a time, if that is what is asked for.
Busy(c, n) == c.job[n] \in {"running", "counting"}
Alone ==
  \A i \in 1 .. Len(stack) :
    /\ stack[i].phase # "run" => \A n \in Name : ~Busy(stack[i], n) /\ stack[i].job[n] # "done"
    /\ Capacity = 1 => \A n, m \in Name : Busy(stack[i], n) /\ Busy(stack[i], m) => n = m

\* What a task has done and not counted yet.
Counter(n) == IF Extraneous(n) THEN "deleted" ELSE "transferred"
Pending(c) ==
  IF status = "running" /\ \E n \in Name : top.job[n] = "counting" /\ Counter(n) = c THEN 1 ELSE 0
DoneBy(c) == {w \in done : Gone(w[2]) <=> c = "deleted"}
Books ==
  OneWay /\ Capacity = 1 /\ ~failed /\ status # "error" =>
    /\ IsFiniteSet(done)
    /\ \A w \in done : \E p \in Entry : w = <<Dest, p>> /\ ~OpenOn(stack, p) /\ (Due(p) \/ Gone(p))
    /\ \A c \in {"deleted", "transferred"} : result[c] + Pending(c) = Cardinality(DoneBy(c))
    /\ status = "running" => \A n \in Name : top.job[n] = "counting" => reg[n] = result[Counter(n)]

LEMMA FinitePair ==
  /\ \A x : IsFiniteSet({x}) /\ Cardinality({x}) = 1
  /\ IsFiniteSet({}) /\ Cardinality({}) = 0
BY FS_Singleton, FS_EmptySet

--------------------------------------------------------------------------------
LEMMA AloneUpdated ==
  ASSUME TypeInv, Alone, status = "running", UNCHANGED opts, NEW f \in Frame, Update(f),
         f.phase # "run" => \A n \in Name : ~Busy(f, n) /\ f.job[n] # "done",
         Capacity = 1 => \A n, m \in Name : Busy(f, n) /\ Busy(f, m) => n = m
  PROVE  Alone'
<1>1. /\ Len(stack') = Len(stack) /\ stack'[Len(stack)] = f
      /\ \A i \in 1 .. Len(stack) : i # Len(stack) => stack'[i] = stack[i]
  BY Updated
<1>2. Capacity' = Capacity /\ \A c, n : Busy(c, n)' <=> Busy(c, n)
  BY DEF Capacity, Busy
<1> QED
  BY <1>1, <1>2 DEF Alone

LEMMA Tasked ==
  ASSUME TypeInv, status = "running", NEW n \in Name, NEW x \in JobState,
         Update([top EXCEPT !.job[n] = x])
  PROVE  \E f \in Frame : /\ Update(f) /\ f.dir = top.dir /\ f.list = top.list /\ f.phase = top.phase
                          /\ f.todo = top.todo
                          /\ \A m \in Name : f.job[m] = IF m = n THEN x ELSE top.job[m]
<1> DEFINE f == [top EXCEPT !.job[n] = x]
<1>1. /\ f \in Frame /\ f.dir = top.dir /\ f.list = top.list /\ f.phase = top.phase
      /\ f.todo = top.todo
      /\ \A m \in Name : f.job[m] = IF m = n THEN x ELSE top.job[m]
  BY NewTop
<1>2. Update(f)
  OBVIOUS
<1> HIDE DEF f
<1> QED
  BY <1>1, <1>2

\* A task starts when no other one runs, if one is to run at a time.
LEMMA StartAlone ==
  ASSUME TypeInv, Alone, status = "running", NEW n \in Name, StartJob(n), Capacity = 1
  PROVE  \A m \in Name : ~Busy(top, m)
<1> DEFINE J == Jobs({"running", "counting"})
<1>1. Cardinality(J) < 1
  BY DEF StartJob
<1>2. \A m \in Name : m \in J <=> Busy(top, m)
  BY DEF Jobs, Busy
<1>3. \A m, l \in Name : Busy(top, m) /\ Busy(top, l) => m = l
  BY TopIs DEF Alone
<1> SUFFICES ASSUME NEW m \in Name, Busy(top, m) PROVE FALSE
  OBVIOUS
<1>4. J = {m}
  <2>1. J \subseteq Name
    BY DEF Jobs
  <2> HIDE DEF J
  <2> QED
    BY <1>2, <1>3, <2>1
<1> HIDE DEF J
<1> QED
  BY <1>1, <1>4, FinitePair

LEMMA AloneSteps == TypeInv /\ Alone /\ [Next]_vars => Alone'
<1> SUFFICES ASSUME TypeInv, Alone, [Next]_vars PROVE Alone'
  OBVIOUS
<1>1. /\ status = "running" => /\ top = stack[Len(stack)] /\ Len(stack) \in 1 .. Len(stack)
                               /\ Len(stack) \in Nat \ {0}
                               /\ top \in Frame
  BY TopIs
<1>2. status = "running" =>
        /\ top.phase # "run" => \A n \in Name : ~Busy(top, n) /\ top.job[n] # "done"
        /\ Capacity = 1 => \A n, m \in Name : Busy(top, n) /\ Busy(top, m) => n = m
  BY <1>1 DEF Alone
<1>3. ASSUME NEW s \in Side, NEW fails \in BOOLEAN, status = "running", SafeList(s, fails),
             top.phase \in {"listLocal", "listRemote"}
      PROVE  Alone'
  <2>1. PICK f \in Frame : Update(f) /\ f.job = top.job
    BY <1>3, Listed
  <2>2. UNCHANGED opts
    BY <1>3 DEF SafeList, calls
  <2> QED
    BY <1>2, <1>3, <2>1, <2>2, AloneUpdated DEF Busy
<1>4. ASSUME NEW n \in Name, Skip(n), At("visit") PROVE Alone'
  <2>1. status = "running" /\ top.phase = "visit" /\ UNCHANGED opts
        /\ Update([top EXCEPT !.todo = @ \ {n}])
    BY <1>4 DEF Skip, calls, At
  <2>2. PICK f \in Frame : Update(f) /\ f.job = top.job /\ f.phase = top.phase
    BY <2>1, NewTop
  <2>3. /\ f.phase # "run" => \A m \in Name : ~Busy(f, m) /\ f.job[m] # "done"
        /\ Capacity = 1 => \A m, l \in Name : Busy(f, m) /\ Busy(f, l) => m = l
    BY <1>2, <2>1, <2>2 DEF Busy
  <2> QED
    BY <2>1, <2>2, <2>3, AloneUpdated
<1>5. ASSUME NEW n \in Name, AddTransfer(n), At("visit") PROVE Alone'
  <2>1. status = "running" /\ top.phase = "visit" /\ UNCHANGED opts
        /\ Update([top EXCEPT !.todo = @ \ {n}, !.job[n] = "waiting"])
    BY <1>5 DEF AddTransfer, calls, At
  <2>2. PICK f \in Frame : /\ Update(f) /\ f.phase = top.phase
                           /\ \A m \in Name : f.job[m] = IF m = n THEN "waiting" ELSE top.job[m]
    BY <2>1, NewTop
  <2>3. \A m \in Name : ~Busy(f, m) /\ f.job[m] # "done"
    BY <1>2, <2>1, <2>2 DEF Busy
  <2> QED
    BY <2>1, <2>2, <2>3, AloneUpdated
<1>6. ASSUME NEW n \in Name, NEW fails \in BOOLEAN, At("visit"), Descend(n, fails) PROVE Alone'
  <2> DEFINE k == Append(top.dir, n)
             f == [top EXCEPT !.todo = @ \ {n}]
             c == Call(k)
  <2>1. status = "running" /\ top.phase = "visit"
    BY <1>6 DEF At
  <2>2. /\ k \in Inner /\ UNCHANGED opts
        /\ \/ ReturnError
           \/ stack' = Append([stack EXCEPT ![Len(stack)] = f], Call(k))
    BY <1>6, <2>1, Descended DEF calls
  <2>3. /\ c \in Frame /\ \A m \in Name : c.job[m] = "none"
    BY <2>2, CallIs
  <2>4. f \in Frame /\ f.job = top.job /\ f.phase = "visit"
    BY <2>1, NewTop
  <2>5. Capacity' = Capacity /\ \A x, m : Busy(x, m)' <=> Busy(x, m)
    BY <2>2 DEF Capacity, Busy
  <2>6. CASE ReturnError
    BY <2>6 DEF ReturnError, Alone
  <2>7. CASE stack' = Append([stack EXCEPT ![Len(stack)] = f], c)
    <3>1. stack \in Seq(Frame)
      BY DEF TypeInv, Stacked
    <3> HIDE DEF f, c
    <3>2. /\ Len(stack') = Len(stack) + 1 /\ stack'[Len(stack) + 1] = c /\ stack'[Len(stack)] = f
          /\ \A i \in 1 .. Len(stack) : i # Len(stack) => stack'[i] = stack[i]
      BY <1>1, <2>1, <2>3, <2>4, <2>7, <3>1
    <3>3. \A i \in 1 .. Len(stack') : i = Len(stack) + 1 \/ i \in 1 .. Len(stack)
      BY <1>1, <2>1, <3>2
    <3>4. \A m \in Name : ~Busy(c, m) /\ c.job[m] # "done" /\ ~Busy(f, m) /\ f.job[m] # "done"
      BY <1>2, <2>1, <2>3, <2>4 DEF Busy
    <3> QED
      BY <2>5, <3>2, <3>3, <3>4 DEF Alone
  <2> QED
    BY <2>2, <2>6, <2>7
<1>7. CASE StartRunAll
  <2> DEFINE f == [top EXCEPT !.phase = "run",
                              !.job = [n \in Name |-> IF Extraneous(n) THEN "waiting" ELSE @[n]]]
  <2>1. status = "running" /\ top.phase = "visit" /\ UNCHANGED opts /\ Update(f)
    BY <1>7 DEF StartRunAll, calls, At
  <2>2. /\ f \in Frame
        /\ \A n \in Name : f.job[n] = IF Extraneous(n) THEN "waiting" ELSE top.job[n]
    BY <1>1, <2>1 DEF Frame, Phase, JobState
  <2> HIDE DEF f
  <2> QED
    BY <1>2, <2>1, <2>2, AloneUpdated DEF Busy
<1>8. ASSUME NEW n \in Name, StartJob(n) PROVE Alone'
  <2>1. status = "running" /\ top.phase = "run" /\ UNCHANGED opts
        /\ Update([top EXCEPT !.job[n] = "running"])
    BY <1>8 DEF StartJob, calls, At
  <2>2. Capacity = 1 => \A m \in Name : ~Busy(top, m)
    BY <1>8, <2>1, StartAlone
  <2>3. "running" \in JobState
    BY DEF JobState
  <2>4. PICK f \in Frame : /\ Update(f) /\ f.phase = top.phase
                           /\ \A m \in Name : f.job[m] = IF m = n THEN "running" ELSE top.job[m]
    BY <2>1, <2>3, Tasked
  <2>5. Capacity = 1 => \A m, l \in Name : Busy(f, m) /\ Busy(f, l) => m = l
    BY <2>2, <2>4 DEF Busy
  <2> QED
    BY <2>1, <2>4, <2>5, AloneUpdated
<1>9. ASSUME NEW n \in Name, TransferJob(n) \/ DeleteJob(n) \/ CountJob(n) PROVE Alone'
  <2>1. status = "running" /\ top.phase = "run" /\ UNCHANGED opts /\ Busy(top, n)
    BY <1>9 DEF TransferJob, DeleteJob, CountJob, calls, At, Busy
  <2>2. PICK x \in {"counting", "done"} : Update([top EXCEPT !.job[n] = x])
    BY <1>9 DEF TransferJob, DeleteJob, CountJob, Copy, Succeed, FailJob
  <2>3. x \in JobState
    BY DEF JobState
  <2>4. PICK f \in Frame : /\ Update(f) /\ f.phase = top.phase
                           /\ \A m \in Name : f.job[m] = IF m = n THEN x ELSE top.job[m]
    BY <2>1, <2>2, <2>3, Tasked
  <2>5. Capacity = 1 => \A m, l \in Name : Busy(f, m) /\ Busy(f, l) => m = l
    BY <1>2, <2>1, <2>4 DEF Busy
  <2> QED
    BY <2>1, <2>4, <2>5, AloneUpdated
<1>10. CASE Return
  <2>1. UNCHANGED opts /\ status = "running"
    BY <1>10 DEF Return, calls, At
  <2>2. Capacity' = Capacity /\ \A x, m : Busy(x, m)' <=> Busy(x, m)
    BY <2>1 DEF Capacity, Busy
  <2>3. CASE failed
    BY <1>10, <2>3 DEF Return, ReturnError, Alone
  <2>4. CASE ~failed
    <3>1. Len(stack') = Len(stack) - 1 /\ \A i \in 1 .. Len(stack) - 1 : stack'[i] = stack[i]
      BY <1>10, <2>1, <2>4, Popped DEF Return
    <3>2. \A i \in 1 .. Len(stack') : i \in 1 .. Len(stack) /\ stack'[i] = stack[i]
      BY <1>1, <2>1, <3>1
    <3> QED
      BY <2>2, <3>2 DEF Alone
  <2> QED
    BY <2>3, <2>4
<1>11. CASE SyncAgain
  <2> DEFINE c == Call(Root)
  <2>1. stack' = <<c>>
    BY <1>11 DEF SyncAgain
  <2>2. \A n \in Name : c.job[n] = "none"
    BY RootPath, CallIs
  <2> HIDE DEF c
  <2>3. Len(stack') = 1 /\ stack'[1] = c
    BY <2>1
  <2> QED
    BY <2>2, <2>3 DEF Alone, Busy
<1>12. CASE UNCHANGED vars
  <2>1. UNCHANGED <<stack, opts>>
    BY <1>12 DEF vars, calls
  <2> QED
    BY <2>1 DEF Alone, Busy, Capacity
<1>13. ASSUME NEW fails \in BOOLEAN, ListLocal(fails) \/ ListRemote(fails) PROVE Alone'
  <2>1. CASE ListLocal(fails)
    BY <1>3, <2>1 DEF ListLocal, At, Side
  <2>2. CASE ListRemote(fails)
    BY <1>3, <2>2 DEF ListRemote, At, Side
  <2> QED
    BY <1>13, <2>1, <2>2
<1> QED
  BY <1>4, <1>5, <1>6, <1>7, <1>8, <1>9, <1>10, <1>11, <1>12, <1>13
     DEF Next, Terminated, VisitEntry

--------------------------------------------------------------------------------
\* What the innermost call closes.
LEMMA Closing ==
  ASSUME TypeInv, Inv2, status = "running", NEW f \in Frame, Update(f), f.dir = top.dir,
         \A n \in Name : OpenAt(f, n) => OpenAt(top, n)
  PROVE  /\ \A p \in Entry : OpenOn(stack', p) => OpenOn(stack, p)
         /\ \A p \in Entry : OpenOn(stack, p) /\ ~OpenOn(stack', p) =>
              \E n \in Name : /\ IsPrefix(Append(top.dir, n), p)
                              /\ OpenAt(top, n) /\ ~OpenAt(f, n)
<1>1. /\ \A n \in Name : \A p \in Path : IsPrefix(Append(top.dir, n), p) =>
           /\ OpenOn(stack', p) <=> OpenAt(f, n)
           /\ OpenOn(stack, p) <=> OpenAt(top, n)
      /\ \A p \in Path : (\A n \in Name : ~IsPrefix(Append(top.dir, n), p)) =>
           (OpenOn(stack', p) <=> OpenOn(stack, p))
  BY OpenUpdated DEF Inv2
<1>2. \A p \in Entry : p \in Path
  BY DEF Entry
<1> QED
  BY <1>1, <1>2

\* Below an entry that is not entered nothing is passed over.
LEMMA NoneBelow ==
  ASSUME Settings, NEW k \in Entry, ~Visited(k), NEW p \in Entry, IsPrefix(k, p), p # k
  PROVE  ~Skippable(p)
<1>1. k \in Path /\ p \in Path /\ Front(p) \in Path
  BY Fronts DEF Entry
<1>2. IsPrefix(k, Front(p))
  BY <1>1, Fronts
<1>3. Visited(Front(p)) => Visited(k)
  BY <1>1, <1>2, Ruled
<1> QED
  BY <1>3 DEF Skippable

LEMMA SkipsFrozen ==
  ASSUME UNCHANGED <<opts, fs0, round>>
  PROVE  /\ \A p : Skippable(p)' <=> Skippable(p)
         /\ SkippedOn(stack)' = SkippedOn(stack')
<1>1. \A p : Skippable(p)' <=> Skippable(p)
  BY Frozen DEF Skippable
<1>2. \A p : OpenOn(stack, p)' <=> OpenOn(stack', p)
  BY Frozen DEF OpenOn
<1> QED
  BY <1>1, <1>2 DEF SkippedOn

\* A step that passes over nothing.
LEMMA SkipsKept ==
  ASSUME Skips, UNCHANGED <<opts, fs0, round>>, result'.skipped = result.skipped,
         failed \/ status = "error" => failed' \/ status' = "error", failed' \in BOOLEAN,
         OneWay /\ ~failed' /\ status' # "error" =>
           \A p \in Entry : Skippable(p) => (OpenOn(stack', p) <=> OpenOn(stack, p))
  PROVE  Skips'
<1> SUFFICES ASSUME OneWay, ~failed', status' # "error"
             PROVE  /\ IsFiniteSet(SkippedOn(stack'))
                    /\ result'.skipped = Cardinality(SkippedOn(stack'))
  BY SkipsFrozen, Frozen DEF Skips
<1>1. SkippedOn(stack') = SkippedOn(stack)
  BY DEF SkippedOn
<1> QED
  BY <1>1 DEF Skips

\* A step of the innermost call that closes nothing but what is not passed over.
LEMMA SkipsUpdated ==
  ASSUME TypeInv, Inv2, Skips, status = "running", UNCHANGED <<opts, fs0, round, status>>,
         result'.skipped = result.skipped, failed => failed', failed' \in BOOLEAN,
         NEW f \in Frame, Update(f), f.dir = top.dir,
         \A n \in Name : OpenAt(f, n) => OpenAt(top, n),
         OneWay => \A n \in Name : OpenAt(top, n) /\ ~OpenAt(f, n) =>
           ~Visited(Append(top.dir, n)) /\ ~Skippable(Append(top.dir, n))
  PROVE  Skips'
<1>1. ASSUME OneWay, NEW p \in Entry, Skippable(p) PROVE OpenOn(stack', p) <=> OpenOn(stack, p)
  <2> SUFFICES ASSUME NEW n \in Name, NEW k, k = Append(top.dir, n), IsPrefix(k, p),
                      OpenAt(top, n), ~OpenAt(f, n)
               PROVE  FALSE
    BY Closing
  <2>1. k \in Entry
    BY TopIs, ChildIs
  <2>2. ~Visited(k) /\ ~Skippable(k)
    BY <1>1
  <2> QED
    BY <1>1, <2>1, <2>2, NoneBelow DEF TypeInv
<1> QED
  BY <1>1, SkipsKept

\* A task of a one-way call is a removal or a copy.
LEMMA TaskOf ==
  ASSUME TypeInv, Inv2, status = "running", OneWay, NEW n \in Name, top.job[n] # "none",
         NEW k, k = Append(top.dir, n)
  PROVE  /\ k \in Entry /\ ~Visited(k) /\ ~Skippable(k)
         /\ Due(k) \/ Gone(k)
         /\ Gone(k) <=> Extraneous(n)
<1>1. top = stack[Len(stack)] /\ Len(stack) \in 1 .. Len(stack)
  BY TopIs
<1>2. /\ top.phase \in {"visit", "run"}
      /\ ExtraIn(top, n) \/ Due(k)
  BY <1>1 DEF Inv2, Faithful
<1>3. /\ k \in Entry /\ k \in Path /\ Front(k) = top.dir /\ Visited(top.dir)
      /\ Extraneous(n) <=> ExtraIn(top, n)
      /\ Extraneous(n) <=> opts.delete /\ Exists(dst0(k)) /\ ~Exists(src0(k))
  BY <1>2, TopKnows
<1>4. Extraneous(n) => Gone(k) /\ ~Exists(src0(k))
  BY <1>3, Ruled, Order DEF TypeInv
<1>5. Due(k) => ~Visited(k) /\ Exists(src0(k)) /\ ~Skippable(k)
  BY <1>3, Ruled DEF TypeInv, Due, Skippable
<1>6. Exists(src0(k)) => ~Gone(k)
  BY <1>3, GoneSource
<1>7. ~Exists(src0(k)) => ~Visited(k) /\ ~Skippable(k)
  BY <1>3, Ruled DEF TypeInv, Skippable
<1> QED
  BY <1>2, <1>3, <1>4, <1>5, <1>6, <1>7

\* A listing closes only names that neither side has.
LEMMA SkipsList ==
  ASSUME TypeInv, Inv2, Skips, status = "running", NEW s \in Side,
         top.phase = (IF s = "local" THEN "listLocal" ELSE "listRemote"), SafeList(s, FALSE),
         Inv2', TypeInv'
  PROVE  Skips'
<1>1. PICK f \in Frame :
        /\ Update(f) /\ f.dir = top.dir /\ Sound(f) /\ f.job = top.job
        /\ f.phase = IF s = "local" THEN "listRemote" ELSE "visit"
        /\ f.list[Other(s)] = top.list[Other(s)]
        /\ \A n \in Name : f.list[s][n] = IF FALSE \/ fs[s][top.dir].kind # "dir" THEN Absent
                                          ELSE fs[s][Append(top.dir, n)]
        /\ f.todo = IF s = "local" THEN {}
                    ELSE IF OneWay THEN {n \in Name : Exists(f.list[Source][n])}
                    ELSE {n \in Name : Exists(f.list["local"][n]) \/ Exists(f.list["remote"][n])}
  BY Listed
<1>2. UNCHANGED <<opts, fs0, round, status, result, failed>>
  BY DEF SafeList, calls
<1>3. \A n \in Name : OpenAt(top, n)
  BY DEF OpenAt
<1>4. Faithful(f)
  <2>1. stack'[Len(stack)] = f /\ Len(stack') = Len(stack) /\ Len(stack) \in 1 .. Len(stack)
    BY <1>1, Updated, TopIs
  <2>2. Faithful(f)'
    BY <2>1 DEF Inv2
  <2> QED
    BY <1>2, <2>2, Frozen
<1>5. ASSUME OneWay, NEW n \in Name, ~OpenAt(f, n), NEW k, k = Append(top.dir, n)
      PROVE  ~Visited(k) /\ ~Skippable(k)
  <2>1. f.phase = "visit" /\ s = "remote" /\ n \notin f.todo
    BY <1>1, <1>5 DEF OpenAt, Side
  <2>2. ~Exists(f.list[Source][n])
    BY <1>1, <1>5, <2>1
  <2>3. f.list[Source][n] = fs0[Source][k] /\ Source \in {"local", "remote"}
    BY <1>1, <1>4, <1>5, <2>1 DEF Faithful, Source
  <2>4. ~Exists(src0(k)) /\ k \in Entry
    BY <1>5, <2>2, <2>3, TopIs, ChildIs DEF src0
  <2> QED
    BY <2>4, Ruled DEF TypeInv, Skippable
<1>6. failed' \in BOOLEAN
  BY DEF TypeInv, Counters
<1> QED
  BY <1>1, <1>2, <1>3, <1>5, <1>6, SkipsUpdated

\* One more entry is passed over.
LEMMA SkipsSkip ==
  ASSUME TypeInv, Inv2, Skips, status = "running", top.phase = "visit", NEW n \in top.todo, n \in Name,
         Skip(n)
  PROVE  Skips'
<1> DEFINE k == Append(top.dir, n)
           f == [top EXCEPT !.todo = @ \ {n}]
<1>1. /\ Update(f) /\ OneWay
      /\ IsIgnored(n) \/ (Seen(Source, n).kind = "file" /\ ~Transfers(Seen(Source, n), Seen(Dest, n)))
      /\ UNCHANGED <<opts, fs0, round, status, failed>>
      /\ result' = [result EXCEPT !.skipped = @ + 1]
  BY DEF Skip, calls
<1>2. /\ f \in Frame /\ f.dir = top.dir /\ f.list = top.list /\ f.phase = top.phase
      /\ f.todo = top.todo \ {n} /\ f.job = top.job
  BY NewTop
<1>3. Faithful(top) /\ ~failed
  <2>1. top = stack[Len(stack)] /\ Len(stack) \in 1 .. Len(stack)
    BY TopIs
  <2> QED
    BY <2>1 DEF Inv2, Calm
<1>4. k = Append(top.dir, n)
  OBVIOUS
<1> HIDE DEF f, k
<1>5. /\ k \in Entry /\ k \in Path /\ Front(k) = top.dir /\ Visited(top.dir)
      /\ Seen(Source, n) = src0(k) /\ Seen(Dest, n) = dst0(k)
      /\ Visible(k) <=> ~IsIgnored(n)
      /\ Exists(src0(k)) /\ ~ExtraIn(top, n) /\ k # Root
  <2>1. Exists(src0(k))
    BY <1>1, <1>3, <1>4 DEF Faithful
  <2> QED
    BY <1>1, <1>4, <2>1, TopKnows DEF Entry
<1>6. ~Visited(k) /\ Skippable(k)
  BY <1>1, <1>5 DEF Visited, Due, Transfers, Skippable
<1>7. top.job[n] = "none" /\ \A m \in Name : ExtraIn(f, m) <=> ExtraIn(top, m)
  BY <1>2, <1>3 DEF Faithful, ExtraIn
<1>8. ~OpenAt(f, n) /\ OpenAt(top, n) /\ \A m \in Name : m # n => (OpenAt(f, m) <=> OpenAt(top, m))
  BY <1>2, <1>5, <1>7 DEF OpenAt
<1>9. /\ \A p \in Entry : OpenOn(stack', p) => OpenOn(stack, p)
      /\ \A p \in Entry : OpenOn(stack, p) /\ ~OpenOn(stack', p) => IsPrefix(k, p)
  BY <1>1, <1>2, <1>4, <1>8, Closing
<1>10. OpenOn(stack, k) /\ ~OpenOn(stack', k)
  <2>1. IsPrefix(Append(top.dir, n), k)
    BY <1>4, <1>5, Order
  <2> QED
    BY <1>1, <1>2, <1>5, <1>8, <2>1, OpenUpdated DEF Inv2
<1>11. SkippedOn(stack') = SkippedOn(stack) \cup {k} /\ k \notin SkippedOn(stack)
  <2>1. \A p \in Entry : Skippable(p) /\ IsPrefix(k, p) => p = k
    BY <1>5, <1>6, NoneBelow DEF TypeInv
  <2> QED
    BY <1>5, <1>6, <1>9, <1>10, <2>1 DEF SkippedOn
<1>12. result.skipped \in Nat /\ result'.skipped = result.skipped + 1
  BY <1>1 DEF TypeInv, Counters
<1>13. IsFiniteSet(SkippedOn(stack)) /\ result.skipped = Cardinality(SkippedOn(stack))
  BY <1>1, <1>3 DEF Skips
<1>14. IsFiniteSet(SkippedOn(stack')) /\ Cardinality(SkippedOn(stack')) = result.skipped + 1
  BY <1>11, <1>13, FS_AddElement
<1> QED
  BY <1>1, <1>12, <1>14, SkipsFrozen DEF Skips

--------------------------------------------------------------------------------
Serial == OneWay /\ Capacity = 1
Kinds == {"deleted", "transferred"}
Counting(n) == status = "running" /\ top.job[n] = "counting"

LEMMA BooksFrozen ==
  ASSUME UNCHANGED <<opts, fs0, round>>
  PROVE  /\ Serial' <=> Serial
         /\ Dest' = Dest
         /\ \A p : (Due(p)' <=> Due(p)) /\ (Gone(p)' <=> Gone(p))
         /\ \A p : OpenOn(stack, p)' <=> OpenOn(stack', p)
         /\ \A c : DoneBy(c)' = {w \in done' : Gone(w[2]) <=> c = "deleted"}
<1>1. /\ Dest' = Dest /\ (OneWay' <=> OneWay)
      /\ \A p : (Due(p)' <=> Due(p)) /\ (Gone(p)' <=> Gone(p))
  BY Frozen
<1>2. \A p : OpenOn(stack, p)' <=> OpenOn(stack', p)
  BY Frozen DEF OpenOn
<1>3. Serial' <=> Serial
  BY <1>1 DEF Serial, Capacity
<1> QED
  BY <1>1, <1>2, <1>3 DEF DoneBy

LEMMA PendingIs ==
  /\ \A c : Pending(c) = IF \E n \in Name : Counting(n) /\ Counter(n) = c THEN 1 ELSE 0
  /\ \A n : Counter(n) \in Kinds
BY DEF Pending, Counting, Counter, Kinds

\* A step in which no task is done or counted.
LEMMA BooksKept ==
  ASSUME Books, UNCHANGED <<opts, fs0, round, done, reg>>,
         result'.deleted = result.deleted, result'.transferred = result.transferred,
         failed \/ status = "error" => failed' \/ status' = "error", failed' \in BOOLEAN,
         \A p \in Entry : OpenOn(stack', p) => OpenOn(stack, p),
         Serial /\ ~failed' /\ status' # "error" =>
           \A n \in Name : /\ Counting(n)' <=> Counting(n)
                           /\ Counting(n) => Counter(n)' = Counter(n)
  PROVE  Books'
<1> SUFFICES ASSUME Serial, ~failed', status' # "error"
             PROVE  /\ IsFiniteSet(done')
                    /\ \A w \in done' : \E p \in Entry : /\ w = <<Dest, p>> /\ ~OpenOn(stack', p)
                                                         /\ Due(p) \/ Gone(p)
                    /\ \A c \in Kinds : result'[c] + Pending(c)' = Cardinality(DoneBy(c)')
                    /\ status' = "running" => \A n \in Name : top'.job[n] = "counting" =>
                                                              reg'[n] = result'[Counter(n)']
  BY BooksFrozen DEF Books, Serial, Kinds
<1>1. /\ IsFiniteSet(done)
      /\ \A w \in done : \E p \in Entry : w = <<Dest, p>> /\ ~OpenOn(stack, p) /\ (Due(p) \/ Gone(p))
      /\ \A c \in Kinds : result[c] + Pending(c) = Cardinality(DoneBy(c))
      /\ \A n \in Name : Counting(n) => reg[n] = result[Counter(n)]
  BY DEF Books, Serial, Kinds, Counting
<1>2. \A c \in Kinds : DoneBy(c)' = DoneBy(c) /\ result'[c] = result[c]
  BY BooksFrozen DEF DoneBy, Kinds
<1>3. \A c : Pending(c)' = Pending(c)
  <2>1. \A c : Pending(c)' = IF \E n \in Name : Counting(n)' /\ Counter(n)' = c THEN 1 ELSE 0
    BY DEF Pending, Counting
  <2> QED
    BY <2>1, PendingIs
<1>4. \A n \in Name : Counting(n)' => reg'[n] = result'[Counter(n)']
  BY <1>1, <1>2, PendingIs
<1> QED
  BY <1>1, <1>2, <1>3, <1>4 DEF Counting

\* A task is done: one more entry, and it is still to be counted.
LEMMA BooksDone ==
  ASSUME TypeInv, Inv2, Alone, Books, status = "running", UNCHANGED <<opts, fs0, round, status, result, failed>>,
         Serial, ~failed, NEW n \in Name, top.job[n] = "running",
         top.phase = "run", NEW k, k = Append(top.dir, n), Succeed(n, Counter(n)), done' = done \cup {<<Dest, k>>}
  PROVE  Books'
<1>1. "counting" \in JobState /\ Update([top EXCEPT !.job[n] = "counting"])
      /\ reg' = [reg EXCEPT ![n] = result[Counter(n)]] /\ reg \in [Name -> Nat]
  BY DEF JobState, Succeed, TypeInv, Counters
<1>2. PICK f \in Frame : /\ Update(f) /\ f.dir = top.dir /\ f.list = top.list /\ f.phase = top.phase
                         /\ f.todo = top.todo
                         /\ \A m \in Name : f.job[m] = IF m = n THEN "counting" ELSE top.job[m]
  BY <1>1, Tasked
<1>3. /\ Len(stack') = Len(stack) /\ stack'[Len(stack)] = f /\ Len(stack) \in 1 .. Len(stack)
      /\ top = stack[Len(stack)] /\ top' = f
  <2>1. Len(stack') = Len(stack) /\ stack'[Len(stack)] = f /\ Len(stack) \in 1 .. Len(stack)
        /\ top = stack[Len(stack)]
    BY <1>2, Updated, TopIs
  <2> QED
    BY <2>1 DEF top
<1>4. \A m \in Name : ~Counting(m)
  BY <1>3 DEF Alone, Busy, Counting, Serial
<1>5. \A m \in Name : Counting(m)' <=> m = n
  BY <1>2, <1>3, <1>4 DEF Counting
<1>6. \A m \in Name : Counter(m)' = Counter(m)
  BY <1>2, <1>3, Frozen DEF Counter, Extraneous, Seen
<1>7. /\ k \in Entry /\ k \in Path /\ ~Visited(k) /\ (Due(k) \/ Gone(k))
      /\ Gone(k) <=> Counter(n) = "deleted"
  <2>1. OneWay /\ top.job[n] # "none" /\ k = Append(top.dir, n)
    BY DEF Serial
  <2>2. k \in Entry /\ ~Visited(k) /\ (Due(k) \/ Gone(k)) /\ (Gone(k) <=> Extraneous(n))
    BY <2>1, TaskOf
  <2> QED
    BY <2>2 DEF Counter, Entry
<1>8. OpenOn(stack, k) /\ ~OpenOn(stack', k) /\ \A p \in Entry : OpenOn(stack', p) => OpenOn(stack, p)
  <2>1. Faithful(top)
    BY <1>3 DEF Inv2
  <2>2. /\ OpenAt(top, n) /\ ~OpenAt(f, n)
        /\ \A m \in Name : OpenAt(f, m) => OpenAt(top, m)
    BY <1>2, <2>1 DEF OpenAt, Faithful
  <2>3. IsPrefix(Append(top.dir, n), k)
    BY <1>7, Order
  <2> QED
    BY <1>2, <1>7, <2>2, <2>3, Closing, OpenUpdated DEF Inv2
<1>9. /\ IsFiniteSet(done)
      /\ \A w \in done : \E p \in Entry : w = <<Dest, p>> /\ ~OpenOn(stack, p) /\ (Due(p) \/ Gone(p))
      /\ \A c \in Kinds : result[c] + Pending(c) = Cardinality(DoneBy(c))
  BY DEF Books, Serial, Kinds
<1> DEFINE w0 == <<Dest, k>>
<1>10. w0 \notin done /\ w0[2] = k /\ done' = done \cup {w0}
  BY <1>8, <1>9
<1> HIDE DEF w0
<1>11. IsFiniteSet(done')
  BY <1>9, <1>10, FS_AddElement
<1>12. \A w \in done' : \E p \in Entry : w = <<Dest, p>> /\ ~OpenOn(stack', p) /\ (Due(p) \/ Gone(p))
  BY <1>7, <1>8, <1>9, <1>10 DEF w0
<1>13. \A c \in Kinds : Pending(c) = 0 /\ Pending(c)' = IF Counter(n) = c THEN 1 ELSE 0
  <2>1. \A c : Pending(c)' = IF \E m \in Name : Counting(m)' /\ Counter(m)' = c THEN 1 ELSE 0
    BY DEF Pending, Counting
  <2> QED
    BY <1>4, <1>5, <1>6, <2>1, PendingIs
<1>14. ASSUME NEW c \in Kinds PROVE result'[c] + Pending(c)' = Cardinality(DoneBy(c)')
  <2>1. IsFiniteSet(DoneBy(c)) /\ result[c] = Cardinality(DoneBy(c)) /\ result[c] \in Nat
    <3>1. IsFiniteSet(DoneBy(c))
      BY <1>9, FS_Subset DEF DoneBy
    <3>2. result[c] \in Nat
      BY DEF TypeInv, Counters, Kinds
    <3> QED
      BY <1>9, <1>13, <3>1, <3>2
  <2>2. DoneBy(c)' = {w \in done' : Gone(w[2]) <=> c = "deleted"}
    BY BooksFrozen
  <2>3. CASE Counter(n) = c
    <3>1. DoneBy(c)' = DoneBy(c) \cup {w0} /\ w0 \notin DoneBy(c)
      BY <1>7, <1>10, <2>2, <2>3 DEF DoneBy
    <3>2. Cardinality(DoneBy(c)') = Cardinality(DoneBy(c)) + 1
      BY <2>1, <3>1, FS_AddElement
    <3> QED
      BY <1>13, <2>1, <2>3, <3>2
  <2>4. CASE Counter(n) # c
    <3>1. Counter(n) \in {"deleted", "transferred"} /\ c \in {"deleted", "transferred"}
      BY PendingIs DEF Kinds
    <3>2. DoneBy(c)' = DoneBy(c)
      BY <1>7, <1>10, <2>2, <2>4, <3>1 DEF DoneBy
    <3> QED
      BY <1>13, <2>1, <2>4, <3>2
  <2> QED
    BY <2>3, <2>4
<1>15. \A m \in Name : top'.job[m] = "counting" => reg'[m] = result'[Counter(m)']
  BY <1>1, <1>5, <1>6 DEF Counting
<1> QED
  BY <1>11, <1>12, <1>14, <1>15, BooksFrozen DEF Books, Kinds

\* The one task that is done counts itself.
LEMMA BooksCount ==
  ASSUME TypeInv, Inv2, Alone, Books, status = "running", NEW n \in Name, CountJob(n)
  PROVE  Books'
<1>1. /\ UNCHANGED <<opts, fs0, round, status, failed, done>> /\ top.job[n] = "counting"
      /\ Update([top EXCEPT !.job[n] = "done"]) /\ "done" \in JobState
      /\ result' = [result EXCEPT ![Counter(n)] = reg[n] + 1]
  BY DEF CountJob, calls, Counter, JobState
<1>2. PICK f \in Frame : /\ Update(f) /\ f.dir = top.dir /\ f.list = top.list /\ f.phase = top.phase
                         /\ f.todo = top.todo
                         /\ \A m \in Name : f.job[m] = IF m = n THEN "done" ELSE top.job[m]
  BY <1>1, Tasked
<1>3. /\ Len(stack') = Len(stack) /\ stack'[Len(stack)] = f /\ Len(stack) \in 1 .. Len(stack)
      /\ top = stack[Len(stack)] /\ top' = f
  <2>1. Len(stack') = Len(stack) /\ stack'[Len(stack)] = f /\ Len(stack) \in 1 .. Len(stack)
        /\ top = stack[Len(stack)]
    BY <1>2, Updated, TopIs
  <2> QED
    BY <2>1 DEF top
<1> SUFFICES ASSUME Serial, ~failed PROVE Books'
  BY <1>1, BooksFrozen DEF Books, Serial
<1>4. \A m \in Name : Counting(m) <=> m = n
  BY <1>1, <1>3 DEF Alone, Busy, Counting, Serial
<1>5. \A m \in Name : ~Counting(m)'
  BY <1>2, <1>3, <1>4 DEF Counting
<1>6. /\ IsFiniteSet(done)
      /\ \A w \in done : \E p \in Entry : w = <<Dest, p>> /\ ~OpenOn(stack, p) /\ (Due(p) \/ Gone(p))
      /\ \A c \in Kinds : result[c] + Pending(c) = Cardinality(DoneBy(c))
      /\ reg[n] = result[Counter(n)]
  BY <1>1 DEF Books, Serial, Kinds
<1>7. \A p \in Entry : OpenOn(stack', p) => OpenOn(stack, p)
  <2>1. \A m \in Name : OpenAt(f, m) => OpenAt(top, m)
    BY <1>2 DEF OpenAt, ExtraIn
  <2> QED
    BY <1>2, <2>1, Closing
<1>8. \A c \in Kinds : Pending(c)' = 0 /\ Pending(c) = IF Counter(n) = c THEN 1 ELSE 0
  <2>1. \A c : Pending(c)' = IF \E m \in Name : Counting(m)' /\ Counter(m)' = c THEN 1 ELSE 0
    BY DEF Pending, Counting
  <2> QED
    BY <1>4, <1>5, <2>1, PendingIs
<1>9. ASSUME NEW c \in Kinds PROVE result'[c] + Pending(c)' = Cardinality(DoneBy(c)')
  <2>1. DoneBy(c)' = DoneBy(c)
    BY <1>1, BooksFrozen DEF DoneBy
  <2>2. /\ result[c] \in Nat
        /\ result'[c] = IF Counter(n) = c THEN result[c] + 1 ELSE result[c]
    BY <1>1, <1>6, PendingIs DEF TypeInv, Counters, Kinds
  <2> QED
    BY <1>6, <1>8, <2>1, <2>2
<1> QED
  BY <1>1, <1>5, <1>6, <1>7, <1>9, BooksFrozen DEF Books, Kinds, Counting

--------------------------------------------------------------------------------
Sums == Skips /\ Books

\* A step of the innermost call with no task done or counted, that closes nothing but
\* what is not passed over.
LEMMA SumsUpdated ==
  ASSUME TypeInv, Inv2, Sums, status = "running", UNCHANGED <<opts, fs0, round, status, result, done, reg>>,
         failed => failed', failed' \in BOOLEAN,
         NEW f \in Frame, Update(f), f.dir = top.dir,
         \A n \in Name : OpenAt(f, n) => OpenAt(top, n),
         OneWay => \A n \in Name : OpenAt(top, n) /\ ~OpenAt(f, n) =>
           ~Visited(Append(top.dir, n)) /\ ~Skippable(Append(top.dir, n)),
         Serial /\ ~failed' =>
           \A n \in Name : /\ f.job[n] = "counting" <=> top.job[n] = "counting"
                           /\ top.job[n] = "counting" => f.list = top.list
  PROVE  Sums'
<1>1. Skips'
  BY SkipsUpdated DEF Sums
<1>2. \A p \in Entry : OpenOn(stack', p) => OpenOn(stack, p)
  BY Closing
<1>3. top' = f
  BY Updated DEF top
<1>4. Serial /\ ~failed' => \A n \in Name : /\ Counting(n)' <=> Counting(n)
                                            /\ Counting(n) => Counter(n)' = Counter(n)
  BY <1>3, Frozen DEF Counting, Counter, Extraneous, Seen
<1>5. Books'
  BY <1>2, <1>4, BooksKept DEF Sums
<1> QED
  BY <1>1, <1>5 DEF Sums

\* In the phases before RunAll no task is counting.
LEMMA NoTask ==
  ASSUME TypeInv, Alone, status = "running", top.phase # "run", NEW n \in Name
  PROVE  ~Busy(top, n) /\ top.job[n] # "counting" /\ top.job[n] # "done"
BY TopIs DEF Alone, Busy

LEMMA ListSums ==
  ASSUME TypeInv, Inv2, Alone, Sums, status = "running", NEW s \in Side,
         top.phase = (IF s = "local" THEN "listLocal" ELSE "listRemote"), SafeList(s, FALSE),
         Inv2', TypeInv'
  PROVE  Sums'
<1>1. Skips'
  BY SkipsList DEF Sums
<1>2. PICK f \in Frame :
        /\ Update(f) /\ f.dir = top.dir /\ Sound(f) /\ f.job = top.job
        /\ f.phase = IF s = "local" THEN "listRemote" ELSE "visit"
        /\ f.list[Other(s)] = top.list[Other(s)]
        /\ \A n \in Name : f.list[s][n] = IF FALSE \/ fs[s][top.dir].kind # "dir" THEN Absent
                                          ELSE fs[s][Append(top.dir, n)]
        /\ f.todo = IF s = "local" THEN {}
                    ELSE IF OneWay THEN {n \in Name : Exists(f.list[Source][n])}
                    ELSE {n \in Name : Exists(f.list["local"][n]) \/ Exists(f.list["remote"][n])}
  BY Listed
<1>3. UNCHANGED <<opts, fs0, round, status, result, failed, done, reg>>
  BY DEF SafeList, calls
<1>4. \A n \in Name : OpenAt(top, n)
  BY DEF OpenAt
<1>5. \A p \in Entry : OpenOn(stack', p) => OpenOn(stack, p)
  BY <1>2, <1>4, Closing
<1>6. top' = f
  BY <1>2, Updated DEF top
<1>7. \A n \in Name : ~Counting(n) /\ ~Counting(n)'
  BY <1>2, <1>6, NoTask DEF Counting
<1>8. failed' \in BOOLEAN
  BY DEF TypeInv, Counters
<1>9. Books'
  BY <1>3, <1>5, <1>7, <1>8, BooksKept DEF Sums
<1> QED
  BY <1>1, <1>9 DEF Sums

LEMMA SkipSums ==
  ASSUME TypeInv, Inv2, Alone, Sums, status = "running", top.phase = "visit",
         NEW n \in top.todo, n \in Name, Skip(n)
  PROVE  Sums'
<1> DEFINE f == [top EXCEPT !.todo = @ \ {n}]
<1>1. Skips'
  BY SkipsSkip DEF Sums
<1>2. /\ Update(f) /\ UNCHANGED <<opts, fs0, round, status, failed, done, reg>>
      /\ result' = [result EXCEPT !.skipped = @ + 1]
  BY DEF Skip, calls
<1>3. /\ f \in Frame /\ f.dir = top.dir /\ f.list = top.list /\ f.phase = top.phase
      /\ f.todo = top.todo \ {n} /\ f.job = top.job
  BY NewTop
<1> HIDE DEF f
<1>4. \A p \in Entry : OpenOn(stack', p) => OpenOn(stack, p)
  <2>1. \A m \in Name : OpenAt(f, m) => OpenAt(top, m)
    BY <1>3 DEF OpenAt, ExtraIn
  <2> QED
    BY <1>2, <1>3, <2>1, Closing
<1>5. top' = f
  BY <1>2, <1>3, Updated DEF top
<1>6. \A m \in Name : ~Counting(m) /\ ~Counting(m)'
  BY <1>3, <1>5, NoTask DEF Counting
<1>7. failed' \in BOOLEAN /\ result'.deleted = result.deleted /\ result'.transferred = result.transferred
  BY <1>2 DEF TypeInv, Counters
<1>8. Books'
  BY <1>2, <1>4, <1>6, <1>7, BooksKept DEF Sums
<1> QED
  BY <1>1, <1>8 DEF Sums

LEMMA AddSums ==
  ASSUME TypeInv, Inv2, Alone, Sums, status = "running", top.phase = "visit",
         NEW n \in top.todo, n \in Name, AddTransfer(n)
  PROVE  Sums'
<1> DEFINE f == [top EXCEPT !.todo = @ \ {n}, !.job[n] = "waiting"]
<1>1. Update(f) /\ UNCHANGED <<opts, fs0, round, status, failed, done, reg, result>>
  BY DEF AddTransfer, calls
<1>2. /\ f \in Frame /\ f.dir = top.dir /\ f.list = top.list /\ f.phase = top.phase
      /\ f.todo = top.todo \ {n}
      /\ \A m \in Name : f.job[m] = IF m = n THEN "waiting" ELSE top.job[m]
  BY NewTop
<1> HIDE DEF f
<1>3. \A m \in Name : OpenAt(f, m) <=> OpenAt(top, m)
  BY <1>2 DEF OpenAt, ExtraIn
<1>4. \A m \in Name : f.job[m] # "counting" /\ top.job[m] # "counting"
  BY <1>2, NoTask
<1>5. failed' \in BOOLEAN
  BY <1>1 DEF TypeInv, Counters
<1> QED
  BY <1>1, <1>2, <1>3, <1>4, <1>5, SumsUpdated

LEMMA RunSums ==
  ASSUME TypeInv, Inv2, Alone, Sums, StartRunAll
  PROVE  Sums'
<1> DEFINE f == [top EXCEPT !.phase = "run",
                            !.job = [n \in Name |-> IF Extraneous(n) THEN "waiting" ELSE @[n]]]
<1>1. /\ status = "running" /\ top.phase = "visit" /\ top.todo = {}
      /\ Update(f) /\ failed' = FALSE
      /\ UNCHANGED <<opts, fs0, round, status, done, reg, result>>
  BY DEF StartRunAll, At, calls
<1>2. top \in Frame /\ failed = FALSE
  BY <1>1, TopIs DEF Inv2, Calm, TypeInv, Counters
<1>3. /\ f \in Frame /\ f.dir = top.dir /\ f.list = top.list /\ f.phase = "run" /\ f.todo = {}
      /\ \A n \in Name : f.job[n] = IF Extraneous(n) THEN "waiting" ELSE top.job[n]
  BY <1>1, <1>2 DEF Frame, Phase, JobState
<1> HIDE DEF f
<1>4. \A n \in Name : OpenAt(f, n) <=> OpenAt(top, n)
  BY <1>1, <1>3 DEF OpenAt, Extraneous, ExtraIn, Seen
<1>5. \A m \in Name : f.job[m] # "counting" /\ top.job[m] # "counting"
  BY <1>1, <1>3, NoTask
<1> QED
  BY <1>1, <1>2, <1>3, <1>4, <1>5, SumsUpdated

LEMMA StartSums ==
  ASSUME TypeInv, Inv2, Alone, Sums, status = "running", NEW n \in Name, StartJob(n)
  PROVE  Sums'
<1>1. /\ UNCHANGED <<opts, fs0, round, status, failed, done, reg, result>>
      /\ top.phase = "run" /\ top.job[n] = "waiting"
      /\ Update([top EXCEPT !.job[n] = "running"]) /\ "running" \in JobState
  BY DEF StartJob, calls, At, JobState
<1>2. PICK f \in Frame : /\ Update(f) /\ f.dir = top.dir /\ f.list = top.list /\ f.phase = top.phase
                         /\ f.todo = top.todo
                         /\ \A m \in Name : f.job[m] = IF m = n THEN "running" ELSE top.job[m]
  BY <1>1, Tasked
<1>3. \A m \in Name : OpenAt(f, m) <=> OpenAt(top, m)
  BY <1>1, <1>2 DEF OpenAt, ExtraIn
<1>4. failed' \in BOOLEAN
  BY <1>1 DEF TypeInv, Counters
<1> QED
  BY <1>1, <1>2, <1>3, <1>4, SumsUpdated

LEMMA CountSums ==
  ASSUME TypeInv, Inv2, Alone, Sums, status = "running", NEW n \in Name, CountJob(n)
  PROVE  Sums'
<1>1. /\ UNCHANGED <<opts, fs0, round, status, failed>>
      /\ top.phase = "run" /\ top.job[n] = "counting"
      /\ Update([top EXCEPT !.job[n] = "done"]) /\ "done" \in JobState
  BY DEF CountJob, calls, At, JobState
<1>2. PICK f \in Frame : /\ Update(f) /\ f.dir = top.dir /\ f.list = top.list /\ f.phase = top.phase
                         /\ f.todo = top.todo
                         /\ \A m \in Name : f.job[m] = IF m = n THEN "done" ELSE top.job[m]
  BY <1>1, Tasked
<1>3. \A m \in Name : OpenAt(f, m) <=> OpenAt(top, m)
  BY <1>1, <1>2 DEF OpenAt, ExtraIn
<1>4. failed' \in BOOLEAN /\ result'.skipped = result.skipped
  BY <1>1 DEF CountJob, TypeInv, Counters
<1>5. Skips'
  BY <1>1, <1>2, <1>3, <1>4, SkipsUpdated DEF Sums
<1>6. Books'
  BY BooksCount DEF Sums
<1> QED
  BY <1>5, <1>6 DEF Sums

\* A task function returns, with or without an error.
LEMMA TaskSums ==
  ASSUME TypeInv, Inv2, Alone, Sums, status = "running", NEW n \in Name,
         TransferJob(n) \/ DeleteJob(n)
  PROVE  Sums'
<1> DEFINE k == Append(top.dir, n)
<1>0. k = Append(top.dir, n)
  OBVIOUS
<1> HIDE DEF k
<1>1. /\ UNCHANGED <<opts, fs0, round, status, result>>
      /\ top.phase = "run" /\ top.job[n] = "running"
  BY DEF TransferJob, DeleteJob, calls, At
<1>2. \/ Fails(n)
      \/ Succeed(n, Counter(n)) /\ (OneWay => done' = done \cup {<<Dest, k>>})
  <2>1. CASE TransferJob(n) /\ From(n) = "neither"
    <3>1. ~OneWay /\ Succeed(n, "transferred") /\ ~Extraneous(n)
      BY <2>1 DEF TransferJob, From, Source
    <3> QED
      BY <3>1 DEF Counter
  <2>2. CASE TransferJob(n) /\ From(n) # "neither"
    <3>1. From(n) \in Side /\ Copy(n, From(n)) /\ ~Extraneous(n)
          /\ (OneWay => From(n) = Source)
      BY <2>2 DEF TransferJob, From, Source, Side
    <3>2. CopyOutcome(n, From(n), Other(From(n)), k)
      BY <1>0, <3>1, Copied
    <3>3. OneWay => Other(From(n)) = Dest
      BY <3>1 DEF Dest
    <3> QED
      BY <3>1, <3>2, <3>3 DEF CopyOutcome, Counter
  <2>3. CASE DeleteJob(n)
    <3>1. DeleteOutcome(n, k) /\ Extraneous(n)
      BY <1>0, <2>3, Deleted DEF DeleteJob
    <3> QED
      BY <3>1 DEF DeleteOutcome, Counter
  <2> QED
    BY <2>1, <2>2, <2>3
<1>3. PICK x \in {"counting", "done"} :
        /\ Update([top EXCEPT !.job[n] = x])
        /\ failed => failed'
        /\ failed' \in BOOLEAN
  BY <1>2 DEF Succeed, Fails, FailJob, TypeInv, Counters
<1>4. PICK f \in Frame : /\ Update(f) /\ f.dir = top.dir /\ f.list = top.list /\ f.phase = top.phase
                         /\ f.todo = top.todo
                         /\ \A m \in Name : f.job[m] = IF m = n THEN x ELSE top.job[m]
  <2>1. x \in JobState
    BY DEF JobState
  <2> QED
    BY <1>3, <2>1, Tasked
<1>5. \A m \in Name : (OpenAt(f, m) => OpenAt(top, m)) /\ (m # n => (OpenAt(f, m) <=> OpenAt(top, m)))
  BY <1>1, <1>4 DEF OpenAt, ExtraIn
<1>6. OneWay => ~Visited(k) /\ ~Skippable(k)
  <2>1. top.job[n] # "none"
    BY <1>1
  <2> QED
    BY <1>0, <2>1, TaskOf
<1>7. Skips'
  <2>1. OneWay => \A m \in Name : OpenAt(top, m) /\ ~OpenAt(f, m) =>
           ~Visited(Append(top.dir, m)) /\ ~Skippable(Append(top.dir, m))
    BY <1>0, <1>5, <1>6
  <2> QED
    BY <1>1, <1>3, <1>4, <1>5, <2>1, SkipsUpdated DEF Sums
<1>8. Books'
  <2>1. CASE ~Serial \/ failed'
    BY <1>1, <2>1, BooksFrozen DEF Books, Serial
  <2>2. CASE Serial /\ ~failed'
    <3>1. Succeed(n, Counter(n)) /\ done' = done \cup {<<Dest, k>>} /\ OneWay
      BY <1>2, <2>2 DEF Fails, FailJob, Serial
    <3>2. UNCHANGED failed /\ ~failed
      BY <2>2, <3>1 DEF Succeed
    <3> QED
      BY <1>0, <1>1, <2>2, <3>1, <3>2, BooksDone DEF Sums
  <2> QED
    BY <2>1, <2>2
<1> QED
  BY <1>7, <1>8 DEF Sums

LEMMA DescendSums ==
  ASSUME TypeInv, Inv2, Alone, Sums, status = "running", top.phase = "visit",
         NEW n \in top.todo, n \in Name, NEW fails \in BOOLEAN, Descend(n, fails)
  PROVE  Sums'
<1> DEFINE k == Append(top.dir, n)
<1>0. k = Append(top.dir, n)
  OBVIOUS
<1>1. /\ OneWay /\ k \in Inner /\ Seen(Source, n).kind = "dir" /\ ~IsIgnored(n)
      /\ UNCHANGED <<opts, fs0, round, done, failed, result, reg>>
      /\ \/ ReturnError
         \/ /\ stack' = Append([stack EXCEPT ![Len(stack)] = [top EXCEPT !.todo = @ \ {n}]], Call(k))
            /\ UNCHANGED status
  BY Descended DEF calls
<1> HIDE DEF k
<1>2. status' # "error" => \A p \in Entry :
        /\ p # k => (OpenOn(stack', p) <=> OpenOn(stack, p))
        /\ p = k => ~OpenOn(stack', p)
  <2>1. status' # "error" => ClosesOnly(k)
    BY <1>0, DescendSteps
  <2> QED
    BY <2>1 DEF ClosesOnly
<1>3. failed' \in BOOLEAN
  BY <1>1 DEF TypeInv, Counters
<1>4. ~Skippable(k)
  <2>1. Seen(Source, n) = src0(k) /\ (Visible(k) <=> Visible(top.dir) /\ ~IsIgnored(n)) /\ Visible(top.dir)
    BY <1>0, <1>1, TopKnows
  <2> QED
    BY <1>1, <2>1 DEF Skippable
<1>5. Skips'
  BY <1>1, <1>2, <1>3, <1>4, SkipsKept DEF Sums
<1>6. CASE status' = "error"
  <2>1. Books'
    BY <1>6 DEF Books
  <2> QED
    BY <1>5, <2>1 DEF Sums
<1>7. CASE status' # "error"
  <2>1. /\ stack' = Append([stack EXCEPT ![Len(stack)] = [top EXCEPT !.todo = @ \ {n}]], Call(k))
        /\ UNCHANGED status
    BY <1>1, <1>7 DEF ReturnError
  <2> DEFINE f == [top EXCEPT !.todo = @ \ {n}]
             c == Call(k)
  <2>2. f \in Frame /\ c \in Frame /\ \A m \in Name : c.job[m] = "none"
    BY <1>1, NewTop, CallIs
  <2>3. stack' = Append([stack EXCEPT ![Len(stack)] = f], c)
    BY <2>1
  <2> HIDE DEF f, c
  <2>4. top' = c
    BY <2>2, <2>3, TopIs DEF top, TypeInv, Stacked
  <2>5. \A m \in Name : ~Counting(m) /\ ~Counting(m)'
    BY <2>2, <2>4, NoTask DEF Counting
  <2>6. \A p \in Entry : OpenOn(stack', p) => OpenOn(stack, p)
    BY <1>2, <1>7
  <2>7. Books'
    BY <1>1, <1>3, <1>7, <2>1, <2>5, <2>6, BooksKept DEF Sums
  <2> QED
    BY <1>5, <2>7 DEF Sums
<1> QED
  BY <1>6, <1>7

LEMMA ReturnSums ==
  ASSUME TypeInv, TypeInv', Inv2, Alone, Alone', Sums, Return
  PROVE  Sums'
<1>1. /\ status = "running" /\ top.phase = "run" /\ Jobs({"waiting", "running", "counting"}) = {}
      /\ UNCHANGED <<opts, fs0, round, done, failed, result, reg>>
  BY DEF Return, At, calls
<1>2. CASE failed
  BY <1>1, <1>2 DEF Return, ReturnError, Sums, Skips, Books
<1>3. CASE ~failed
  <2>1. \A p : OpenOn(stack', p) <=> OpenOn(stack, p)
    BY <1>3, ReturnSteps
  <2>2. stack' = Front(stack) /\ status' = IF Len(stack) = 1 THEN "ok" ELSE "running"
    BY <1>3 DEF Return
  <2>3. failed' \in BOOLEAN /\ status # "error"
    BY <1>1 DEF TypeInv, Counters
  <2>4. Skips'
    BY <1>1, <1>3, <2>1, <2>3, SkipsKept DEF Sums
  <2>5. \A n \in Name : ~Counting(n)
    BY <1>1 DEF Counting, Jobs
  <2>6. \A n \in Name : ~Counting(n)'
    <3> SUFFICES ASSUME status' = "running", NEW n \in Name PROVE top'.job[n] # "counting"
      BY DEF Counting
    <3>1. /\ Len(stack) \in Nat \ {0} /\ Len(stack) # 1
          /\ Len(stack') = Len(stack) - 1 /\ \A i \in 1 .. Len(stack) - 1 : stack'[i] = stack[i]
      BY <1>1, <2>2, Popped, TopIs
    <3> DEFINE i == Len(stack) - 1
    <3>2. i \in 1 .. Len(stack) /\ i < Len(stack) /\ stack'[i] = stack[i] /\ top' = stack[i]
      BY <3>1 DEF top
    <3> HIDE DEF i
    <3>3. stack[i].phase = "visit"
      BY <3>2 DEF TypeInv, Stacked
    <3> QED
      BY <3>2, <3>3 DEF Alone, Busy
  <2>7. Books'
    BY <1>1, <1>3, <2>1, <2>3, <2>5, <2>6, BooksKept DEF Sums
  <2> QED
    BY <2>4, <2>7 DEF Sums
<1> QED
  BY <1>2, <1>3

\* A Sync begins with nothing done and everything open.
LEMMA BeginSums ==
  ASSUME stack = <<Call(Root)>>, done = {}, result = NoResult
  PROVE  Sums
<1>1. SkippedOn(stack) = {}
  BY AllOpen DEF SkippedOn
<1>2. \A c \in Kinds : DoneBy(c) = {} /\ Pending(c) = 0
  <2> DEFINE c == Call(Root)
  <2>1. \A n \in Name : c.job[n] = "none"
    BY RootPath, CallIs
  <2>2. stack = <<c>>
    OBVIOUS
  <2> HIDE DEF c
  <2>3. top = c
    BY <2>2 DEF top
  <2> QED
    BY <2>1, <2>3 DEF DoneBy, Pending
<1>3. \A n \in Name : ~Counting(n)
  <2> DEFINE c == Call(Root)
  <2>1. \A n \in Name : c.job[n] = "none"
    BY RootPath, CallIs
  <2>2. stack = <<c>>
    OBVIOUS
  <2> HIDE DEF c
  <2>3. top = c
    BY <2>2 DEF top
  <2> QED
    BY <2>1, <2>3 DEF Counting
<1>4. result.skipped = 0 /\ result.deleted = 0 /\ result.transferred = 0
  BY DEF NoResult
<1>5. Skips
  BY <1>1, <1>4, FinitePair DEF Skips
<1>6. Books
  BY <1>2, <1>3, <1>4, FinitePair DEF Books, Kinds, Counting
<1> QED
  BY <1>5, <1>6 DEF Sums

LEMMA SumsSteps ==
  ASSUME TypeInv, TypeInv', Inv2, Inv2', Alone, Alone', Sums, [Next]_vars, listFaults' = listFaults
  PROVE  Sums'
<1>1. ASSUME NEW s \in Side, NEW fails \in BOOLEAN, status = "running", SafeList(s, fails),
             top.phase = IF s = "local" THEN "listLocal" ELSE "listRemote"
      PROVE  Sums'
  <2>1. listFaults \in Int /\ listFaults' = listFaults + (IF fails THEN 1 ELSE 0)
    BY <1>1, SyncAssumption DEF SafeList, TypeInv, Counters
  <2>2. fails = FALSE
    BY <2>1
  <2>3. SafeList(s, FALSE)
    BY <1>1, <2>2
  <2>4. top.phase = (IF s = "local" THEN "listLocal" ELSE "listRemote")
    BY <1>1
  <2> QED
    BY <1>1, <2>3, <2>4, ListSums
<1>2. ASSUME NEW n \in Name, VisitEntry(n) PROVE Sums'
  <2>1. status = "running" /\ top.phase = "visit" /\ n \in top.todo
    BY <1>2 DEF VisitEntry, At
  <2> QED
    BY <1>2, <2>1, SkipSums, AddSums, DescendSums DEF VisitEntry
<1>3. CASE StartRunAll
  BY <1>3, RunSums
<1>4. ASSUME NEW n \in Name, StartJob(n) \/ TransferJob(n) \/ DeleteJob(n) \/ CountJob(n) PROVE Sums'
  <2>1. status = "running"
    BY <1>4 DEF StartJob, TransferJob, DeleteJob, CountJob, At
  <2> QED
    BY <1>4, <2>1, StartSums, TaskSums, CountSums
<1>5. CASE Return
  BY <1>5, ReturnSums
<1>6. CASE SyncAgain
  <2>1. (stack = <<Call(Root)>> /\ done = {} /\ result = NoResult)'
    BY <1>6 DEF SyncAgain, Call, NoEntries, NoResult
  <2> QED
    BY <2>1, BeginSums, PTL
<1>7. CASE UNCHANGED vars
  <2>1. UNCHANGED <<opts, fs0, round, fs, done, failed, stack, status, result, reg>>
    BY <1>7 DEF vars, calls
  <2>2. failed' \in BOOLEAN
    BY DEF TypeInv, Counters
  <2>3. \A n \in Name : (Counting(n)' <=> Counting(n)) /\ Counter(n)' = Counter(n)
    BY <2>1, Frozen DEF Counting, Counter, Extraneous, Seen, top
  <2> QED
    BY <2>1, <2>2, <2>3, SkipsKept, BooksKept DEF Sums
<1>8. ASSUME NEW fails \in BOOLEAN, ListLocal(fails) \/ ListRemote(fails) PROVE Sums'
  <2>1. CASE ListLocal(fails)
    BY <1>1, <2>1 DEF ListLocal, At, Side
  <2>2. CASE ListRemote(fails)
    BY <1>1, <2>2 DEF ListRemote, At, Side
  <2> QED
    BY <1>8, <2>1, <2>2
<1> QED
  BY <1>2, <1>3, <1>4, <1>5, <1>6, <1>7, <1>8 DEF Next, Terminated

Summed == Listings /\ Alone /\ (listFaults = 0 => Sums)

LEMMA SummedCorrect == Spec => []Summed
<1>1. Init => Summed
  <2>1. Init => Listings
    BY InitType, InitSteps DEF Listings
  <2>2. Init => Sums
    BY BeginSums DEF Init
  <2>3. ASSUME Init PROVE Alone
    <3> DEFINE c == Call(Root)
    <3>1. \A n \in Name : c.job[n] = "none"
      BY RootPath, CallIs
    <3>2. stack = <<c>>
      BY <2>3 DEF Init
    <3> HIDE DEF c
    <3>3. \A i \in 1 .. Len(stack) : stack[i] = c
      BY <3>2
    <3> QED
      BY <3>1, <3>3 DEF Alone, Busy
  <2> QED
    BY <2>1, <2>2, <2>3 DEF Summed
<1>2. Summed /\ Listings' /\ [Next]_vars => Summed'
  <2> SUFFICES ASSUME Summed, Listings', [Next]_vars PROVE Summed'
    OBVIOUS
  <2>1. TypeInv /\ TypeInv' /\ Alone
    BY DEF Summed, Listings
  <2>2. Alone'
    BY <2>1, AloneSteps
  <2>3. ASSUME listFaults' = 0 PROVE Sums'
    <3>1. listFaults = 0 /\ listFaults' = listFaults
      <4>1. listFaults \in Nat /\ listFaults <= listFaults'
        BY <2>1, NextSteps, SyncAssumption DEF TypeInv, Counters
      <4> QED
        BY <2>3, <4>1
    <3>2. Inv2 /\ Inv2' /\ Sums
      BY <2>3, <3>1 DEF Summed, Listings
    <3> QED
      BY <2>1, <2>2, <3>1, <3>2, SumsSteps
  <2> QED
    BY <2>2, <2>3 DEF Summed
<1> QED
  BY <1>1, <1>2, ListingsCorrect, PTL DEF Spec

\* "SyncResult summarises what was done": the counters of a one-way Sync that runs one
\* task at a time and has returned nil, no listing of an existing directory having
\* failed, are the numbers of files copied, of entries removed and of entries passed over.
THEOREM SerialCountsCorrect == Spec => [](listFaults = 0 => SerialCounts)
<1>1. Summed => (listFaults = 0 => SerialCounts)
  <2> SUFFICES ASSUME TypeInv, Inv2, Sums, status = "ok", OneWay, Capacity = 1
               PROVE  /\ result.transferred + result.deleted = Cardinality(done)
                      /\ result.deleted = Cardinality({w \in done : ~Exists(fs[Dest][w[2]])})
                      /\ result.skipped = Cardinality({p \in Entry : Skippable(p)})
    BY DEF Summed, Listings, SerialCounts, Skippable
  <2>1. stack = <<>> /\ ~failed /\ status # "error"
    BY DEF TypeInv, Stacked, Inv2, Calm
  <2>2. \A p : ~OpenOn(stack, p)
    BY <2>1 DEF OpenOn
  <2>3. result.skipped = Cardinality({p \in Entry : Skippable(p)})
    <3>1. SkippedOn(stack) = {p \in Entry : Skippable(p)}
      BY <2>2 DEF SkippedOn
    <3> QED
      BY <2>1, <3>1 DEF Sums, Skips
  <2>4. /\ IsFiniteSet(done)
        /\ \A w \in done : \E p \in Entry : w = <<Dest, p>> /\ (Due(p) \/ Gone(p))
        /\ \A c \in Kinds : result[c] = Cardinality(DoneBy(c))
    <3>1. \A c \in Kinds : Pending(c) = 0 /\ result[c] \in Nat
      BY DEF Pending, TypeInv, Counters, Kinds
    <3> QED
      BY <2>1, <3>1 DEF Sums, Books, Kinds
  <2> DEFINE D == DoneBy("deleted")
             T == DoneBy("transferred")
  <2>5. D = {w \in done : Gone(w[2])} /\ T = {w \in done : ~Gone(w[2])}
    BY DEF DoneBy
  <2>6. Cardinality(D) = result.deleted /\ Cardinality(T) = result.transferred
    BY <2>4 DEF Kinds
  <2> HIDE DEF D, T
  <2>7. result.transferred + result.deleted = Cardinality(done)
    <3>1. D \cup T = done /\ D \cap T = {}
      BY <2>5
    <3>2. IsFiniteSet(D) /\ IsFiniteSet(T)
      BY <2>4, <2>5, FS_Subset
    <3>3. Cardinality(D \cup T) = Cardinality(D) + Cardinality(T) - Cardinality(D \cap T)
      BY <3>2, FS_Union
    <3>4. result.deleted \in Nat /\ result.transferred \in Nat
      BY DEF TypeInv, Counters
    <3>5. Cardinality(D \cap T) = 0 /\ Cardinality(D \cup T) = Cardinality(done)
      BY <3>1, FinitePair
    <3> QED
      BY <2>6, <3>3, <3>4, <3>5
  <2>8. D = {w \in done : ~Exists(fs[Dest][w[2]])}
    <3>1. ASSUME NEW w \in done PROVE Gone(w[2]) <=> ~Exists(fs[Dest][w[2]])
      <4>1. PICK p \in Entry : w = <<Dest, p>> /\ (Due(p) \/ Gone(p))
        BY <2>4
      <4>2. Exactly(p, fs[Dest][p])
        BY <2>1, <2>2 DEF Inv2, Finished, Right
      <4> QED
        BY <4>1, <4>2 DEF Exactly, Absent, File, Exists
    <3> QED
      BY <2>5, <3>1
  <2> QED
    BY <2>3, <2>6, <2>7, <2>8
<1> QED
  BY <1>1, SummedCorrect, PTL

================================================================================

---------------------------- MODULE FrontEndsProofs ----------------------------
(***************************************************************************)
(* Proofs about the two front ends, the command line and the server for    *)
(* editors, for all names, trees, directories, profiles and commands: where *)
(* a file lives on the other side (FrontEnds, PathMapping), and the        *)
(* connections of the server's handler (ClientCache).                      *)
(***************************************************************************)
EXTENDS FrontEnds, ClientCache, WellFoundedInduction, TLAPS

--------------------------------------------------------------------------------
(***************************************************************************)
(* Induction, with a set for the property that is shown.                   *)
(***************************************************************************)
\* A set of naturals that holds 0 and the successor of each of its members is Nat.
LEMMA Induction ==
  ASSUME NEW G \in SUBSET Nat, 0 \in G, \A n \in G : n + 1 \in G
  PROVE  G = Nat
<1> SUFFICES ASSUME Nat \ G # {} PROVE FALSE
  OBVIOUS
<1>1. PICK x \in Nat \ G : \A y \in Nat \ G : ~(<<y, x>> \in OpToRel(<, Nat))
  BY NatLessThanWellFounded, WFMin
<1>2. \A y \in Nat : y < x => y \in G
  BY <1>1 DEF OpToRel
<1>3. x - 1 \in Nat /\ x - 1 < x /\ (x - 1) + 1 = x
  BY x # 0
<1> QED
  BY <1>2, <1>3

\* A set of sequences that holds the empty one and, with a sequence, all it can be
\* extended to holds all of them.
LEMMA SeqInduction ==
  ASSUME NEW S, NEW G, <<>> \in G, \A s \in G : \A x \in S : s \in Seq(S) => Append(s, x) \in G
  PROVE  Seq(S) \subseteq G
<1> DEFINE H == {n \in Nat : \A s \in Seq(S) : Len(s) = n => s \in G}
<1>1. 0 \in H
  BY \A s \in Seq(S) : Len(s) = 0 => s = <<>>
<1>2. ASSUME NEW n \in H PROVE n + 1 \in H
  <2> SUFFICES ASSUME NEW s \in Seq(S), Len(s) = n + 1 PROVE s \in G
    OBVIOUS
  <2> DEFINE t == SubSeq(s, 1, n)
  <2>1. t \in Seq(S) /\ Len(t) = n /\ s[n + 1] \in S /\ s = Append(t, s[n + 1])
    OBVIOUS
  <2> QED
    BY <2>1
<1>3. H = Nat
  <2> HIDE DEF H
  <2> QED
    BY <1>1, <1>2, Induction DEF H
<1> QED
  BY <1>3

\* A bounded set of naturals has a greatest member, a set of naturals a least one.
LEMMA Greatest ==
  ASSUME NEW s \in SUBSET Nat, s # {}, NEW n \in Nat, \A k \in s : k <= n
  PROVE  \E m \in s : \A k \in s : k <= m
<1> SUFFICES ASSUME \A m \in s : \E k \in s : ~(k <= m) PROVE FALSE
  OBVIOUS
<1> DEFINE H == {i \in Nat : \E k \in s : i <= k}
<1>1. 0 \in H
  <2>1. PICK k \in s : TRUE
    OBVIOUS
  <2>2. k \in Nat /\ 0 <= k
    OBVIOUS
  <2> QED
    BY <2>2
<1>2. ASSUME NEW i \in H PROVE i + 1 \in H
  <2>1. PICK k \in s : i <= k
    OBVIOUS
  <2>2. PICK l \in s : ~(l <= k)
    OBVIOUS
  <2> QED
    BY <2>1, <2>2
<1> HIDE DEF H
<1>3. H = Nat
  BY <1>1, <1>2, Induction DEF H
<1> QED
  BY <1>3, n + 1 \in H DEF H

LEMMA Least ==
  ASSUME NEW s \in SUBSET Nat, s # {}
  PROVE  \E m \in s : \A k \in s : m <= k
<1>1. PICK x \in s : \A y \in s : ~(<<y, x>> \in OpToRel(<, Nat))
  BY NatLessThanWellFounded, WFMin
<1>2. \A y \in s : ~(y < x)
  BY <1>1 DEF OpToRel
<1> QED
  BY <1>2

--------------------------------------------------------------------------------
(***************************************************************************)
(* Clean: the fold enters the last name of a path after all others.        *)
(***************************************************************************)
\* The function that FoldLeft defines for a path.
IsFold(f, path) ==
  f = [s \in SUBSET DOMAIN path |->
         IF s = {} THEN <<>> ELSE Enter(f[s \ {Max(s)}], path[Max(s)])]

LEMMA CleanIs ==
  ASSUME NEW path PROVE Clean(path) = (CHOOSE f : IsFold(f, path))[DOMAIN path]
BY DEF Clean, FoldLeft, MapThenFoldSet, IsFold

LEMMA MaxIs ==
  ASSUME NEW n \in Nat, NEW s \in SUBSET (1 .. n), s # {}
  PROVE  Max(s) \in s /\ \A k \in s : k <= Max(s)
<1>1. PICK m \in s : \A k \in s : k <= m
  <2>1. s \in SUBSET Nat /\ \A k \in s : k <= n
    OBVIOUS
  <2> QED
    BY <2>1, Greatest
<1>2. m \in s /\ \A k \in s : m >= k
  BY <1>1
<1>3. Max(s) \in s /\ \A k \in s : Max(s) >= k
  BY <1>2 DEF Max
<1> QED
  BY <1>3

LEMMA FoldUnique ==
  ASSUME NEW S, NEW path \in Seq(S), NEW f, IsFold(f, path), NEW g, IsFold(g, path)
  PROVE  f = g
<1> DEFINE G == {n \in Nat : \A s \in SUBSET (1 .. n) : s \subseteq DOMAIN path => f[s] = g[s]}
<1>0. DOMAIN path = 1 .. Len(path) /\ Len(path) \in Nat
  OBVIOUS
<1>1. 0 \in G
  <2>1. ASSUME NEW s \in SUBSET (1 .. 0) PROVE f[s] = <<>> /\ g[s] = <<>>
    <3>1. s = {} /\ s \in SUBSET DOMAIN path
      OBVIOUS
    <3> QED
      BY <3>1 DEF IsFold
  <2> QED
    BY <2>1
<1>2. ASSUME NEW n \in G PROVE n + 1 \in G
  <2>0. n \in Nat /\ n + 1 \in Nat
    OBVIOUS
  <2> SUFFICES ASSUME NEW s \in SUBSET (1 .. n + 1), s \subseteq DOMAIN path
               PROVE  f[s] = g[s]
    BY <2>0
  <2>1. CASE s = {}
    BY <2>1 DEF IsFold
  <2>2. CASE s # {}
    <3>1. Max(s) \in s /\ \A k \in s : k <= Max(s)
      BY <2>0, <2>2, MaxIs
    <3>2. s \ {Max(s)} \in SUBSET (1 .. n) /\ s \ {Max(s)} \in SUBSET DOMAIN path
      BY <2>0, <3>1
    <3>3. f[s \ {Max(s)}] = g[s \ {Max(s)}]
      BY <3>2
    <3> QED
      BY <3>3 DEF IsFold
  <2> QED
    BY <2>1, <2>2
<1> HIDE DEF G
<1>3. G = Nat
  BY <1>1, <1>2, Induction DEF G
<1>4. \A s \in SUBSET DOMAIN path : f[s] = g[s]
  BY <1>0, <1>3 DEF G
<1> QED
  BY <1>4 DEF IsFold

LEMMA FoldExtended ==
  ASSUME NEW S, NEW path \in Seq(S), NEW x \in S, NEW f, IsFold(f, path),
         NEW g, g = [s \in SUBSET DOMAIN Append(path, x) |->
                       IF Len(path) + 1 \in s THEN Enter(f[s \ {Len(path) + 1}], x) ELSE f[s]]
  PROVE  IsFold(g, Append(path, x))
<1> DEFINE n == Len(path)  p == Append(path, x)
<1>1. /\ n \in Nat /\ DOMAIN path = 1 .. n /\ DOMAIN p = 1 .. n + 1
      /\ p[n + 1] = x /\ \A i \in 1 .. n : p[i] = path[i]
  OBVIOUS
<1> HIDE DEF n, p
<1>2. \A s \in SUBSET (1 .. n) : g[s] = f[s]
  BY <1>1 DEF n, p
<1>3. ASSUME NEW s \in SUBSET DOMAIN p
      PROVE  g[s] = IF s = {} THEN <<>> ELSE Enter(g[s \ {Max(s)}], p[Max(s)])
  <2>1. CASE n + 1 \in s
    <3>1. Max(s) = n + 1
      <4>0. s \in SUBSET (1 .. n + 1) /\ n + 1 \in Nat /\ s # {}
        BY <1>1, <2>1
      <4>1. Max(s) \in s /\ \A k \in s : k <= Max(s)
        BY <4>0, MaxIs
      <4> QED
        BY <1>1, <2>1, <4>1
    <3>2. s \ {n + 1} \in SUBSET (1 .. n)
      BY <1>1
    <3>3. g[s] = Enter(f[s \ {n + 1}], x)
      BY <2>1 DEF n, p
    <3> QED
      BY <1>1, <1>2, <2>1, <3>1, <3>2, <3>3
  <2>2. CASE n + 1 \notin s
    <3>1. s \in SUBSET (1 .. n) /\ s \ {Max(s)} \in SUBSET (1 .. n)
      BY <1>1, <2>2
    <3>2. s # {} => Max(s) \in 1 .. n
      BY <1>1, <3>1, MaxIs
    <3>3. f[s] = IF s = {} THEN <<>> ELSE Enter(f[s \ {Max(s)}], path[Max(s)])
      BY <1>1, <3>1 DEF IsFold
    <3> QED
      BY <1>1, <1>2, <3>1, <3>2, <3>3
  <2> QED
    BY <2>1, <2>2
<1>4. g = [s \in SUBSET DOMAIN p |-> g[s]]
  BY DEF p
<1> QED
  BY <1>3, <1>4 DEF IsFold, p

LEMMA FoldExists ==
  ASSUME NEW S, NEW path \in Seq(S)
  PROVE  IsFold(CHOOSE f : IsFold(f, path), path)
<1> DEFINE G == {p \in Seq(S) : \E f : IsFold(f, p)}
<1>1. <<>> \in G
  <2> DEFINE f == [s \in SUBSET DOMAIN <<>> |-> <<>>]
  <2>1. SUBSET DOMAIN <<>> = {{}}
    OBVIOUS
  <2>2. IsFold(f, <<>>)
    BY <2>1 DEF IsFold
  <2> QED
    BY <2>2
<1>2. ASSUME NEW p \in G, NEW x \in S PROVE Append(p, x) \in G
  <2>1. PICK f : IsFold(f, p)
    OBVIOUS
  <2>2. \E g : IsFold(g, Append(p, x))
    BY <2>1, FoldExtended
  <2> QED
    BY <2>2
<1> HIDE DEF G
<1>3. path \in G
  BY <1>1, <1>2, SeqInduction
<1> QED
  BY <1>3 DEF G

\* The equations of Clean.
LEMMA CleanNothing == Clean(<<>>) = <<>>
<1>1. <<>> \in Seq({}) /\ DOMAIN <<>> = {}
  OBVIOUS
<1>2. IsFold(CHOOSE f : IsFold(f, <<>>), <<>>)
  BY <1>1, FoldExists
<1> QED
  BY <1>1, <1>2, CleanIs DEF IsFold

LEMMA CleanAppend ==
  ASSUME NEW S, NEW path \in Seq(S), NEW x \in S
  PROVE  Clean(Append(path, x)) = Enter(Clean(path), x)
<1> DEFINE f == CHOOSE h : IsFold(h, path)
           p == Append(path, x)
           g == CHOOSE h : IsFold(h, p)
           e == [s \in SUBSET DOMAIN p |->
                   IF Len(path) + 1 \in s THEN Enter(f[s \ {Len(path) + 1}], x) ELSE f[s]]
<1>1. p \in Seq(S) /\ DOMAIN p = 1 .. Len(path) + 1 /\ DOMAIN path = 1 .. Len(path)
  OBVIOUS
<1>2. IsFold(f, path) /\ IsFold(g, p)
  BY <1>1, FoldExists
<1>3. Clean(path) = f[DOMAIN path] /\ Clean(p) = g[DOMAIN p]
  BY CleanIs
<1> HIDE DEF f, g
<1>4. IsFold(e, p)
  BY <1>2, FoldExtended
<1>5. e = g
  BY <1>1, <1>2, <1>4, FoldUnique
<1>6. Len(path) + 1 \in DOMAIN p /\ DOMAIN p \ {Len(path) + 1} = DOMAIN path
  BY <1>1
<1>7. e[DOMAIN p] = Enter(f[DOMAIN path], x)
  BY <1>6
<1> QED
  BY <1>3, <1>5, <1>7

\* What Clean returns holds names only, and names only are left as they are.
LEMMA EnterType ==
  ASSUME NEW S, NEW done \in Seq(S \ Special), NEW x \in S
  PROVE  Enter(done, x) \in Seq(S \ Special)
<1>1. done # <<>> => Front(done) \in Seq(S \ Special)
  BY DEF Front
<1>2. x \notin {Blank, "."} /\ x # ".." => x \in S \ Special
  BY DEF Special
<1> QED
  BY <1>1, <1>2 DEF Enter

LEMMA CleanType ==
  ASSUME NEW S, NEW path \in Seq(S)
  PROVE  Clean(path) \in Seq(S \ Special)
<1> DEFINE G == {p \in Seq(S) : Clean(p) \in Seq(S \ Special)}
<1>1. <<>> \in G
  <2>1. <<>> \in Seq(S) /\ <<>> \in Seq(S \ Special)
    OBVIOUS
  <2> QED
    BY <2>1, CleanNothing
<1>2. ASSUME NEW p \in G, NEW x \in S PROVE Append(p, x) \in G
  BY CleanAppend, EnterType
<1> HIDE DEF G
<1>3. path \in G
  BY <1>1, <1>2, SeqInduction
<1> QED
  BY <1>3 DEF G

LEMMA CleanPlain ==
  ASSUME NEW S, S \cap Special = {}, NEW path \in Seq(S)
  PROVE  Clean(path) = path
<1> DEFINE G == {p \in Seq(S) : Clean(p) = p}
<1>1. <<>> \in G
  BY CleanNothing
<1>2. ASSUME NEW p \in G, NEW x \in S PROVE Append(p, x) \in G
  <2>1. Enter(p, x) = Append(p, x)
    BY DEF Enter, Special
  <2> QED
    BY <2>1, CleanAppend
<1> HIDE DEF G
<1>3. path \in G
  BY <1>1, <1>2, SeqInduction
<1> QED
  BY <1>3 DEF G

LEMMA EnterConcat ==
  ASSUME NEW S, NEW u \in Seq(S), NEW v \in Seq(S), NEW x, x # "..", x \in {Blank, "."} \/ x \in S
  PROVE  Enter(u \o v, x) = u \o Enter(v, x)
<1>1. CASE x \in {Blank, "."}
  BY <1>1 DEF Enter
<1>2. CASE x \notin {Blank, "."}
  <2>1. x \in S
    BY <1>2
  <2>2. Append(u \o v, x) = u \o Append(v, x)
    BY <2>1
  <2>3. Enter(u \o v, x) = Append(u \o v, x) /\ Enter(v, x) = Append(v, x)
    BY <1>2 DEF Enter
  <2> QED
    BY <2>2, <2>3
<1> QED
  BY <1>1, <1>2

\* A relative path without ".." is cleaned by itself; slashes at the end of a path
\* make no difference.
LEMMA CleanConcat ==
  ASSUME NEW S, NEW a \in Seq(S), NEW b \in Seq(S \ {".."})
  PROVE  Clean(a \o b) = Clean(a) \o Clean(b)
<1> DEFINE N == S \ Special
           G == {p \in Seq(S \ {".."}) : Clean(a \o p) = Clean(a) \o Clean(p)}
<1>0. Clean(a) \in Seq(N)
  BY CleanType
<1>1. <<>> \in G
  BY <1>0, CleanNothing
<1>2. ASSUME NEW p \in G, NEW x \in S \ {".."} PROVE Append(p, x) \in G
  <2>1. Clean(p) \in Seq(N)
    <3>1. p \in Seq(S)
      OBVIOUS
    <3> QED
      BY <3>1, CleanType
  <2>2. a \o Append(p, x) = Append(a \o p, x) /\ a \o p \in Seq(S) /\ p \in Seq(S)
    OBVIOUS
  <2>3. Clean(a \o Append(p, x)) = Enter(Clean(a) \o Clean(p), x)
    BY <2>2, CleanAppend
  <2>4. Clean(Append(p, x)) = Enter(Clean(p), x)
    BY <2>2, CleanAppend
  <2>5. Enter(Clean(a) \o Clean(p), x) = Clean(a) \o Enter(Clean(p), x)
    <3>1. x # ".." /\ (x \in {Blank, "."} \/ x \in N)
      BY DEF Special
    <3> QED
      BY <1>0, <2>1, <3>1, EnterConcat
  <2>6. Append(p, x) \in Seq(S \ {".."})
    OBVIOUS
  <2>7. Clean(a \o Append(p, x)) = Clean(a) \o Clean(Append(p, x))
    BY <2>3, <2>4, <2>5
  <2> QED
    BY <2>6, <2>7
<1> HIDE DEF G
<1>3. b \in G
  BY <1>1, <1>2, SeqInduction
<1> QED
  BY <1>3 DEF G

LEMMA CleanBlank ==
  ASSUME NEW S, Blank \in S, NEW path \in Seq(S)
  PROVE  Clean(Append(path, Blank)) = Clean(path)
BY CleanAppend DEF Enter

--------------------------------------------------------------------------------
(***************************************************************************)
(* Paths.                                                                  *)
(***************************************************************************)
LEMMA ConcatFacts ==
  ASSUME NEW S, NEW s \in Seq(S), NEW t \in Seq(S)
  PROVE  /\ s \o t \in Seq(S) /\ Len(s \o t) = Len(s) + Len(t)
         /\ IsPrefix(s, s \o t)
         /\ From(s \o t, Len(s) + 1) = t
         /\ \A n \in 0 .. Len(s) : SubSeq(s \o t, 1, n) = SubSeq(s, 1, n)
         /\ \A i \in 1 .. Len(s) : (s \o t)[i] = s[i]
         /\ \A i \in 1 .. Len(t) : (s \o t)[Len(s) + i] = t[i]
<1>1. s \o t \in Seq(S) /\ Len(s \o t) = Len(s) + Len(t)
  OBVIOUS
<1>2. IsPrefix(s, s \o t)
  BY DEF IsPrefix
<1>3. From(s \o t, Len(s) + 1) = t
  BY DEF From
<1>4. \A n \in 0 .. Len(s) : SubSeq(s \o t, 1, n) = SubSeq(s, 1, n)
  OBVIOUS
<1>5. /\ \A i \in 1 .. Len(s) : (s \o t)[i] = s[i]
      /\ \A i \in 1 .. Len(t) : (s \o t)[Len(s) + i] = t[i]
  OBVIOUS
<1> QED
  BY <1>1, <1>2, <1>3, <1>4, <1>5

LEMMA AppendFacts ==
  ASSUME NEW S, NEW s \in Seq(S), NEW x \in S
  PROVE  /\ Append(s, x) \in Seq(S) /\ Len(Append(s, x)) = Len(s) + 1
         /\ DOMAIN Append(s, x) = 1 .. Len(s) + 1
         /\ Append(s, x) # <<>> /\ Last(Append(s, x)) = x /\ Front(Append(s, x)) = s
         /\ \A i \in 1 .. Len(s) : Append(s, x)[i] = s[i]
         /\ SubSeq(Append(s, x), 1, Len(s)) = s
<1>1. /\ Append(s, x) \in Seq(S) /\ Len(Append(s, x)) = Len(s) + 1
      /\ DOMAIN Append(s, x) = 1 .. Len(s) + 1
      /\ \A i \in 1 .. Len(s) : Append(s, x)[i] = s[i]
      /\ Append(s, x)[Len(s) + 1] = x
  OBVIOUS
<1>2. SubSeq(Append(s, x), 1, Len(s)) = s
  OBVIOUS
<1> QED
  BY <1>1, <1>2 DEF Last, Front

LEMMA NonEmpty ==
  ASSUME NEW S, NEW s \in Seq(S), s # <<>>
  PROVE  Len(s) \in Nat \ {0} /\ Len(s) \in 1 .. Len(s) /\ s[1] \in S /\ Last(s) \in S
BY DEF Last

\* A slash at the end of remotePath makes no difference.
LEMMA Trimmed ==
  ASSUME NEW S, Blank \in S, NEW b \in Seq(S), b # <<>> => Last(b) # Blank,
         NEW base \in {b, Append(b, Blank)}
  PROVE  TrimRight(base) = b
<1> DEFINE named == {i \in DOMAIN base : base[i] # Blank}
<1>0. Len(b) \in Nat /\ DOMAIN b = 1 .. Len(b) /\ SubSeq(b, 1, Len(b)) = b
  OBVIOUS
<1>1. /\ \A i \in named : i \in 1 .. Len(b)
      /\ b # <<>> => Len(b) \in named
      /\ SubSeq(base, 1, Len(b)) = b
  <2>1. CASE base = b
    BY <1>0, <2>1, NonEmpty DEF Last
  <2>2. CASE base = Append(b, Blank)
    <3>1. /\ DOMAIN base = 1 .. Len(b) + 1 /\ base[Len(b) + 1] = Blank
          /\ \A i \in 1 .. Len(b) : base[i] = b[i]
          /\ SubSeq(base, 1, Len(b)) = b
      BY <2>2
    <3>2. b # <<>> => Len(b) \in 1 .. Len(b) /\ b[Len(b)] # Blank
      BY <1>0, NonEmpty DEF Last
    <3> QED
      BY <1>0, <3>1, <3>2
  <2> QED
    BY <2>1, <2>2
<1>2. CASE b = <<>>
  <2>1. named = {}
    BY <1>1, <1>2
  <2> QED
    BY <1>2, <2>1 DEF TrimRight
<1>3. CASE b # <<>>
  <2> HIDE DEF named
  <2>1. named # {} /\ Len(b) \in named /\ \A j \in named : j <= Len(b)
    BY <1>0, <1>1, <1>3
  <2>2. ASSUME NEW i \in named, \A j \in named : j <= i PROVE i = Len(b)
    BY <1>0, <1>1, <2>1, <2>2
  <2>3. (CHOOSE i \in named : \A j \in named : j <= i) = Len(b)
    BY <2>1, <2>2
  <2> QED
    BY <1>1, <2>1, <2>3 DEF TrimRight, named
<1> QED
  BY <1>2, <1>3

\* A file of the workspace goes to remotePath and its own relative path, for the
\* command line and for the editor, and both bring it back to where it was.
\* N are the names of files.
THEOREM RoundTrip ==
  ASSUME NEW N, N \cap Special = {},
         NEW root \in Seq(N), NEW rel \in Seq(N), rel # <<>>, NEW cwd,
         NEW b \in Seq(N \cup {Blank}), b # <<>> => Last(b) # Blank,
         NEW base \in {b, Append(b, Blank)}
  PROVE  LET file == root \o rel
             there == LocalToRemote(file, root, base)
         IN /\ there = b \o rel
            /\ DefaultLocalDestination(there, base, root, cwd) = file
            /\ RemoteToLocalPath(there, base, root) = file
<1> DEFINE S == N \cup {Blank}
           file == root \o rel
           there == b \o rel
<1>1. /\ file \in Seq(N) /\ Clean(file) = file
      /\ IsPrefix(root, file) /\ From(file, Len(root) + 1) = rel
  <2>1. file \in Seq(N) /\ IsPrefix(root, file) /\ From(file, Len(root) + 1) = rel
    BY ConcatFacts
  <2> HIDE DEF file
  <2> QED
    BY <2>1, CleanPlain
<1>2. /\ rel \in Seq(S) /\ b \in Seq(S) /\ Blank \in S
      /\ rel[1] \in N /\ rel[1] # Blank /\ Len(rel) \in Nat \ {0} /\ Len(b) \in Nat
  BY NonEmpty DEF Special
<1> HIDE DEF S
<1>3. /\ there \in Seq(S) /\ Len(there) = Len(b) + Len(rel)
      /\ IsPrefix(b, there) /\ From(there, Len(b) + 1) = rel
      /\ \A n \in 0 .. Len(b) : SubSeq(there, 1, n) = SubSeq(b, 1, n)
      /\ \A i \in 1 .. Len(b) : there[i] = b[i]
      /\ there[Len(b) + 1] = rel[1]
  <2>1. 1 \in 1 .. Len(rel)
    BY <1>2
  <2> QED
    BY <1>2, <2>1, ConcatFacts
<1>4. TrimRight(base) = b
  BY <1>2, Trimmed
<1>5. LocalToRemote(file, root, base) = there
  BY <1>1, <1>4 DEF LocalToRemote, Rel
<1>6. DefaultLocalDestination(there, base, root, cwd) = file
  BY <1>1, <1>3, <1>4 DEF DefaultLocalDestination
<1>7. StripSlash(rel) = rel
  <2>1. Head(rel) = rel[1]
    BY <1>2
  <2> QED
    BY <1>2, <2>1 DEF StripSlash
<1> HIDE DEF file, there
<1>8. HasPrefix(there, base) /\ StripSlash(TrimPrefix(there, base)) = rel
  <2>1. CASE base = <<>>
    <3>1. b = <<>>
      BY <1>2, <2>1, AppendFacts
    <3>2. there = rel
      BY <1>2, <3>1 DEF there
    <3> QED
      BY <1>7, <2>1, <3>2 DEF HasPrefix, TrimPrefix
  <2>2. CASE base = b /\ b # <<>>
    <3>1. /\ Len(b) \in 1 .. Len(b) /\ Len(b) \in Nat \ {0}
          /\ there[Len(b)] = Last(b) /\ Last(b) # Blank
      BY <1>2, <1>3, <2>2, NonEmpty DEF Last
    <3>2. Front(b) = SubSeq(there, 1, Len(b) - 1)
      BY <1>3, <3>1 DEF Front
    <3>3. TrimPrefix(there, base) = <<Blank>> \o rel
      BY <1>3, <2>2, <3>1 DEF TrimPrefix
    <3>4. StripSlash(<<Blank>> \o rel) = rel
      <4>1. /\ <<Blank>> \o rel # <<>> /\ Head(<<Blank>> \o rel) = Blank
            /\ Tail(<<Blank>> \o rel) = rel
        BY <1>2
      <4> QED
        BY <4>1 DEF StripSlash
    <3>5. HasPrefix(there, base)
      BY <1>2, <1>3, <2>2, <3>1, <3>2 DEF HasPrefix
    <3> QED
      BY <3>3, <3>4, <3>5
  <2>3. CASE base = Append(b, Blank)
    <3>1. Len(base) = Len(b) + 1 /\ Last(base) = Blank /\ base # <<>> /\ Front(base) = b
      BY <1>2, <2>3, AppendFacts
    <3>2. SubSeq(there, 1, Len(b)) = b
      BY <1>2, <1>3
    <3>3. <<rel[1]>> \o From(there, Len(b) + 2) = rel
      <4>1. From(there, Len(b) + 2) = From(rel, 2)
        BY <1>2 DEF From, there
      <4>2. <<rel[1]>> \o From(rel, 2) = rel
        BY <1>2 DEF From
      <4> QED
        BY <4>1, <4>2
    <3>4. TrimPrefix(there, base) = rel
      BY <1>2, <1>3, <3>1, <3>3 DEF TrimPrefix
    <3>5. HasPrefix(there, base)
      BY <1>2, <1>3, <3>1, <3>2 DEF HasPrefix
    <3> QED
      BY <1>7, <3>4, <3>5
  <2> QED
    BY <2>1, <2>2, <2>3
<1>9. RemoteToLocalPath(there, base, root) = file
  BY <1>1, <1>8 DEF RemoteToLocalPath, file
<1> QED
  BY <1>5, <1>6, <1>9 DEF file, there

LEMMA Suffix ==
  ASSUME NEW S, NEW a \in Seq(S), NEW p \in Seq(S), IsPrefix(a, p)
  PROVE  /\ From(p, Len(a) + 1) \in Seq(S)
         /\ p = a \o From(p, Len(a) + 1)
<1>1. Len(a) \in Nat /\ Len(p) \in Nat /\ Len(a) <= Len(p)
  BY DEF IsPrefix
<1>2. \A i \in 1 .. Len(a) : p[i] = a[i]
  <2> SUFFICES ASSUME NEW i \in 1 .. Len(a) PROVE p[i] = a[i]
    OBVIOUS
  <2>1. SubSeq(p, 1, Len(a))[i] = p[i] /\ SubSeq(a, 1, Len(a))[i] = a[i]
    BY <1>1
  <2> QED
    BY <2>1 DEF IsPrefix
<1>3. From(p, Len(a) + 1) \in Seq(S)
  BY <1>1 DEF From
<1>4. p = a \o SubSeq(p, Len(a) + 1, Len(p))
  BY <1>1, <1>2
<1> QED
  BY <1>3, <1>4 DEF From

LEMMA PrefixIs ==
  ASSUME NEW S, NEW a \in Seq(S), NEW p \in Seq(S)
  PROVE  IsPrefix(a, p) <=> Len(a) <= Len(p) /\ \A i \in 1 .. Len(a) : p[i] = a[i]
<1>1. Len(a) \in Nat /\ Len(p) \in Nat
  OBVIOUS
<1>2. ASSUME IsPrefix(a, p) PROVE Len(a) <= Len(p) /\ \A i \in 1 .. Len(a) : p[i] = a[i]
  <2>1. Len(a) <= Len(p)
    BY <1>2 DEF IsPrefix
  <2> SUFFICES ASSUME NEW i \in 1 .. Len(a) PROVE p[i] = a[i]
    BY <2>1
  <2>2. SubSeq(p, 1, Len(a))[i] = p[i] /\ SubSeq(a, 1, Len(a))[i] = a[i]
    BY <1>1, <2>1
  <2> QED
    BY <1>2, <2>2 DEF IsPrefix
<1>3. ASSUME Len(a) <= Len(p), \A i \in 1 .. Len(a) : p[i] = a[i] PROVE IsPrefix(a, p)
  <2>1. SubSeq(a, 1, Len(a)) = SubSeq(p, 1, Len(a))
    BY <1>1, <1>3
  <2> QED
    BY <1>3, <2>1 DEF IsPrefix
<1> QED
  BY <1>2, <1>3

LEMMA Chain ==
  ASSUME NEW S, NEW a \in Seq(S), NEW b \in Seq(S), NEW c \in Seq(S)
  PROVE  /\ IsPrefix(a, a)
         /\ IsPrefix(a, a \o b)
         /\ IsPrefix(a, b) /\ IsPrefix(b, c) => IsPrefix(a, c)
         /\ IsPrefix(a, c) /\ IsPrefix(b, c) => IsPrefix(a, b) \/ IsPrefix(b, a)
<1>1. Len(a) \in Nat /\ Len(b) \in Nat /\ Len(c) \in Nat /\ a \o b \in Seq(S)
      /\ Len(a \o b) = Len(a) + Len(b) /\ \A i \in 1 .. Len(a) : (a \o b)[i] = a[i]
  OBVIOUS
<1>2. IsPrefix(a, a) /\ IsPrefix(a, a \o b)
  BY ConcatFacts DEF IsPrefix
<1>3. ASSUME IsPrefix(a, b), IsPrefix(b, c) PROVE IsPrefix(a, c)
  <2>1. Len(a) <= Len(b) /\ \A i \in 1 .. Len(a) : b[i] = a[i]
    BY <1>3, PrefixIs
  <2>2. Len(b) <= Len(c) /\ \A i \in 1 .. Len(b) : c[i] = b[i]
    BY <1>3, PrefixIs
  <2> QED
    BY <1>1, <2>1, <2>2, PrefixIs
<1>4. ASSUME IsPrefix(a, c), IsPrefix(b, c) PROVE IsPrefix(a, b) \/ IsPrefix(b, a)
  <2>1. Len(a) <= Len(c) /\ \A i \in 1 .. Len(a) : c[i] = a[i]
    BY <1>4, PrefixIs
  <2>2. Len(b) <= Len(c) /\ \A i \in 1 .. Len(b) : c[i] = b[i]
    BY <1>4, PrefixIs
  <2>3. CASE Len(a) <= Len(b)
    BY <1>1, <2>1, <2>2, <2>3, PrefixIs
  <2>4. CASE Len(b) <= Len(a)
    BY <1>1, <2>1, <2>2, <2>4, PrefixIs
  <2> QED
    BY <1>1, <2>3, <2>4
<1> QED
  BY <1>2, <1>3, <1>4

LEMMA AncestorsAre ==
  ASSUME NEW S, NEW p \in Seq(S), NEW q \in Ancestors(p)
  PROVE  /\ q \in Seq(S) /\ IsPrefix(q, p) /\ Len(q) < Len(p)
         /\ \A a \in Seq(S) : IsPrefix(a, p) => IsPrefix(a, q) \/ q \in Ancestors(a)
<1>1. PICK n \in 0 .. Len(p) - 1 : q = SubSeq(p, 1, n)
  BY DEF Ancestors
<1>2. /\ q \in Seq(S) /\ Len(q) = n /\ Len(p) \in Nat /\ n \in Nat /\ n < Len(p)
      /\ \A i \in 1 .. n : q[i] = p[i]
  BY <1>1
<1>3. IsPrefix(q, p)
  BY <1>2, PrefixIs
<1>4. ASSUME NEW a \in Seq(S), IsPrefix(a, p) PROVE IsPrefix(a, q) \/ q \in Ancestors(a)
  <2>1. Len(a) \in Nat /\ Len(a) <= Len(p) /\ \A i \in 1 .. Len(a) : p[i] = a[i]
    BY <1>4, PrefixIs
  <2>2. CASE Len(a) <= n
    BY <1>2, <2>1, <2>2, PrefixIs
  <2>3. CASE n < Len(a)
    <3>1. q = SubSeq(a, 1, n)
      BY <1>1, <1>2, <2>1, <2>3
    <3>2. n \in 0 .. Len(a) - 1
      BY <1>2, <2>1, <2>3
    <3> QED
      BY <3>1, <3>2 DEF Ancestors
  <2> QED
    BY <1>2, <2>1, <2>2, <2>3
<1> QED
  BY <1>2, <1>3, <1>4

LEMMA TrimType ==
  ASSUME NEW S, NEW path \in Seq(S)
  PROVE  TrimRight(path) \in Seq(S)
<1> DEFINE named == {i \in DOMAIN path : path[i] # Blank}
<1>1. CASE named = {}
  BY <1>1 DEF TrimRight
<1>2. CASE named # {}
  <2>1. named \in SUBSET Nat /\ Len(path) \in Nat /\ \A k \in named : k <= Len(path)
    OBVIOUS
  <2> HIDE DEF named
  <2>2. \E m \in named : \A k \in named : k <= m
    BY <1>2, <2>1, Greatest
  <2>3. (CHOOSE m \in named : \A k \in named : k <= m) \in named
    BY <2>2
  <2>4. \A m \in DOMAIN path : SubSeq(path, 1, m) \in Seq(S)
    OBVIOUS
  <2> QED
    BY <1>2, <2>3, <2>4 DEF TrimRight, named
<1> QED
  BY <1>1, <1>2

--------------------------------------------------------------------------------
(***************************************************************************)
(* What a request does to a tree.                                          *)
(***************************************************************************)
\* From dst to t: what is below `to` may go, come from below `from` of src, or be
\* made as a directory, like what is above `to`.
Change(src, from, dst, to, t) ==
  /\ DOMAIN t \subseteq Seq(Name)
  /\ \A q \in DOMAIN dst \ DOMAIN t : IsPrefix(to, q)
  /\ \A q \in DOMAIN t :
       \/ q \in DOMAIN dst /\ t[q] = dst[q]
       \/ \E r \in Seq(Name) : /\ q = to \o r /\ from \o r \in DOMAIN src
                               /\ t[q] = src[from \o r]
       \/ q \in (Ancestors(to) \cup {to}) \ DOMAIN dst /\ t[q] = Dir

LEMMA MovedIs ==
  ASSUME NEW S, NEW from \in Seq(S), NEW to \in Seq(S), NEW r \in Seq(S)
  PROVE  Moved(from \o r, from, to) = to \o r
BY ConcatFacts DEF Moved

LEMMA CopiedChange ==
  ASSUME NEW src, NEW dst, DOMAIN src \subseteq Seq(Name), DOMAIN dst \subseteq Seq(Name),
         NEW from \in Seq(Name), NEW to \in Seq(Name)
  PROVE  Change(src, from, dst, to, Copied(src, from, dst, to))
<1> DEFINE new == {Moved(q, from, to) : q \in Under(src, from)}
           t == Copied(src, from, dst, to)
<1>1. /\ DOMAIN t = DOMAIN dst \cup new \cup Ancestors(to)
      /\ \A q \in DOMAIN t : t[q] = IF q \in new THEN src[Moved(q, to, from)]
                                    ELSE IF q \in DOMAIN dst THEN dst[q] ELSE Dir
  BY DEF Copied
<1>2. ASSUME NEW q \in new
      PROVE  \E r \in Seq(Name) : /\ q = to \o r /\ from \o r \in DOMAIN src
                                  /\ Moved(q, to, from) = from \o r
  <2>1. PICK p \in DOMAIN src : IsPrefix(from, p) /\ q = Moved(p, from, to)
    BY DEF Under
  <2> DEFINE r == From(p, Len(from) + 1)
  <2>2. r \in Seq(Name) /\ p = from \o r
    BY <2>1, Suffix
  <2>3. q = to \o r
    BY <2>1 DEF Moved
  <2> HIDE DEF r
  <2>4. Moved(q, to, from) = from \o r
    BY <2>2, <2>3, MovedIs
  <2> QED
    BY <2>2, <2>3, <2>4
<1> HIDE DEF t, new
<1>3. DOMAIN t \subseteq Seq(Name)
  <2>1. \A q \in Ancestors(to) : q \in Seq(Name)
    BY AncestorsAre
  <2>2. \A r \in Seq(Name) : to \o r \in Seq(Name)
    OBVIOUS
  <2> QED
    BY <1>1, <1>2, <2>1, <2>2
<1>4. \A q \in DOMAIN dst : q \in DOMAIN t
  BY <1>1
<1>5. ASSUME NEW q \in DOMAIN t
      PROVE  \/ q \in DOMAIN dst /\ t[q] = dst[q]
             \/ \E r \in Seq(Name) : /\ q = to \o r /\ from \o r \in DOMAIN src
                                     /\ t[q] = src[from \o r]
             \/ q \in (Ancestors(to) \cup {to}) \ DOMAIN dst /\ t[q] = Dir
  <2>1. CASE q \in new
    BY <1>1, <1>2, <2>1
  <2>2. CASE q \notin new
    BY <1>1, <2>2
  <2> QED
    BY <2>1, <2>2
<1> QED
  BY <1>3, <1>4, <1>5 DEF Change, t

LEMMA KeptChange ==
  ASSUME NEW src, NEW from, NEW dst, DOMAIN dst \subseteq Seq(Name), NEW to,
         NEW gone \in SUBSET Under(dst, to)
  PROVE  Change(src, from, dst, to, [q \in DOMAIN dst \ gone |-> dst[q]])
BY DEF Change, Under

LEMMA SyncedChange ==
  ASSUME NEW src, NEW dst, DOMAIN src \subseteq Seq(Name), DOMAIN dst \subseteq Seq(Name),
         NEW from \in Seq(Name), NEW to \in Seq(Name), NEW delete
  PROVE  Change(src, from, dst, to, Synced(src, from, dst, to, delete))
<1> DEFINE extraneous == {q \in Under(dst, to) \ {to} : Moved(q, to, from) \notin DOMAIN src}
           gone == IF delete THEN extraneous ELSE {}
           kept == [q \in DOMAIN dst \ gone |-> dst[q]]
           t == Synced(src, from, dst, to, delete)
<1>1. t = IF CanCopy(src, from, kept, to) THEN Copied(src, from, kept, to) ELSE kept
  BY DEF Synced
<1>2. gone \in SUBSET Under(dst, to)
  OBVIOUS
<1>3. \A q \in gone : IsPrefix(to, q) /\ q \in Seq(Name)
  BY <1>2 DEF Under
<1>4. DOMAIN kept = DOMAIN dst \ gone /\ \A q \in DOMAIN kept : kept[q] = dst[q]
  OBVIOUS
<1>5. Change(src, from, dst, to, kept)
  BY <1>2, KeptChange
<1> HIDE DEF gone, kept, t
<1>6. Change(src, from, dst, to, Copied(src, from, kept, to))
  <2> DEFINE u == Copied(src, from, kept, to)
  <2>1. Change(src, from, kept, to, u)
    BY <1>4, CopiedChange
  <2> HIDE DEF u
  <2>2. \A q \in DOMAIN dst \ DOMAIN u : IsPrefix(to, q)
    BY <1>3, <1>4, <2>1 DEF Change
  <2>3. \A q \in Ancestors(to) \cup {to} : q \in gone => q = to
    <3>1. ASSUME NEW q \in Ancestors(to), q \in gone PROVE FALSE
      <4>1. Len(q) < Len(to) /\ q \in Seq(Name)
        BY <3>1, AncestorsAre
      <4>2. Len(to) <= Len(q)
        BY <1>3, <3>1 DEF IsPrefix
      <4> QED
        BY <4>1, <4>2
    <3> QED
      BY <3>1
  <2>4. to \notin gone
    BY DEF gone
  <2> QED
    BY <1>4, <2>1, <2>2, <2>3, <2>4 DEF Change, u
<1> QED
  BY <1>1, <1>5, <1>6 DEF t

LEMMA RemovedChange ==
  ASSUME NEW tree, DOMAIN tree \subseteq Seq(Name), NEW path, NEW src, NEW from
  PROVE  Change(src, from, tree, path, Removed(tree, path))
BY KeptChange DEF Removed

LEMMA MadeChange ==
  ASSUME NEW tree, DOMAIN tree \subseteq Seq(Name), NEW path \in Seq(Name), NEW src, NEW from
  PROVE  Change(src, from, tree, path, Made(tree, path))
<1>1. \A q \in Ancestors(path) : q \in Seq(Name)
  BY AncestorsAre
<1> QED
  BY <1>1 DEF Change, Made

\* What comes from the source has to be in its place; the rest is as it was.
LEMMA ChangeInPlace ==
  ASSUME NEW src, NEW from, NEW dst, NEW to, NEW t, Change(src, from, dst, to, t),
         NEW c, InOwnPlace(dst, c),
         \A r \in Seq(Name) : from \o r \in DOMAIN src /\ IsPrefix(c, to \o r) =>
           src[from \o r] \in {Moved(to \o r, c, Workspace), Dir}
  PROVE  InOwnPlace(t, c)
BY DEF Change, InOwnPlace, Under

LEMMA ChangeBelow ==
  ASSUME NEW src, NEW from, NEW dst, NEW to \in Seq(Name), NEW t, Change(src, from, dst, to, t),
         NEW place \in Seq(Name), IsPrefix(place, to), DOMAIN dst \subseteq Seq(Name)
  PROVE  OnlyBelow(place, dst, t)
<1> SUFFICES ASSUME NEW q \in Touched(dst, t)
             PROVE  IsPrefix(place, q) \/ q \in Ancestors(place) \ DOMAIN dst
  BY DEF OnlyBelow
<1>1. q \in Seq(Name)
  BY DEF Touched, Change
<1>2. CASE q \notin DOMAIN t
  <2>1. IsPrefix(to, q)
    BY <1>2 DEF Touched, Change
  <2> QED
    BY <1>1, <2>1, Chain
<1>3. ASSUME NEW r \in Seq(Name), q = to \o r PROVE IsPrefix(place, q)
  <2>1. IsPrefix(to, q)
    BY <1>3, Chain
  <2> QED
    BY <1>1, <2>1, Chain
<1>4. CASE q \in (Ancestors(to) \cup {to}) \ DOMAIN dst
  BY <1>4, AncestorsAre
<1> QED
  BY <1>2, <1>3, <1>4 DEF Touched, Change

--------------------------------------------------------------------------------
(***************************************************************************)
(* From what the user says to two paths.                                   *)
(***************************************************************************)
RemotePaths == UNION {{c[i].remotePath : i \in DOMAIN c} : c \in Configs}
Downwards == Seq(Part \ {".."})

LEMMA NamesOnly ==
  /\ Name \cap Special = {} /\ Blank \in Part
  /\ Seq(Name) \subseteq Seq(Part) /\ Seq(Name) \subseteq Downwards /\ Downwards \subseteq Seq(Part)
<1>1. /\ Name \cap Special = {} /\ Name \subseteq Part /\ Blank \in Part
      /\ Name \subseteq Part \ {".."}
  BY FrontEndsAssumption DEF Part, Special
<1> QED
  BY <1>1 DEF Downwards

LEMMA CleanPart ==
  ASSUME NEW path \in Seq(Part) PROVE Clean(path) \in Seq(Name)
<1>1. Part \ Special = Name
  BY NamesOnly DEF Part
<1> QED
  BY <1>1, CleanType

LEMMA Elements ==
  ASSUME NEW S, NEW s \in Seq(S)
  PROVE  DOMAIN s \subseteq Nat /\ \A i \in DOMAIN s : s[i] \in S
OBVIOUS

LEMMA Selected ==
  ASSUME Orderly, NEW profiles \in Configs \cup {<<>>}, NEW name,
         SelectProfile(profiles, name) # NoProfile
  PROVE  /\ SelectProfile(profiles, name).remotePath \in RemotePaths
         /\ SelectProfile(profiles, name).delete \in BOOLEAN
<1> DEFINE fits == {i \in DOMAIN profiles : name \in {"", profiles[i].name}}
           first == CHOOSE i \in fits : \A j \in fits : i <= j
<1>1. fits # {} /\ SelectProfile(profiles, name) = profiles[first]
  BY DEF SelectProfile
<1>2. profiles \in Configs
  <2>1. DOMAIN <<>> = {}
    OBVIOUS
  <2> QED
    BY <1>1, <2>1
<1>3. /\ fits \in SUBSET Nat
      /\ \A i \in DOMAIN profiles : profiles[i].delete \in BOOLEAN
  <2> DEFINE P == [name : STRING, remotePath : Seq(Part), valid : BOOLEAN, delete : BOOLEAN]
  <2>1. profiles \in Seq(P)
    BY <1>2 DEF Orderly
  <2>2. \A p \in P : p.delete \in BOOLEAN
    OBVIOUS
  <2> HIDE DEF P
  <2> QED
    BY <2>1, <2>2, Elements
<1>4. \E i \in fits : \A j \in fits : i <= j
  <2> HIDE DEF fits
  <2> QED
    BY <1>1, <1>3, Least
<1>5. first \in DOMAIN profiles
  BY <1>4
<1> HIDE DEF first
<1>6. profiles[first].remotePath \in {profiles[i].remotePath : i \in DOMAIN profiles}
  BY <1>5
<1>7. profiles[first].remotePath \in RemotePaths
  BY <1>2, <1>6 DEF RemotePaths
<1>8. profiles[first].delete \in BOOLEAN
  BY <1>3, <1>5
<1> QED
  BY <1>1, <1>7, <1>8

LEMMA Found ==
  ASSUME Orderly, NEW dir \in Seq(Name), FindConfigFile(dir, {Workspace}) # NoDir
  PROVE  FindConfigFile(dir, {Workspace}) = Workspace
<1> DEFINE found == {n \in 0 .. Len(dir) : SubSeq(dir, 1, n) \in {Workspace}}
           last == CHOOSE n \in found : \A k \in found : k <= n
<1>1. found # {} /\ FindConfigFile(dir, {Workspace}) = SubSeq(dir, 1, last)
  BY DEF FindConfigFile
<1>2. found \in SUBSET Nat /\ Len(dir) \in Nat /\ \A k \in found : k <= Len(dir)
  OBVIOUS
<1>3. \E n \in found : \A k \in found : k <= n
  <2> HIDE DEF found
  <2> QED
    BY <1>1, <1>2, Greatest
<1>4. last \in found
  BY <1>3
<1> QED
  BY <1>1, <1>4

\* A remotePath, with or without the slash at its end.
LEMMA BaseIs ==
  ASSUME Orderly, NEW base \in RemotePaths
  PROVE  LET b == TrimRight(base) IN
         /\ b \in Seq(Part) /\ base \in Seq(Part) /\ b # <<>> /\ base # <<>>
         /\ base \in {b, Append(b, Blank)}
         /\ Clean(base) = Clean(b) /\ Clean(base) \in Seq(Name) /\ Clean(base) \in RemoteBases
<1> DEFINE b == TrimRight(base)
<1>1. PICK c \in Configs : \E i \in DOMAIN c : base = c[i].remotePath
  BY DEF RemotePaths
<1>2. PICK i \in DOMAIN c : base = c[i].remotePath
  BY <1>1
<1>3. base \in Seq(Part)
  <2>1. c \in Seq([name : STRING, remotePath : Seq(Part), valid : BOOLEAN, delete : BOOLEAN])
    BY DEF Orderly
  <2>2. c[i] \in [name : STRING, remotePath : Seq(Part), valid : BOOLEAN, delete : BOOLEAN]
    BY <2>1, <1>2, Elements
  <2> QED
    BY <1>2, <2>2
<1>4. b \in Seq(Part) /\ Clean(base) \in Seq(Name)
  BY <1>3, TrimType, CleanPart
<1>5. b # <<>> /\ base \in {b, Append(b, Blank)}
  BY <1>2 DEF Orderly
<1> HIDE DEF b
<1>6. Clean(base) = Clean(b)
  BY <1>4, <1>5, NamesOnly, CleanBlank
<1>7. base # <<>>
  BY <1>4, <1>5
<1>8. Clean(base) \in RemoteBases
  BY <1>2 DEF RemoteBases
<1> QED
  BY <1>3, <1>4, <1>5, <1>6, <1>7, <1>8 DEF b

LEMMA Below ==
  ASSUME Orderly, NEW base \in RemotePaths, NEW rest \in Downwards
  PROVE  /\ Resolve(base) = Clean(base)
         /\ TrimRight(base) \o rest \in Seq(Part)
         /\ Resolve(TrimRight(base) \o rest) = Clean(base) \o Clean(rest)
         /\ Clean(Workspace \o rest) = Workspace \o Clean(rest)
         /\ Clean(rest) \in Seq(Name)
<1> DEFINE b == TrimRight(base)
<1>1. /\ b \in Seq(Part) /\ b # <<>> /\ base # <<>> /\ Clean(base) = Clean(b)
  BY BaseIs
<1>2. rest \in Seq(Part)
  BY DEF Downwards
<1> HIDE DEF b
<1>3. b \o rest \in Seq(Part) /\ b \o rest # <<>>
  BY <1>1, <1>2
<1>4. Clean(b \o rest) = Clean(b) \o Clean(rest)
  BY <1>1, CleanConcat DEF Downwards
<1>5. Clean(Workspace \o rest) = Workspace \o Clean(rest)
  <2>1. Workspace \in Seq(Name)
    BY DEF Orderly
  <2>2. Clean(Workspace) = Workspace
    BY <2>1, NamesOnly, CleanPlain
  <2>3. Workspace \in Seq(Part)
    BY <2>1, NamesOnly
  <2> QED
    BY <2>2, <2>3, CleanConcat DEF Downwards
<1>6. Clean(rest) \in Seq(Name)
  BY <1>2, CleanPart
<1> QED
  BY <1>1, <1>3, <1>4, <1>5, <1>6 DEF Resolve, b

\* localToRemote takes a file of the workspace to its place below remotePath.
LEMMA Outwards ==
  ASSUME Orderly, NEW base \in RemotePaths, NEW rel \in Seq(Name)
  PROVE  Resolve(LocalToRemote(Workspace \o rel, Workspace, base)) = Clean(base) \o rel
<1>1. Rel(Workspace, Workspace \o rel) = rel
  BY ConcatFacts DEF Rel, Orderly
<1>2. rel \in Downwards /\ Clean(rel) = rel
  BY NamesOnly, CleanPlain
<1>3. Clean(base) \in Seq(Name)
  BY BaseIs
<1>4. CASE rel = <<>>
  <2>1. LocalToRemote(Workspace \o rel, Workspace, base) = base
    BY <1>1, <1>4 DEF LocalToRemote
  <2>2. Clean(base) \o rel = Clean(base)
    BY <1>3, <1>4
  <2> QED
    BY <1>2, <2>1, <2>2, Below
<1>5. CASE rel # <<>>
  <2>1. LocalToRemote(Workspace \o rel, Workspace, base) = TrimRight(base) \o rel
    BY <1>1, <1>5 DEF LocalToRemote
  <2> QED
    BY <1>2, <2>1, Below
<1> QED
  BY <1>4, <1>5

\* Both front ends take a path below remotePath back to its place in the workspace.
LEMMA Homewards ==
  ASSUME Orderly, NEW base \in RemotePaths, NEW rest \in Downwards, NEW cwd
  PROVE  LET r == TrimRight(base) \o rest IN
         /\ DefaultLocalDestination(r, base, Workspace, cwd) = Workspace \o Clean(rest)
         /\ RemoteToLocalPath(r, base, Workspace) = Workspace \o Clean(rest)
<1> DEFINE b == TrimRight(base)  r == b \o rest
<1>1. /\ b \in Seq(Part) /\ b # <<>> /\ base \in {b, Append(b, Blank)}
      /\ rest \in Seq(Part) /\ Clean(Workspace \o rest) = Workspace \o Clean(rest)
  BY BaseIs, Below DEF Downwards
<1> HIDE DEF b
<1>2. /\ r \in Seq(Part) /\ Len(r) = Len(b) + Len(rest)
      /\ IsPrefix(b, r) /\ From(r, Len(b) + 1) = rest
      /\ \A n \in 0 .. Len(b) : SubSeq(r, 1, n) = SubSeq(b, 1, n)
      /\ \A i \in 1 .. Len(b) : r[i] = b[i]
      /\ \A i \in 1 .. Len(rest) : r[Len(b) + i] = rest[i]
  BY <1>1, ConcatFacts
<1>3. DefaultLocalDestination(r, base, Workspace, cwd) = Workspace \o Clean(rest)
  BY <1>1, <1>2 DEF DefaultLocalDestination, b
<1>4. /\ Len(b) \in Nat \ {0} /\ Len(rest) \in Nat /\ Last(b) = b[Len(b)]
      /\ SubSeq(b, 1, Len(b)) = b
  BY <1>1 DEF Last
<1> HIDE DEF r
<1>5. CASE base = b
  <2>1. HasPrefix(r, base) /\ TrimPrefix(r, base) = <<Blank>> \o rest
    <3>1. r[Len(b)] = Last(b) /\ Last(b) \in Part
      BY <1>1, <1>2, <1>4
    <3>2. HasPrefix(r, base)
      <4>1. Front(b) = SubSeq(r, 1, Len(b) - 1) /\ Len(b) <= Len(r)
        BY <1>2, <1>4 DEF Front
      <4> QED
        BY <1>5, <3>1, <4>1 DEF HasPrefix
    <3>3. TrimPrefix(r, base) = <<Blank>> \o rest
      BY <1>1, <1>2, <1>5, <3>1 DEF TrimPrefix
    <3> QED
      BY <3>2, <3>3
  <2>2. StripSlash(<<Blank>> \o rest) = rest
    <3>1. /\ <<Blank>> \o rest # <<>> /\ Head(<<Blank>> \o rest) = Blank
          /\ Tail(<<Blank>> \o rest) = rest
      BY <1>1
    <3> QED
      BY <3>1 DEF StripSlash
  <2> QED
    BY <1>1, <1>3, <2>1, <2>2 DEF RemoteToLocalPath, r, b
<1>6. CASE base = Append(b, Blank)
  <2>1. Len(base) = Len(b) + 1 /\ Last(base) = Blank /\ base # <<>> /\ Front(base) = b
    BY <1>1, <1>6, NamesOnly, AppendFacts
  <2>2. CASE rest = <<>>
    <3>1. ~HasPrefix(r, base)
      BY <1>2, <1>4, <2>1, <2>2 DEF HasPrefix
    <3>2. Workspace \o Clean(rest) = Workspace
      BY <2>2, CleanNothing DEF Orderly
    <3> QED
      BY <1>3, <3>1, <3>2 DEF RemoteToLocalPath, r, b
  <2>3. CASE rest # <<>>
    <3>1. Len(rest) \in Nat \ {0} /\ 1 \in 1 .. Len(rest) /\ r[Len(b) + 1] = rest[1]
      BY <1>1, <1>2, <1>4, <2>3
    <3>2. HasPrefix(r, base)
      <4>1. Len(base) <= Len(r) /\ Front(base) = SubSeq(r, 1, Len(base) - 1)
        BY <1>2, <1>4, <2>1, <3>1
      <4> QED
        BY <2>1, <4>1 DEF HasPrefix
    <3>3. TrimPrefix(r, base) = rest
      <4>1. From(r, Len(b) + 2) = From(rest, 2)
        BY <1>1, <1>2, <1>4, <3>1 DEF From, r
      <4>2. <<rest[1]>> \o From(rest, 2) = rest
        BY <1>1, <3>1 DEF From
      <4> QED
        BY <2>1, <3>1, <4>1, <4>2 DEF TrimPrefix
    <3>4. Clean(Workspace \o StripSlash(rest)) = Workspace \o Clean(rest)
      <4>1. CASE rest[1] # Blank
        BY <1>1, <2>3, <4>1 DEF StripSlash
      <4>2. CASE rest[1] = Blank
        <5> DEFINE tail == Tail(rest)
        <5>1. StripSlash(rest) = tail
          BY <1>1, <2>3, <4>2 DEF StripSlash
        <5>2. tail \in Downwards /\ rest = <<Blank>> \o tail
          BY <1>1, <3>1, <4>2 DEF Downwards
        <5> HIDE DEF tail
        <5>3. Clean(rest) = Clean(<<Blank>>) \o Clean(tail)
          <6>1. Blank \in Part /\ <<Blank>> \in Seq(Part)
            BY NamesOnly
          <6> QED
            BY <5>2, <6>1, CleanConcat DEF Downwards
        <5>4. Clean(<<Blank>>) = <<>>
          <6>1. <<Blank>> = Append(<<>>, Blank) /\ <<>> \in Seq({Blank})
            OBVIOUS
          <6> QED
            BY <6>1, CleanBlank, CleanNothing
        <5>5. Clean(tail) \in Seq(Name) /\ Clean(Workspace \o tail) = Workspace \o Clean(tail)
          BY <5>2, Below
        <5>6. Clean(rest) = Clean(tail)
          BY <5>3, <5>4, <5>5
        <5> QED
          BY <5>1, <5>5, <5>6
      <4> QED
        BY <4>1, <4>2
    <3> QED
      BY <1>3, <3>2, <3>3, <3>4 DEF RemoteToLocalPath, r, b
  <2> QED
    BY <2>2, <2>3
<1> QED
  BY <1>1, <1>5, <1>6

LEMMA RelType ==
  ASSUME NEW base \in Seq(Name), NEW path \in Seq(Name)
  PROVE  Rel(base, path) \in Seq(Part)
<1> DEFINE shared == {n \in 0 .. Len(base) : IsPrefix(SubSeq(base, 1, n), path)}
           common == CHOOSE n \in shared : \A k \in shared : k <= n
           ups == [i \in 1 .. Len(base) - common |-> ".."]
<1>1. CASE IsPrefix(base, path)
  BY <1>1, Suffix, NamesOnly DEF Rel
<1>2. CASE ~IsPrefix(base, path)
  <2>1. Rel(base, path) = ups \o From(path, common + 1)
    BY <1>2 DEF Rel
  <2>2. 0 \in shared
    <3>1. SubSeq(base, 1, 0) = <<>> /\ Len(<<>>) = 0 /\ 0 \in 0 .. Len(base)
      OBVIOUS
    <3>2. IsPrefix(<<>>, path)
      BY DEF IsPrefix
    <3> QED
      BY <3>1, <3>2
  <2>3. shared \in SUBSET Nat /\ Len(base) \in Nat /\ \A k \in shared : k <= Len(base)
    OBVIOUS
  <2>4. \E n \in shared : \A k \in shared : k <= n
    <3> HIDE DEF shared
    <3> QED
      BY <2>2, <2>3, Greatest
  <2>5. common \in 0 .. Len(base)
    BY <2>4
  <2> HIDE DEF common
  <2>6. ups \in Seq(Part)
    <3>1. ".." \in Part /\ Len(base) - common \in Nat
      BY <2>5 DEF Part, Special
    <3> QED
      BY <3>1
  <2>7. From(path, common + 1) \in Seq(Name)
    BY <2>5 DEF From
  <2> QED
    BY <2>1, <2>6, <2>7, NamesOnly
<1> QED
  BY <1>1, <1>2

LEMMA ResolveType ==
  ASSUME Orderly, NEW path \in Seq(Part) PROVE Resolve(path) \in Seq(Name)
BY CleanPart DEF Resolve, Orderly

LEMMA OutwardsType ==
  ASSUME Orderly, NEW l \in Seq(Name), NEW root \in Seq(Name), NEW base \in RemotePaths
  PROVE  LocalToRemote(l, root, base) \in Seq(Part)
<1>1. base \in Seq(Part) /\ TrimRight(base) \in Seq(Part)
  BY BaseIs
<1>2. Rel(root, l) \in Seq(Part)
  BY RelType
<1> QED
  BY <1>1, <1>2 DEF LocalToRemote

LEMMA Joined ==
  ASSUME NEW dir \in Seq(Name), NEW rest \in Seq(Part)
  PROVE  dir \o rest \in Seq(Part) /\ Clean(dir \o rest) \in Seq(Name)
<1>1. dir \in Seq(Part)
  BY NamesOnly
<1>2. dir \o rest \in Seq(Part)
  BY <1>1
<1> QED
  BY <1>2, CleanPart

LEMMA HomewardsType ==
  ASSUME Orderly, NEW r \in Seq(Part), NEW base \in RemotePaths, NEW root \in Seq(Name)
  PROVE  /\ \A cwd \in Seq(Name) : DefaultLocalDestination(r, base, root, cwd) \in Seq(Name)
         /\ RemoteToLocalPath(r, base, root) \in Seq(Name)
<1>1. base \in Seq(Part) /\ TrimRight(base) \in Seq(Part) /\ base # <<>>
  BY BaseIs
<1>2. ASSUME NEW cwd \in Seq(Name) PROVE DefaultLocalDestination(r, base, root, cwd) \in Seq(Name)
  <2> DEFINE b == TrimRight(base)  named == TrimRight(r)
  <2>1. named \in Seq(Part)
    BY TrimType
  <2>2. CASE IsPrefix(b, r)
    <3>1. From(r, Len(b) + 1) \in Seq(Part)
      BY <1>1, <2>2, Suffix
    <3> QED
      BY <2>2, <3>1, Joined DEF DefaultLocalDestination
  <2>3. CASE ~IsPrefix(b, r) /\ named = <<>>
    BY <2>3 DEF DefaultLocalDestination
  <2>4. CASE ~IsPrefix(b, r) /\ named # <<>>
    <3>1. Last(named) \in Part /\ cwd \in Seq(Part)
      BY <2>1, <2>4, NonEmpty, NamesOnly
    <3> HIDE DEF named, b
    <3>2. Append(cwd, Last(named)) \in Seq(Part)
      BY <3>1
    <3>3. DefaultLocalDestination(r, base, root, cwd) = Clean(Append(cwd, Last(named)))
      BY <2>4 DEF DefaultLocalDestination, named, b
    <3> QED
      BY <3>2, <3>3, CleanPart
  <2> QED
    BY <2>2, <2>3, <2>4
<1>3. RemoteToLocalPath(r, base, root) \in Seq(Name)
  <2>1. CASE ~HasPrefix(r, base)
    BY <2>1 DEF RemoteToLocalPath
  <2>2. CASE HasPrefix(r, base)
    <3> DEFINE n == Len(base)
               left == IF Last(base) = Blank THEN r[n]
                       ELSE IF Last(base) = r[n] THEN Blank ELSE NameTail[<<r[n], Last(base)>>]
    <3>0. n \in Nat \ {0} /\ Len(r) \in Nat
      BY <1>1, NonEmpty
    <3>1. /\ n <= Len(r)
          /\ Last(base) \in {Blank, r[n]} \/ <<r[n], Last(base)>> \in DOMAIN NameTail
      BY <1>1, <2>2 DEF HasPrefix
    <3>2. left \in Part
      <4>1. r[n] \in Part
        BY <3>0, <3>1
      <4> QED
        BY <3>1, <4>1, NamesOnly DEF Orderly
    <3>3. From(r, n + 1) \in Seq(Part)
      BY <3>0, <3>1 DEF From
    <3>4. TrimPrefix(r, base) = <<left>> \o From(r, n + 1)
      BY <1>1 DEF TrimPrefix
    <3> HIDE DEF n, left
    <3>5. TrimPrefix(r, base) \in Seq(Part)
      BY <3>2, <3>3, <3>4
    <3>6. StripSlash(TrimPrefix(r, base)) \in Seq(Part)
      BY <3>5 DEF StripSlash
    <3> QED
      BY <2>2, <3>6, Joined DEF RemoteToLocalPath
  <2> QED
    BY <2>1, <2>2
<1> QED
  BY <1>2, <1>3

--------------------------------------------------------------------------------
(***************************************************************************)
(* What a command asks for.                                                *)
(***************************************************************************)
Transfers == {"upload", "download"} \cup OneWay
Ops == Transfers \cup {"delete", "mkdir", "list"}
Requests == [op : Ops, local : Seq(Name), remote : Seq(Name), delete : BOOLEAN]

\* The two paths of a transfer are each other's counterparts, and what is removed or
\* made is below remotePath.
Matched(req, place) ==
  \E rel \in Seq(Name) : req.local = Workspace \o rel /\ req.remote = place \o rel
Fits(req, place) == req.op \in Transfers => Matched(req, place)
Confined(req, place) == req.op \in {"delete", "mkdir"} => IsPrefix(place, req.remote)

LEMMA RequestType ==
  ASSUME Orderly, NEW op \in Ops, NEW l \in Seq(Name), NEW r \in Seq(Part)
  PROVE  Request(op, l, r) \in Requests
BY ResolveType DEF Request, Requests

LEMMA NothingFits ==
  ASSUME Orderly
  PROVE  Nothing \in Requests /\ \A place : Fits(Nothing, place) /\ Confined(Nothing, place)
<1>1. Workspace \in Seq(Name) /\ <<Blank>> \in Seq(Part) /\ "list" \in Ops
  <2>1. Blank \in Part
    BY NamesOnly
  <2> QED
    BY <2>1 DEF Orderly, Ops
<1>2. Nothing \in Requests
  BY <1>1, RequestType DEF Nothing
<1>3. Nothing.op = "list"
  BY DEF Nothing, Request
<1> QED
  BY <1>2, <1>3 DEF Fits, Confined, Transfers, OneWay

\* Two paths that are counterparts, as Request resolves them.
LEMMA RequestFits ==
  ASSUME Orderly, NEW op, NEW rel \in Seq(Name), NEW r, NEW place,
         Resolve(r) = place \o rel, op \in Transfers
  PROVE  LET req == Request(op, Workspace \o rel, r) IN Fits(req, place) /\ Confined(req, place)
<1> DEFINE req == Request(op, Workspace \o rel, r)
<1>1. op \notin {"delete", "mkdir"}
  BY DEF Transfers, OneWay
<1>2. req.op = op /\ req.local = Workspace \o rel /\ req.remote = place \o rel
  BY DEF Request
<1> HIDE DEF req
<1>3. Fits(req, place) /\ Confined(req, place)
  BY <1>1, <1>2 DEF Fits, Confined, Matched
<1> QED
  BY <1>3 DEF req

\* A local path in the workspace, sent to where localToRemote says.
LEMMA UploadFits ==
  ASSUME Orderly, NEW op \in Transfers, NEW l \in Seq(Name), IsPrefix(Workspace, l),
         NEW base \in RemotePaths
  PROVE  LET req == Request(op, l, LocalToRemote(l, Workspace, base))
         IN Fits(req, Clean(base)) /\ Confined(req, Clean(base))
<1>1. PICK rel \in Seq(Name) : l = Workspace \o rel
  BY Suffix DEF Orderly
<1>2. Resolve(LocalToRemote(l, Workspace, base)) = Clean(base) \o rel
  BY <1>1, Outwards
<1> QED
  BY <1>1, <1>2, RequestFits

\* A remote path below remotePath, brought back.
LEMMA Inside ==
  ASSUME Orderly, NEW base \in RemotePaths, NEW r \in Downwards, InsideBase(r, base)
  PROVE  \E rest \in Downwards : r = TrimRight(base) \o rest
<1>1. TrimRight(base) \in Seq(Part) /\ r \in Seq(Part) /\ IsPrefix(TrimRight(base), r)
  BY BaseIs, NamesOnly DEF InsideBase
<1> DEFINE b == TrimRight(base)  rest == From(r, Len(b) + 1)
<1>2. r = b \o rest
  BY <1>1, Suffix
<1>3. rest \in Downwards
  BY <1>1 DEF Downwards, From
<1> QED
  BY <1>2, <1>3

LEMMA DownloadFits ==
  ASSUME Orderly, NEW base \in RemotePaths, NEW rest \in Downwards, NEW r,
         r = TrimRight(base) \o rest, NEW l, l = Workspace \o Clean(rest)
  PROVE  LET req == Request("download", l, r)
         IN Fits(req, Clean(base)) /\ Confined(req, Clean(base))
<1>1. Resolve(r) = Clean(base) \o Clean(rest) /\ Clean(rest) \in Seq(Name)
  BY Below
<1>2. "download" \in Transfers
  BY DEF Transfers
<1> QED
  BY <1>1, <1>2, RequestFits

--------------------------------------------------------------------------------
(***************************************************************************)
(* The command line.                                                       *)
(***************************************************************************)
LEMMA CallIs ==
  ASSUME Orderly, NEW cmd, NEW c \in Calls(cmd), ResolveConfigPath(c).dir # NoDir
  PROVE  /\ c.cmd = cmd /\ c.cwd \in Seq(Name) /\ c.arg \in Seq(Part)
         /\ c.remoteArg = Here \/ c.remoteArg \in RemoteArgs
         /\ c.remoteArg.path \in Downwards
         /\ c.delete \in BOOLEAN /\ c.dryRun \in BOOLEAN
         /\ ResolveLocalPath(c) \in Seq(Name)
         /\ Root(c) \in Seq(Name)
         /\ ~(c.flag # NoFlag /\ ~c.flag.vscode) => Root(c) = Workspace
<1>1. /\ c.cmd = cmd /\ c.cwd \in Cwds /\ c.flag \in ConfigFlags \cup {NoFlag}
      /\ c.dryRun \in BOOLEAN /\ c.delete \in BOOLEAN
      /\ c.arg = <<>> \/ c.arg \in LocalArgs
      /\ c.remoteArg = Here \/ c.remoteArg \in RemoteArgs
  BY DEF Calls
<1>2. c.cwd \in Seq(Name) /\ c.arg \in Seq(Part) /\ Workspace \in Seq(Name)
  <2>1. Cwds \subseteq Seq(Name) /\ LocalArgs \subseteq Seq(Part) /\ Workspace \in Seq(Name)
    BY DEF Orderly
  <2>2. <<>> \in Seq(Part)
    OBVIOUS
  <2> QED
    BY <1>1, <2>1, <2>2
<1>3. c.remoteArg.path \in Downwards
  <2>1. Here.path = <<>> /\ <<>> \in Downwards
    BY DEF Here, Downwards
  <2>2. RemoteArgs \subseteq [absolute : BOOLEAN, path : Downwards]
    BY DEF Orderly, Downwards
  <2>3. ASSUME NEW a \in RemoteArgs PROVE a.path \in Downwards
    BY <2>2
  <2> QED
    BY <1>1, <2>1, <2>3
<1>4. ResolveLocalPath(c) \in Seq(Name)
  BY <1>2, Joined DEF ResolveLocalPath
<1>5. /\ Root(c) \in {c.cwd, Workspace}
      /\ (~(c.flag # NoFlag /\ ~c.flag.vscode) => Root(c) = Workspace)
  <2>1. CASE c.flag = NoFlag
    <3>1. ResolveConfigPath(c) = [dir |-> FindConfigFile(c.cwd, {Workspace}), vscode |-> TRUE]
      BY <2>1 DEF ResolveConfigPath
    <3>2. /\ ResolveConfigPath(c).dir = FindConfigFile(c.cwd, {Workspace})
          /\ ResolveConfigPath(c).vscode
      BY <3>1
    <3>3. ResolveConfigPath(c).dir = Workspace
      BY <1>2, <3>2, Found
    <3> QED
      BY <2>1, <3>2, <3>3 DEF Root, WorkspaceRootFor
  <2>2. CASE c.flag # NoFlag
    <3>1. ResolveConfigPath(c) = c.flag /\ c.flag \in ConfigFlags
      BY <1>1, <2>2 DEF ResolveConfigPath
    <3>2. c.flag.vscode => c.flag.dir = Workspace
      BY <3>1 DEF Orderly
    <3> QED
      BY <2>2, <3>1, <3>2 DEF Root, WorkspaceRootFor
  <2> QED
    BY <2>1, <2>2
<1> QED
  BY <1>1, <1>2, <1>3, <1>4, <1>5

LEMMA RemoteArgument ==
  ASSUME Orderly, NEW arg, arg.path \in Downwards, NEW base \in RemotePaths
  PROVE  /\ ResolveRemotePath(arg, base) \in Seq(Part)
         /\ ~arg.absolute \/ InsideBase(arg.path, base) =>
              \E rest \in Downwards : ResolveRemotePath(arg, base) = TrimRight(base) \o rest
<1>1. CASE arg.absolute
  BY <1>1, NamesOnly, Inside DEF ResolveRemotePath
<1>2. CASE ~arg.absolute
  BY <1>2, Below DEF ResolveRemotePath
<1> QED
  BY <1>1, <1>2

\* What every command of the command line keeps to.
Answers(c, base, req) ==
  /\ req \in Requests
  /\ ~CliStrays(c, base) => Fits(req, Clean(base))
  /\ ~CliStrays(c, base) /\ ~c.remoteArg.absolute => Confined(req, Clean(base))

LEMMA NothingAnswers ==
  ASSUME Orderly, NEW c, NEW base PROVE Answers(c, base, Nothing)
BY NothingFits DEF Answers

\* The commands that send a local path to where localToRemote says.
LEMMA SendAnswers ==
  ASSUME Orderly, NEW c, NEW base \in RemotePaths, NEW op \in Transfers,
         NEW l \in Seq(Name), NEW root \in Seq(Name),
         ~CliStrays(c, base) => root = Workspace /\ IsPrefix(Workspace, l)
  PROVE  Answers(c, base, Request(op, l, LocalToRemote(l, root, base)))
<1> DEFINE r == LocalToRemote(l, root, base)  req == Request(op, l, r)
<1>1. r \in Seq(Part) /\ op \in Ops
  BY OutwardsType DEF Ops
<1>2. req \in Requests
  <2> HIDE DEF r
  <2> QED
    BY <1>1, RequestType
<1>3. ~CliStrays(c, base) => Fits(req, Clean(base)) /\ Confined(req, Clean(base))
  BY UploadFits
<1> HIDE DEF req
<1>4. Answers(c, base, req)
  BY <1>2, <1>3 DEF Answers
<1> QED
  BY <1>4 DEF req

LEMMA DownloadAnswers ==
  ASSUME Orderly, NEW c, c.cmd = "download", c.cwd \in Seq(Name), c.remoteArg.path \in Downwards,
         ResolveLocalPath(c) \in Seq(Name), Root(c) \in Seq(Name), NEW base \in RemotePaths,
         ~CliStrays(c, base) => Root(c) = Workspace
  PROVE  Answers(c, base, DownloadCmd(c, base))
<1> DEFINE r == ResolveRemotePath(c.remoteArg, base)
           home == DefaultLocalDestination(r, base, Root(c), c.cwd)
           l == IF c.arg # <<>> THEN ResolveLocalPath(c) ELSE home
           req == Request("download", l, r)
<1>1. DownloadCmd(c, base) = IF c.dryRun THEN Nothing ELSE req
  BY DEF DownloadCmd
<1>2. r \in Seq(Part) /\ "download" \in Ops
  BY RemoteArgument DEF Ops, Transfers
<1>3. home \in Seq(Name)
  <2> HIDE DEF r
  <2> QED
    BY <1>2, HomewardsType
<1>4. l \in Seq(Name)
  BY <1>3
<1>5. ASSUME ~CliStrays(c, base)
      PROVE  \E rest \in Downwards : r = TrimRight(base) \o rest /\ l = Workspace \o Clean(rest)
  <2>1. c.arg = <<>> /\ (~c.remoteArg.absolute \/ InsideBase(c.remoteArg.path, base))
    BY <1>5 DEF CliStrays
  <2>2. PICK rest \in Downwards : r = TrimRight(base) \o rest
    BY <2>1, RemoteArgument
  <2>3. l = DefaultLocalDestination(r, base, Workspace, c.cwd)
    BY <1>5, <2>1
  <2> HIDE DEF r, l
  <2>4. l = Workspace \o Clean(rest)
    BY <2>2, <2>3, Homewards
  <2> QED
    BY <2>2, <2>4
<1> HIDE DEF r, l
<1>6. req \in Requests
  BY <1>2, <1>4, RequestType
<1>7. ~CliStrays(c, base) => Fits(req, Clean(base)) /\ Confined(req, Clean(base))
  BY <1>5, DownloadFits
<1> HIDE DEF req
<1>8. Answers(c, base, req)
  BY <1>6, <1>7 DEF Answers
<1> QED
  BY <1>1, <1>8, NothingAnswers

\* The commands that remove or make a directory.
LEMMA RemoteAnswers ==
  ASSUME Orderly, NEW c, NEW op \in {"delete", "mkdir"}, c.remoteArg.path \in Downwards,
         NEW base \in RemotePaths
  PROVE  Answers(c, base, Request(op, Workspace, ResolveRemotePath(c.remoteArg, base)))
<1> DEFINE r == ResolveRemotePath(c.remoteArg, base)  req == Request(op, Workspace, r)
<1>1. r \in Seq(Part) /\ op \in Ops /\ Workspace \in Seq(Name) /\ op \notin Transfers
  BY RemoteArgument DEF Ops, Orderly, Transfers, OneWay
<1>2. ASSUME ~c.remoteArg.absolute PROVE IsPrefix(Clean(base), Resolve(r))
  <2>1. PICK rest \in Downwards : r = TrimRight(base) \o rest
    BY <1>2, RemoteArgument
  <2> HIDE DEF r
  <2>2. Resolve(r) = Clean(base) \o Clean(rest) /\ Clean(rest) \in Seq(Name)
    BY <2>1, Below
  <2>3. Clean(base) \in Seq(Name)
    BY BaseIs
  <2> QED
    BY <2>2, <2>3, Chain
<1> HIDE DEF r
<1>3. req \in Requests
  BY <1>1, RequestType
<1>4. req.op = op /\ req.remote = Resolve(r)
  BY DEF Request
<1> HIDE DEF req
<1>5. Answers(c, base, req)
  BY <1>1, <1>2, <1>3, <1>4 DEF Answers, Fits, Confined
<1> QED
  BY <1>5 DEF req, r

LEMMA CliIs ==
  ASSUME Orderly, NEW cmd \in CliCommands, NEW c \in Calls(cmd), NEW base \in RemotePaths,
         ResolveConfigPath(c).dir # NoDir
  PROVE  Answers(c, base, Cli(c, base))
<1> DEFINE l == ResolveLocalPath(c)
           ok == ~CliStrays(c, base)
<1>1. /\ c.cmd = cmd /\ c.cwd \in Seq(Name) /\ l \in Seq(Name) /\ Root(c) \in Seq(Name)
      /\ c.remoteArg.path \in Downwards /\ c.delete \in BOOLEAN
      /\ ok => Root(c) = Workspace
  BY CallIs DEF CliStrays
<1>2. Answers(c, base, Nothing)
  BY NothingAnswers
<1>3. CASE cmd = "upload"
  <2>1. Cli(c, base) = IF c.dryRun THEN Nothing
                       ELSE Request("upload", l, LocalToRemote(l, Root(c), base))
    BY <1>1, <1>3 DEF Cli, UploadCmd, OneWay
  <2>2. "upload" \in Transfers /\ (ok => IsPrefix(Workspace, l))
    BY <1>1, <1>3 DEF CliStrays, Transfers
  <2> QED
    BY <1>1, <1>2, <2>1, <2>2, SendAnswers
<1>4. CASE cmd \in OneWay
  <2> DEFINE up == Request(cmd, l, LocalToRemote(l, Root(c), base))
             req == Cli(c, base)
  <2>1. req = [up EXCEPT !.delete = c.delete]
    BY <1>1, <1>4 DEF Cli, SyncCmd, OneWay
  <2>2. cmd \in Transfers /\ (ok => IsPrefix(Workspace, l))
    BY <1>1, <1>4 DEF CliStrays, Transfers
  <2>3. Answers(c, base, up)
    BY <1>1, <2>2, SendAnswers
  <2> HIDE DEF up, req
  <2>4. req \in Requests /\ req.op = up.op /\ req.local = up.local /\ req.remote = up.remote
    BY <1>1, <2>1, <2>3 DEF Requests, Answers
  <2>5. Answers(c, base, req)
    BY <2>3, <2>4 DEF Answers, Fits, Confined, Matched
  <2> QED
    BY <2>5 DEF req
<1>5. CASE cmd = "download"
  <2>1. Cli(c, base) = DownloadCmd(c, base)
    BY <1>1, <1>5 DEF Cli, OneWay
  <2> QED
    BY <1>1, <1>5, <2>1, DownloadAnswers
<1>6. CASE cmd \in {"delete", "mkdir"}
  <2>1. \/ Cli(c, base) = Nothing
        \/ Cli(c, base) = Request(cmd, Workspace, ResolveRemotePath(c.remoteArg, base))
    BY <1>1, <1>6 DEF Cli, DeleteCmd, MkdirCmd, OneWay
  <2> QED
    BY <1>1, <1>2, <1>6, <2>1, RemoteAnswers
<1>7. CASE cmd = "watch"
  <2>1. Cli(c, base) = IF c.dryRun THEN Nothing ELSE Request("upload", l, LocalToRemote(l, l, base))
    BY <1>1, <1>7 DEF Cli, WatchCmd, OneWay
  <2>2. ok => l = Workspace
    BY <1>1, <1>7 DEF CliStrays
  <2>3. "upload" \in Transfers /\ IsPrefix(l, l)
    BY <1>1, Chain DEF Transfers
  <2> HIDE DEF l
  <2> QED
    BY <1>1, <1>2, <2>1, <2>2, <2>3, SendAnswers
<1>8. CASE cmd = "list"
  BY <1>1, <1>2, <1>8 DEF Cli, OneWay
<1> QED
  BY <1>3, <1>4, <1>5, <1>6, <1>7, <1>8 DEF CliCommands, OneWay

--------------------------------------------------------------------------------
(***************************************************************************)
(* The editor.                                                             *)
(***************************************************************************)
LEMMA EditorIs ==
  ASSUME Orderly, NEW e, e.cmd \in EditorCommands,
         e.localPath \in Seq(Name) \cup {NoDir}, e.localPath = NoDir => e.cmd \in ProjectCommands,
         e.remotePath \in Downwards, NEW root \in Seq(Name),
         NEW profile, profile.delete \in BOOLEAN,
         NEW base \in RemotePaths, base = profile.remotePath
  PROVE  LET req == RunCommand(e, root, profile) IN
         /\ req \in Requests
         /\ ~EditorStrays(e, base) /\ root = Workspace => Fits(req, Clean(base))
<1> DEFINE l == e.localPath  r == e.remotePath
           ok == ~EditorStrays(e, base) /\ root = Workspace
           req == RunCommand(e, root, profile)
<1>1. /\ base \in Seq(Part) /\ r \in Seq(Part) /\ Workspace \in Seq(Name)
      /\ Clean(base) \in Seq(Name) /\ Resolve(base) = Clean(base)
      /\ e.cmd \notin ProjectCommands => l \in Seq(Name)
  <2>1. <<>> \in Downwards
    BY DEF Downwards
  <2> QED
    BY <2>1, BaseIs, Below, NamesOnly DEF Orderly, ProjectCommands
<1>2. CASE e.cmd = "upload"
  <2> DEFINE to == LocalToRemote(l, root, base)
  <2>1. req = Request("upload", l, to)
    BY <1>2 DEF RunCommand, ProjectCommands, OneWay
  <2>2. /\ l \in Seq(Name) /\ to \in Seq(Part)
        /\ "upload" \in Ops /\ "upload" \in Transfers
    <3>1. l \in Seq(Name)
      BY <1>1, <1>2 DEF ProjectCommands
    <3> QED
      BY <3>1, OutwardsType DEF Ops, Transfers
  <2>3. ok => IsPrefix(Workspace, l)
    BY <1>2 DEF EditorStrays
  <2>4. ok => Fits(req, Clean(base))
    BY <2>1, <2>2, <2>3, UploadFits
  <2> HIDE DEF to
  <2>5. req \in Requests
    BY <2>1, <2>2, RequestType
  <2> QED
    BY <2>4, <2>5
<1>3. CASE e.cmd = "download"
  <2> DEFINE home == RemoteToLocalPath(r, base, root)
  <2>1. req = Request("download", home, r)
    BY <1>3 DEF RunCommand, ProjectCommands, OneWay
  <2>2. home \in Seq(Name) /\ "download" \in Ops
    BY <1>1, HomewardsType DEF Ops, Transfers
  <2>3. ASSUME ok PROVE Fits(req, Clean(base))
    <3>1. InsideBase(r, base)
      BY <1>3, <2>3 DEF EditorStrays
    <3>2. PICK rest \in Downwards : r = TrimRight(base) \o rest
      BY <3>1, Inside
    <3>3. home = Workspace \o Clean(rest)
      <4>1. home = RemoteToLocalPath(TrimRight(base) \o rest, base, Workspace)
        BY <2>3, <3>2
      <4> HIDE DEF home
      <4> QED
        BY <4>1, Homewards
    <3> HIDE DEF home, r
    <3> QED
      BY <2>1, <3>2, <3>3, DownloadFits
  <2> HIDE DEF home
  <2>4. req \in Requests
    BY <1>1, <2>1, <2>2, RequestType
  <2> QED
    BY <2>3, <2>4
<1>4. CASE e.cmd \in ProjectCommands \cup OneWay
  <2> DEFINE home == ProjectLocal(e, root)
             from == IF e.cmd \in OneWay THEN l ELSE home
  <2>1. PICK op \in Transfers :
          \/ req = Request(op, from, base)
          \/ req = [Request(op, from, base) EXCEPT !.delete = profile.delete]
    <3>1. CASE e.cmd \in OneWay
      BY <1>4, <3>1 DEF RunCommand, Transfers, OneWay
    <3>2. CASE e.cmd \in ProjectCommands
      BY <1>4, <3>2 DEF RunCommand, Transfers, OneWay, ProjectCommands
    <3> QED
      BY <1>4, <3>1, <3>2
  <2>2. from \in Seq(Name) /\ op \in Ops
    BY <1>1, <1>4 DEF Ops, ProjectLocal, ProjectCommands, OneWay
  <2>3. ok => from = Workspace
    <3>1. ok => root = Workspace /\ l \in {Workspace, NoDir}
      BY <1>4 DEF EditorStrays
    <3>2. CASE e.cmd \in OneWay
      BY <3>1, <3>2 DEF ProjectCommands, OneWay
    <3>3. CASE e.cmd \in ProjectCommands
      BY <3>1, <3>3 DEF ProjectLocal, ProjectCommands, OneWay
    <3> QED
      BY <1>4, <3>2, <3>3
  <2> DEFINE up == Request(op, from, base)
  <2> HIDE DEF from, req
  <2>4. up \in Requests
    BY <1>1, <2>2, RequestType
  <2>5. up.op = op
    BY DEF Request
  <2>6. ok => Fits(up, Clean(base))
    <3>1. /\ Workspace = Workspace \o <<>> /\ Resolve(base) = Clean(base) \o <<>>
          /\ <<>> \in Seq(Name)
      BY <1>1
    <3>2. Fits(Request(op, Workspace \o <<>>, base), Clean(base))
      BY <3>1, RequestFits
    <3> QED
      BY <2>3, <3>1, <3>2
  <2>7. req = up \/ req = [up EXCEPT !.delete = profile.delete]
    BY <2>1
  <2> HIDE DEF up
  <2>8. req \in Requests /\ req.op = op /\ req.local = up.local /\ req.remote = up.remote
    BY <2>4, <2>5, <2>7 DEF Requests
  <2>9. ok => Fits(req, Clean(base))
    BY <2>5, <2>6, <2>8 DEF Fits, Matched
  <2> QED
    BY <2>8, <2>9 DEF req
<1>5. CASE e.cmd \in {"delete", "mkdir"}
  <2>1. req = Request(e.cmd, Workspace, r)
    BY <1>5 DEF RunCommand, ProjectCommands, OneWay
  <2>2. e.cmd \in Ops /\ e.cmd \notin Transfers
    BY <1>5 DEF Ops, Transfers, OneWay
  <2>3. req \in Requests
    BY <1>1, <2>1, <2>2, RequestType
  <2>4. req.op = e.cmd
    BY <2>1 DEF Request
  <2> QED
    BY <2>2, <2>3, <2>4 DEF Fits
<1>6. CASE e.cmd = "list"
  <2>1. req = Nothing
    BY <1>6 DEF RunCommand, ProjectCommands, OneWay
  <2> QED
    BY <2>1, NothingFits
<1> QED
  BY <1>2, <1>3, <1>4, <1>5, <1>6 DEF EditorCommands, ProjectCommands, OneWay

--------------------------------------------------------------------------------
(***************************************************************************)
(* What a request leaves.                                                  *)
(***************************************************************************)
Trees == DOMAIN local \subseteq Seq(Name) /\ DOMAIN remote \subseteq Seq(Name)

\* A request changes one of the trees, as Change says, or neither.
LEMMA EffectIs ==
  ASSUME NEW req \in Requests, Trees, Apply(req)
  PROVE  LET l == req.local   r == req.remote IN
         \/ local' = local /\ remote' = remote
         \/ /\ req.op \in {"upload", "localToRemote"}
            /\ local' = local /\ Change(local, l, remote, r, remote')
         \/ /\ req.op \in {"download", "remoteToLocal"}
            /\ remote' = remote /\ Change(remote, r, local, l, local')
         \/ /\ req.op \in {"delete", "mkdir"}
            /\ local' = local /\ Change(<<>>, <<>>, remote, r, remote')
<1> DEFINE l == req.local   r == req.remote
<1>1. l \in Seq(Name) /\ r \in Seq(Name) /\ req.op \in Ops
  BY DEF Requests
<1>2. DOMAIN local \subseteq Seq(Name) /\ DOMAIN remote \subseteq Seq(Name)
  BY DEF Trees
<1>3. /\ Change(local, l, remote, r, Copied(local, l, remote, r))
      /\ Change(remote, r, local, l, Copied(remote, r, local, l))
  BY <1>1, <1>2, CopiedChange
<1>4. /\ Change(local, l, remote, r, Synced(local, l, remote, r, req.delete))
      /\ Change(remote, r, local, l, Synced(remote, r, local, l, req.delete))
  BY <1>1, <1>2, SyncedChange
<1>5. /\ Change(<<>>, <<>>, remote, r, Removed(remote, r))
      /\ Change(<<>>, <<>>, remote, r, Made(remote, r))
  BY <1>1, <1>2, RemovedChange, MadeChange
<1> HIDE DEF l, r
<1>6. Effect(req) \in
        {<<local, remote>>, <<local, Copied(local, l, remote, r)>>,
         <<Copied(remote, r, local, l), remote>>,
         <<local, Synced(local, l, remote, r, req.delete)>>,
         <<Synced(remote, r, local, l, req.delete), remote>>,
         <<local, Removed(remote, r)>>, <<local, Made(remote, r)>>}
  BY DEF Effect, l, r
<1>7. local' = Effect(req)[1] /\ remote' = Effect(req)[2]
  BY DEF Apply
<1>8. CASE req.op = "upload"
  <2>1. Effect(req) \in {<<local, remote>>, <<local, Copied(local, l, remote, r)>>}
    BY <1>8 DEF Effect, l, r
  <2> QED
    BY <1>3, <1>7, <1>8, <2>1 DEF l, r
<1>9. CASE req.op = "download"
  <2>1. Effect(req) \in {<<local, remote>>, <<Copied(remote, r, local, l), remote>>}
    BY <1>9 DEF Effect, l, r
  <2> QED
    BY <1>3, <1>7, <1>9, <2>1 DEF l, r
<1>10. CASE req.op = "localToRemote"
  <2>1. Effect(req) = <<local, Synced(local, l, remote, r, req.delete)>>
    BY <1>10 DEF Effect, l, r
  <2> QED
    BY <1>4, <1>7, <1>10, <2>1 DEF l, r
<1>11. CASE req.op = "remoteToLocal"
  <2>1. Effect(req) = <<Synced(remote, r, local, l, req.delete), remote>>
    BY <1>11 DEF Effect, l, r
  <2> QED
    BY <1>4, <1>7, <1>11, <2>1 DEF l, r
<1>12. CASE req.op = "delete"
  <2>1. Effect(req) = <<local, Removed(remote, r)>>
    BY <1>12 DEF Effect, l, r
  <2> QED
    BY <1>5, <1>7, <1>12, <2>1 DEF l, r
<1>13. CASE req.op = "mkdir"
  <2>1. Effect(req) \in {<<local, remote>>, <<local, Made(remote, r)>>}
    BY <1>13 DEF Effect, l, r
  <2> QED
    BY <1>5, <1>7, <1>13, <2>1 DEF l, r
<1>14. CASE req.op = "list"
  <2>1. Effect(req) = <<local, remote>>
    BY <1>14 DEF Effect, l, r
  <2> QED
    BY <1>7, <2>1
<1> QED
  BY <1>1, <1>8, <1>9, <1>10, <1>11, <1>12, <1>13, <1>14 DEF Ops, Transfers, OneWay

LEMMA EffectType ==
  ASSUME NEW req \in Requests, Trees, Apply(req) PROVE Trees'
BY EffectIs DEF Trees, Change

Homes ==
  /\ InOwnPlace(local, Workspace)
  /\ \A base \in RemoteBases : InOwnPlace(remote, base)

LEMMA BasesClean ==
  ASSUME Orderly PROVE RemoteBases \subseteq Seq(Name)
<1> SUFFICES ASSUME NEW b \in RemoteBases PROVE b \in Seq(Name)
  OBVIOUS
<1>1. PICK c \in Configs : b \in {Clean(c[i].remotePath) : i \in DOMAIN c}
  BY DEF RemoteBases
<1>2. PICK i \in DOMAIN c : b = Clean(c[i].remotePath)
  BY <1>1
<1>3. c[i].remotePath \in RemotePaths
  BY DEF RemotePaths
<1> QED
  BY <1>2, <1>3, BaseIs

LEMMA Associative ==
  ASSUME NEW S, NEW a \in Seq(S), NEW b \in Seq(S), NEW c \in Seq(S)
  PROVE  b \o c \in Seq(S) /\ (a \o b) \o c = a \o (b \o c)
<1> DEFINE x == (a \o b) \o c  y == a \o (b \o c)
<1>1. /\ Len(a) \in Nat /\ Len(b) \in Nat /\ Len(c) \in Nat
      /\ a \o b \in Seq(S) /\ b \o c \in Seq(S)
      /\ Len(a \o b) = Len(a) + Len(b) /\ Len(b \o c) = Len(b) + Len(c)
  OBVIOUS
<1>2. /\ x \in Seq(S) /\ y \in Seq(S)
      /\ Len(x) = Len(a) + Len(b) + Len(c) /\ Len(y) = Len(x)
  BY <1>1
<1>3. ASSUME NEW i \in 1 .. Len(x) PROVE x[i] = y[i]
  <2>1. CASE i <= Len(a)
    <3>1. x[i] = (a \o b)[i] /\ (a \o b)[i] = a[i] /\ y[i] = a[i]
      BY <1>1, <1>2, <2>1
    <3> QED
      BY <3>1
  <2>2. CASE Len(a) < i /\ i <= Len(a) + Len(b)
    <3>1. x[i] = (a \o b)[i] /\ (a \o b)[i] = b[i - Len(a)]
      BY <1>1, <1>2, <2>2
    <3>2. y[i] = (b \o c)[i - Len(a)] /\ (b \o c)[i - Len(a)] = b[i - Len(a)]
      BY <1>1, <1>2, <2>2
    <3> QED
      BY <3>1, <3>2
  <2>3. CASE Len(a) + Len(b) < i
    <3>1. x[i] = c[i - (Len(a) + Len(b))]
      BY <1>1, <1>2, <2>3
    <3>2. y[i] = (b \o c)[i - Len(a)] /\ (b \o c)[i - Len(a)] = c[(i - Len(a)) - Len(b)]
      BY <1>1, <1>2, <2>3
    <3> QED
      BY <1>1, <1>2, <3>1, <3>2
  <2> QED
    BY <1>1, <1>2, <2>1, <2>2, <2>3
<1> HIDE DEF x, y
<1>4. x = y
  BY <1>2, <1>3
<1> QED
  BY <1>1, <1>4 DEF x, y

\* What lies below two counterparts corresponds as well.
LEMMA Beneath ==
  ASSUME NEW S, NEW top \in Seq(S), NEW rel \in Seq(S), NEW s \in Seq(S)
  PROVE  LET p == (top \o rel) \o s
         IN p \in Seq(S) /\ IsPrefix(top, p) /\ From(p, Len(top) + 1) = rel \o s
<1> DEFINE t == rel \o s
<1>1. (top \o rel) \o s = top \o t
  BY Associative
<1>2. t \in Seq(S)
  OBVIOUS
<1> HIDE DEF t
<1>3. top \o t \in Seq(S) /\ IsPrefix(top, top \o t) /\ From(top \o t, Len(top) + 1) = t
  BY <1>2, ConcatFacts
<1> QED
  BY <1>1, <1>3 DEF t

Corresponds(p, top, q, place) ==
  /\ p \in Seq(Name) /\ IsPrefix(top, p) /\ q \in Seq(Name) /\ IsPrefix(place, q)
  /\ Moved(q, place, top) = p /\ Moved(p, top, top) = p

LEMMA Counterparts ==
  ASSUME NEW place \in Seq(Name), NEW top \in Seq(Name), NEW rel \in Seq(Name), NEW s \in Seq(Name)
  PROVE  Corresponds((top \o rel) \o s, top, (place \o rel) \o s, place)
<1> DEFINE t == rel \o s
           p == (top \o rel) \o s
           q == (place \o rel) \o s
<1>1. p \in Seq(Name) /\ IsPrefix(top, p) /\ From(p, Len(top) + 1) = t
  BY Beneath, SMTT(30)
<1>2. q \in Seq(Name) /\ IsPrefix(place, q) /\ From(q, Len(place) + 1) = t
  BY Beneath, SMTT(30)
<1>3. p = top \o t
  BY Associative
<1> HIDE DEF p, q, t
<1>4. Moved(q, place, top) = p /\ Moved(p, top, top) = p
  BY <1>1, <1>2, <1>3 DEF Moved
<1> QED
  BY <1>1, <1>2, <1>4 DEF p, q, Corresponds

LEMMA EffectInPlace ==
  ASSUME Orderly, NEW req \in Requests, Trees, Apply(req), Homes,
         NEW place \in RemoteBases, Fits(req, place)
  PROVE  Homes'
<1> DEFINE l == req.local   r == req.remote
<1>1. /\ l \in Seq(Name) /\ r \in Seq(Name) /\ Workspace \in Seq(Name)
      /\ RemoteBases \subseteq Seq(Name)
  BY BasesClean DEF Requests, Orderly
<1>2. CASE local' = local /\ remote' = remote
  BY <1>2 DEF Homes, InOwnPlace, Under
<1>3. ASSUME req.op \in Transfers
      PROVE  \E rel \in Seq(Name) : l = Workspace \o rel /\ r = place \o rel
  BY <1>3 DEF Fits, Matched
<1>4. CASE /\ req.op \in {"upload", "localToRemote"}
           /\ local' = local /\ Change(local, l, remote, r, remote')
  <2>1. PICK rel \in Seq(Name) : l = Workspace \o rel /\ r = place \o rel
    BY <1>3, <1>4 DEF Transfers, OneWay
  <2>2. ASSUME NEW c \in RemoteBases, NEW s \in Seq(Name),
               l \o s \in DOMAIN local, IsPrefix(c, r \o s)
        PROVE  local[l \o s] \in {Moved(r \o s, c, Workspace), Dir}
    <3> DEFINE p == l \o s  q == r \o s
    <3>1. Corresponds(p, Workspace, q, place)
      <4>1. place \in Seq(Name)
        BY <1>1
      <4>2. Corresponds((Workspace \o rel) \o s, Workspace, (place \o rel) \o s, place)
        BY <1>1, <4>1, Counterparts
      <4> QED
        BY <2>1, <4>2
    <3>2. p \in DOMAIN local /\ IsPrefix(c, q)
      BY <2>2
    <3> HIDE DEF p, q
    <3>3. c = place
      <4>1. IsPrefix(c, place) \/ IsPrefix(place, c)
        BY <1>1, <3>1, <3>2, Chain DEF Corresponds
      <4> QED
        BY <4>1 DEF Orderly
    <3>4. local[p] \in {Moved(q, c, Workspace), Dir}
      BY <3>1, <3>2, <3>3 DEF Homes, InOwnPlace, Under, Corresponds
    <3> QED
      BY <3>4 DEF p, q
  <2>3. \A c \in RemoteBases : InOwnPlace(remote', c)
    <3> HIDE DEF l, r
    <3> QED
      BY <1>4, <2>2, ChangeInPlace DEF Homes
  <2> QED
    BY <1>4, <2>3 DEF Homes, InOwnPlace, Under
<1>5. CASE /\ req.op \in {"download", "remoteToLocal"}
           /\ remote' = remote /\ Change(remote, r, local, l, local')
  <2>1. PICK rel \in Seq(Name) : l = Workspace \o rel /\ r = place \o rel
    BY <1>3, <1>5 DEF Transfers, OneWay
  <2>2. ASSUME NEW s \in Seq(Name), r \o s \in DOMAIN remote
        PROVE  remote[r \o s] \in {Moved(l \o s, Workspace, Workspace), Dir}
    <3> DEFINE p == l \o s  q == r \o s
    <3>1. Corresponds(p, Workspace, q, place)
      <4>1. place \in Seq(Name)
        BY <1>1
      <4>2. Corresponds((Workspace \o rel) \o s, Workspace, (place \o rel) \o s, place)
        BY <1>1, <4>1, Counterparts
      <4> QED
        BY <2>1, <4>2
    <3>2. q \in DOMAIN remote
      BY <2>2
    <3> HIDE DEF p, q
    <3>3. remote[q] \in {Moved(p, Workspace, Workspace), Dir}
      BY <3>1, <3>2 DEF Homes, InOwnPlace, Under, Corresponds
    <3> QED
      BY <3>3 DEF p, q
  <2>3. InOwnPlace(local', Workspace)
    <3> HIDE DEF l, r
    <3> QED
      BY <1>5, <2>2, ChangeInPlace DEF Homes
  <2> QED
    BY <1>5, <2>3 DEF Homes, InOwnPlace, Under
<1>6. CASE /\ req.op \in {"delete", "mkdir"}
           /\ local' = local /\ Change(<<>>, <<>>, remote, r, remote')
  <2>1. \A s : ~(<<>> \o s \in DOMAIN <<>>)
    OBVIOUS
  <2>2. \A c \in RemoteBases : InOwnPlace(remote', c)
    <3> HIDE DEF r
    <3> QED
      BY <1>6, <2>1, ChangeInPlace DEF Homes
  <2> QED
    BY <1>6, <2>2 DEF Homes, InOwnPlace, Under
<1> QED
  BY <1>2, <1>4, <1>5, <1>6, EffectIs

LEMMA EffectInside ==
  ASSUME Orderly, NEW req \in Requests, Trees, Apply(req), NEW place \in Seq(Name),
         Fits(req, place), Confined(req, place)
  PROVE  OnlyBelow(place, remote, remote') /\ OnlyBelow(Workspace, local, local')
<1> DEFINE l == req.local   r == req.remote
<1>1. /\ l \in Seq(Name) /\ r \in Seq(Name) /\ Workspace \in Seq(Name)
      /\ DOMAIN local \subseteq Seq(Name) /\ DOMAIN remote \subseteq Seq(Name)
  BY DEF Requests, Orderly, Trees
<1>2. \A tree, p : OnlyBelow(p, tree, tree)
  BY DEF OnlyBelow, Touched
<1>3. ASSUME req.op \in Transfers PROVE IsPrefix(Workspace, l) /\ IsPrefix(place, r)
  BY <1>1, <1>3, Chain DEF Fits, Matched
<1>4. CASE local' = local /\ remote' = remote
  BY <1>2, <1>4
<1>5. CASE /\ req.op \in {"upload", "localToRemote"}
           /\ local' = local /\ Change(local, l, remote, r, remote')
  <2>1. IsPrefix(place, r)
    BY <1>3, <1>5 DEF Transfers, OneWay
  <2> QED
    BY <1>1, <1>2, <1>5, <2>1, ChangeBelow
<1>6. CASE /\ req.op \in {"download", "remoteToLocal"}
           /\ remote' = remote /\ Change(remote, r, local, l, local')
  <2>1. IsPrefix(Workspace, l)
    BY <1>3, <1>6 DEF Transfers, OneWay
  <2> QED
    BY <1>1, <1>2, <1>6, <2>1, ChangeBelow
<1>7. CASE /\ req.op \in {"delete", "mkdir"}
           /\ local' = local /\ Change(<<>>, <<>>, remote, r, remote')
  <2>1. IsPrefix(place, r)
    BY <1>7 DEF Confined
  <2> QED
    BY <1>1, <1>2, <1>7, <2>1, ChangeBelow
<1> QED
  BY <1>4, <1>5, <1>6, <1>7, EffectIs

--------------------------------------------------------------------------------
(***************************************************************************)
(* The invariant: what has connected keeps to what it was checked for, and *)
(* every file is in its place as long as no command strayed.               *)
(***************************************************************************)
Connected ==
  process # Idle =>
    LET place == Clean(process.base) IN
    /\ process.request \in Requests /\ place \in RemoteBases
    /\ ~strayed \/ process.inside => Fits(process.request, place)
    /\ process.inside => Confined(process.request, place)

Inv ==
  /\ Trees
  /\ config \in Configs
  /\ editor.root \in EditorRoots /\ editor.profiles \in Configs \cup {<<>>}
  /\ Connected
  /\ InPlace

LEMMA InitInv == ASSUME Orderly, Init PROVE Inv
<1>1. Trees
  BY DEF Init, Trees, Orderly
<1>2. config \in Configs /\ editor.root \in EditorRoots /\ editor.profiles \in Configs \cup {<<>>}
  BY DEF Init, Initialize
<1>3. Connected
  BY DEF Init, Connected
<1>4. InPlace
  BY DEF Init, InPlace, Orderly
<1> QED
  BY <1>1, <1>2, <1>3, <1>4 DEF Inv

LEMMA StartInv ==
  ASSUME Orderly, Inv, NEW cmd \in CliCommands, NEW c \in Calls(cmd), Start(c)
  PROVE  Inv'
<1> DEFINE base == SelectProfile(config, c.profile).remotePath
<1>1. ResolveConfigPath(c).dir # NoDir /\ base \in RemotePaths
  BY Selected DEF Start, Inv
<1>2. Answers(c, base, Cli(c, base)) /\ Clean(base) \in RemoteBases
  BY <1>1, CliIs, BaseIs
<1>3. /\ process'.request = Cli(c, base) /\ process'.base = base
      /\ process'.inside => ~c.remoteArg.absolute /\ ~CliStrays(c, base)
      /\ strayed' = (strayed \/ CliStrays(c, base))
      /\ UNCHANGED <<local, remote, config, editor>>
  BY DEF Start
<1> HIDE DEF base
<1>4. Connected'
  BY <1>2, <1>3 DEF Connected, Answers
<1>5. InPlace'
  BY <1>3 DEF Inv, InPlace
<1> QED
  BY <1>3, <1>4, <1>5 DEF Inv, Trees

LEMMA RunInv ==
  ASSUME Orderly, Inv, Run PROVE Inv'
<1> DEFINE req == process.request  place == Clean(process.base)
<1>1. /\ Apply(req) /\ process' = Idle /\ UNCHANGED <<config, editor, strayed>>
      /\ req \in Requests /\ place \in RemoteBases /\ (~strayed => Fits(req, place)) /\ Trees
  BY DEF Run, Inv, Connected
<1>2. Connected'
  BY <1>1 DEF Connected
<1> HIDE DEF req, place
<1>3. Trees'
  BY <1>1, EffectType
<1>4. InPlace'
  <2>1. Homes /\ Fits(req, place) => Homes'
    BY <1>1, EffectInPlace
  <2> QED
    BY <1>1, <2>1 DEF Inv, InPlace, Homes
<1> QED
  BY <1>1, <1>2, <1>3, <1>4 DEF Inv

LEMMA ExecuteCommandInv ==
  ASSUME Orderly, Inv, NEW e, e.cmd \in EditorCommands,
         e.localPath \in Seq(Name) \cup {NoDir}, e.localPath = NoDir => e.cmd \in ProjectCommands,
         e.remotePath \in Downwards, ExecuteCommand(e)
  PROVE  Inv'
<1> DEFINE profile == SelectProfile(editor.profiles, e.configName)
           base == profile.remotePath
           req == RunCommand(e, editor.root, profile)
<1>1. base \in RemotePaths /\ profile.delete \in BOOLEAN /\ editor.root \in Seq(Name)
  BY Selected DEF ExecuteCommand, Inv, Orderly
<1>2. /\ Apply(req) /\ strayed' = (strayed \/ EditorStrays(e, base))
      /\ UNCHANGED <<config, editor, process>>
  BY DEF ExecuteCommand
<1>3. /\ req \in Requests /\ Clean(base) \in RemoteBases /\ Trees
      /\ ~EditorStrays(e, base) /\ editor.root = Workspace => Fits(req, Clean(base))
  <2>1. base = profile.remotePath
    OBVIOUS
  <2> HIDE DEF base, profile
  <2> QED
    BY <1>1, <2>1, EditorIs, BaseIs DEF Inv
<1> HIDE DEF profile, base, req
<1>4. Trees'
  BY <1>2, <1>3, EffectType
<1>5. Connected'
  BY <1>2 DEF Inv, Connected
<1>6. InPlace'
  <2>1. Homes /\ Fits(req, Clean(base)) => Homes'
    BY <1>2, <1>3, EffectInPlace
  <2> QED
    BY <1>2, <1>3, <2>1 DEF Inv, InPlace, Homes
<1> QED
  BY <1>2, <1>4, <1>5, <1>6 DEF Inv

LEMMA LoseInv == ASSUME Orderly, Inv, Lose PROVE Inv'
<1>1. PICK f : local' = Removed(local, f)
  BY DEF Lose
<1>2. DOMAIN local' \subseteq DOMAIN local /\ \A q \in DOMAIN local' : local'[q] = local[q]
  BY <1>1 DEF Removed
<1>3. UNCHANGED <<remote, config, editor, process, strayed>>
  BY DEF Lose
<1>4. Trees'
  BY <1>2, <1>3 DEF Inv, Trees
<1>5. InPlace'
  BY <1>2, <1>3 DEF Inv, InPlace, InOwnPlace, Under
<1>6. Connected'
  BY <1>3 DEF Inv, Connected
<1> QED
  BY <1>3, <1>4, <1>5, <1>6 DEF Inv

LEMMA NextInv == ASSUME Orderly, Inv, [Next]_vars PROVE Inv'
<1>1. CASE UNCHANGED vars
  BY <1>1 DEF vars, Inv, Trees, Connected, InPlace
<1>2. ASSUME NEW cmd \in CliCommands, NEW c \in Calls(cmd), Start(c) PROVE Inv'
  BY <1>2, StartInv
<1>3. CASE Run
  BY <1>3, RunInv
<1>4. ASSUME NEW cmd \in EditorCommands, NEW l \in DOMAIN LocalTree \cup {NoDir},
             NEW r \in RemoteArgs, NEW name \in Profiles, l = NoDir => cmd \in ProjectCommands,
             ExecuteCommand([cmd |-> cmd, localPath |-> l, remotePath |-> r.path,
                             configName |-> name])
      PROVE  Inv'
  <2> DEFINE e == [cmd |-> cmd, localPath |-> l, remotePath |-> r.path, configName |-> name]
  <2>1. l \in Seq(Name) \cup {NoDir} /\ r.path \in Downwards
    BY DEF Orderly, Downwards
  <2>2. /\ e.cmd \in EditorCommands /\ e.remotePath \in Downwards
        /\ e.localPath \in Seq(Name) \cup {NoDir}
        /\ e.localPath = NoDir => e.cmd \in ProjectCommands
    BY <1>4, <2>1
  <2>3. ExecuteCommand(e)
    BY <1>4
  <2> HIDE DEF e
  <2> QED
    BY <2>2, <2>3, ExecuteCommandInv
<1>5. CASE EditConfig
  BY <1>5 DEF EditConfig, Inv, Trees, Connected, InPlace
<1>6. CASE Lose
  BY <1>6, LoseInv
<1>7. CASE Terminated
  BY <1>1, <1>7 DEF Terminated
<1> QED
  BY <1>1, <1>2, <1>3, <1>4, <1>5, <1>6, <1>7 DEF Next

LEMMA Invariant == ASSUME Orderly PROVE Spec => []Inv
BY InitInv, NextInv, PTL DEF Spec

\* The two front ends agree on where a file lives: whatever sequence of commands
\* from the command line (internal/cli/commands.go) and the editor
\* (internal/lsp/handler.go) has run, for all names, trees, directories, profiles
\* and arguments that are Orderly, every file is in its place, as long as nothing
\* out of place was named.
THEOREM InPlaceCorrect ==
  ASSUME Orderly PROVE Spec => []InPlace
<1>1. Inv => InPlace
  BY DEF Inv
<1> QED
  BY <1>1, Invariant, PTL

\* A command of the command line that names nothing outside the workspace touches
\* nothing outside it, on the server nothing outside the remotePath of its profile.
THEOREM StaysInsideCorrect ==
  ASSUME Orderly PROVE Spec => StaysInside
<1>1. ASSUME Inv, [Next]_vars, process # Idle, process' = Idle, process.inside
      PROVE  OnlyBelow(Clean(process.base), remote, remote') /\ OnlyBelow(Workspace, local, local')
  <2>1. Run
    BY <1>1 DEF Next, vars, Start, ExecuteCommand, EditConfig, Lose, Terminated
  <2>2. /\ process.request \in Requests /\ Trees /\ Clean(process.base) \in Seq(Name)
        /\ Fits(process.request, Clean(process.base))
        /\ Confined(process.request, Clean(process.base))
    BY <1>1, BasesClean DEF Inv, Connected
  <2> QED
    BY <2>1, <2>2, EffectInside DEF Run
<1>2. Inv /\ [Next]_vars =>
        [process # Idle /\ process' = Idle /\ process.inside =>
          /\ OnlyBelow(Clean(process.base), remote, remote')
          /\ OnlyBelow(Workspace, local, local')]_vars
  BY <1>1
<1> QED
  BY <1>2, Invariant, PTL DEF Spec, StaysInside

--------------------------------------------------------------------------------
(***************************************************************************)
(* The connections of the language server (ClientCache), for any           *)
(* goroutines, profiles and number of dropped connections.                 *)
(***************************************************************************)
\* Every profile has its key.
LEMMA KeyType == \A p \in Profile : Key(p) \in Keys
BY CacheAssumption DEF Key, Keys

\* Every step keeps each variable in its range.
THEOREM CacheTypeCorrect == CacheSpec => []TypeOK
<1> USE CacheAssumption, KeyType DEF TypeOK, Control, Ended
<1>1. CacheInit => TypeOK
  <2> SUFFICES ASSUME CacheInit PROVE TypeOK
    OBVIOUS
  <2>1. conn \in [Use -> {"none", "open", "dropped", "closed"}] /\ pc \in [Use -> Control]
    BY DEF CacheInit
  <2>2. clients \in [Keys -> Use \cup {Nobody}] /\ held \in [Use -> Use \cup {Nobody}]
    BY DEF CacheInit
  <2>3. mu = Nobody /\ prof \in [Use -> Profile]
    BY DEF CacheInit
  <2>4. shutdown \in BOOLEAN
    BY DEF CacheInit
  <2>5. drops \in 0 .. MaxDrops
    BY DEF CacheInit
  <2> QED
    BY <2>1, <2>2, <2>3, <2>4, <2>5
<1>2. TypeOK /\ [CacheNext]_cacheVars => TypeOK'
  <2> SUFFICES ASSUME TypeOK, [CacheNext]_cacheVars PROVE TypeOK'
    OBVIOUS
  <2>1. ASSUME NEW u \in Use, Begin(u) PROVE TypeOK'
    BY <2>1 DEF Begin
  <2>2. ASSUME NEW u \in Use, Hit(u) PROVE TypeOK'
    BY <2>2 DEF Hit
  <2>3. ASSUME NEW u \in Use, Miss(u) PROVE TypeOK'
    BY <2>3 DEF Miss
  <2>4. ASSUME NEW u \in Use, Connect(u) PROVE TypeOK'
    BY <2>4 DEF Connect
  <2>5. ASSUME NEW u \in Use, ConnectFails(u) PROVE TypeOK'
    BY <2>5 DEF ConnectFails
  <2>6. ASSUME NEW u \in Use, Install(u) PROVE TypeOK'
    BY <2>6 DEF Install
  <2>7. ASSUME NEW u \in Use, Finish(u) PROVE TypeOK'
    BY <2>7 DEF Finish
  <2>8. ASSUME NEW u \in Use, Drop(u) PROVE TypeOK'
    BY <2>8 DEF Drop
  <2>9. CASE CloseAll
    BY <2>9 DEF CloseAll
  <2>10. CASE UNCHANGED cacheVars
    BY <2>10 DEF cacheVars
  <2> QED
    BY <2>1, <2>2, <2>3, <2>4, <2>5, <2>6, <2>7, <2>8, <2>9, <2>10
       DEF CacheNext, Step, CacheTerminated
<1> QED
  BY <1>1, <1>2, PTL DEF CacheSpec

--------------------------------------------------------------------------------

Live(c) == conn[c] \in {"open", "dropped"}

\* The goroutine that connects has the lock, and found no client for its key.
LockHeld ==
  \A u \in Use :
    /\ pc[u] \in {"connect", "install"} => mu = u /\ clients[Key(prof[u])] = Nobody
    /\ pc[u] = "install" => Live(u)

\* A goroutine that has not connected yet has opened nothing.
NothingYet == \A u \in Use : pc[u] \in {"idle", "lock", "connect"} => conn[u] = "none"

\* The map holds only unclosed connections, each under its own profile's key.
MapSound ==
  \A k \in Keys : clients[k] # Nobody => Live(clients[k]) /\ Key(prof[clients[k]]) = k

\* A goroutine was given a connection opened for its own key.
HeldSound ==
  \A u \in Use : pc[u] = "using" => held[u] \in Use /\ Key(prof[held[u]]) = Key(prof[u])

CacheInv == LockHeld /\ NothingYet /\ MapSound /\ OneClient /\ HeldSound

\* The mutex makes lookup, connect and install one step for all other goroutines:
\* together these facts are inductive.
LEMMA CacheInvCorrect == CacheSpec => []CacheInv
<1> USE CacheAssumption, KeyType
    DEF TypeOK, Control, Ended, CacheInv, LockHeld,
        NothingYet, MapSound, OneClient, HeldSound, Live
<1>1. CacheInit => CacheInv
  BY DEF CacheInit
<1>2. TypeOK /\ CacheInv /\ [CacheNext]_cacheVars => CacheInv'
  <2> SUFFICES ASSUME TypeOK, CacheInv, [CacheNext]_cacheVars PROVE CacheInv'
    OBVIOUS
  <2>1. ASSUME NEW u \in Use, Begin(u) PROVE CacheInv'
    BY <2>1 DEF Begin
  <2>2. ASSUME NEW u \in Use, Hit(u) PROVE CacheInv'
    BY <2>2 DEF Hit
  <2>3. ASSUME NEW u \in Use, Miss(u) PROVE CacheInv'
    BY <2>3 DEF Miss
  <2>4. ASSUME NEW u \in Use, Connect(u) PROVE CacheInv'
    BY <2>4 DEF Connect
  <2>5. ASSUME NEW u \in Use, ConnectFails(u) PROVE CacheInv'
    BY <2>5 DEF ConnectFails
  <2>6. ASSUME NEW u \in Use, Install(u) PROVE CacheInv'
    BY <2>6 DEF Install
  <2>7. ASSUME NEW u \in Use, Finish(u) PROVE CacheInv'
    BY <2>7 DEF Finish
  <2>8. ASSUME NEW u \in Use, Drop(u) PROVE CacheInv'
    BY <2>8 DEF Drop
  <2>9. CASE CloseAll
    BY <2>9 DEF CloseAll, Cached
  <2>10. CASE UNCHANGED cacheVars
    BY <2>10 DEF cacheVars
  <2> QED
    BY <2>1, <2>2, <2>3, <2>4, <2>5, <2>6, <2>7, <2>8, <2>9, <2>10
       DEF CacheNext, Step, CacheTerminated
<1> QED
  BY <1>1, <1>2, CacheTypeCorrect, PTL DEF CacheSpec

\* At most one unclosed connection per key, and it is the one closeAll will find.
THEOREM OneClientCorrect == CacheSpec => []OneClient
BY CacheInvCorrect, PTL DEF CacheInv

\* Every command works on the server of its own profile, but for profiles that go by
\* one name: the map's key tells all others apart.
THEOREM OwnServerCorrect == CacheSpec => []OwnServer
<1>1. ASSUME NEW p \in Profile, NEW q \in Profile, Key(p) = Key(q) PROVE Mistakable(p, q)
  BY <1>1 DEF Key, Mistakable, Unnamed
<1>2. TypeOK /\ CacheInv => OwnServer
  BY <1>1 DEF TypeOK, CacheInv, HeldSound, OwnServer
<1> QED
  BY <1>2, CacheTypeCorrect, CacheInvCorrect, PTL

\* No command is given a client that closeAll had closed.
THEOREM NeverGivenClosedCorrect == CacheSpec => NeverGivenClosed
<1> DEFINE A == \A u \in Use :
                  pc[u] # "using" /\ pc'[u] = "using" => conn'[held'[u]] # "closed"
<1>1. TypeOK /\ CacheInv /\ [CacheNext]_cacheVars => [A]_cacheVars
  <2> SUFFICES ASSUME TypeOK, CacheInv, [CacheNext]_cacheVars,
                      NEW u \in Use, pc[u] # "using", pc'[u] = "using"
               PROVE  conn'[held'[u]] # "closed"
    OBVIOUS
  <2>1. Hit(u) \/ Install(u)
    BY DEF TypeOK, CacheNext, Step, cacheVars, CacheTerminated,
           Begin, Hit, Miss, Connect, ConnectFails, Install,
           Finish, Drop, CloseAll
  <2>2. CASE Hit(u)
    BY <2>2, KeyType DEF Hit, TypeOK, CacheInv, MapSound, Live
  <2>3. CASE Install(u)
    BY <2>3 DEF Install, TypeOK, CacheInv, LockHeld, Live
  <2> QED
    BY <2>1, <2>2, <2>3
<1> QED
  BY <1>1, CacheTypeCorrect, CacheInvCorrect, PTL DEF CacheSpec, NeverGivenClosed
=============================================================================

--------------------------- MODULE FtpBackendProofs ---------------------------
(***************************************************************************)
(* Proofs about Connection, for any settings: any number of jump hosts, any *)
(* keys and any number of lost connections; and about FtpBackend on top of  *)
(* it, for any names, trees and operations, any number of refused commands  *)
(* and of changes by other clients.                                        *)
(***************************************************************************)
EXTENDS FtpBackend, TLAPS

LEMMA HopsType == cfg \in Settings => Hops \in Nat
BY ConnectionAssumption DEF Hops

LEMMA SettingsType ==
  cfg \in Settings => cfg.protocol \in {"sftp", "ftp"}
BY ConnectionAssumption

\* Each connection's number is that of a hop or of the target.
LEMMA InitType == ConnInit => TypeOK
<1> SUFFICES ASSUME ConnInit PROVE TypeOK
  OBVIOUS
<1>1. cfg \in Settings /\ Hops \in Nat
  BY HopsType DEF ConnInit
<1>2. link \in 1 .. Target
  BY <1>1 DEF ConnInit, Target
<1> QED
  BY <1>1, <1>2, ConnectionAssumption DEF ConnInit, TypeOK

LEMMA StepType == TypeOK /\ [ConnNext]_connVars => TypeOK'
<1> SUFFICES ASSUME TypeOK, [ConnNext]_connVars PROVE TypeOK'
  OBVIOUS
<1> USE DEF TypeOK, Fail, Target, Res
<1>0. Hops \in Nat
  BY HopsType
<1>h. cfg' = cfg => Hops' = Hops
  BY DEF Hops
<1> USE <1>0, <1>h
<1>1. CASE Connect
  BY <1>1 DEF Connect, BuildSSHConfig, Agent
<1>2. CASE HopConfigs
  BY <1>2 DEF HopConfigs
<1>3. CASE HopConfig
  BY <1>3 DEF HopConfig, Agent
<1>4. CASE Dial
  <2>1. /\ Transport.kind \in {"channel", "proxy", "socket"}
        /\ Transport.of \in 1 .. Target /\ Transport.via \in 0 .. Target
    BY DEF Transport, Current
  <2> QED
    BY <1>4, <2>1 DEF Dial
<1>5. CASE Handshake
  BY <1>5 DEF Handshake, Ssh
<1>6. CASE OpenSubsystem
  BY <1>6 DEF OpenSubsystem, Session
<1>7. CASE FtpDial
  BY <1>7 DEF FtpDial, Control
<1>8. CASE FtpLogin
  BY <1>8 DEF FtpLogin
<1>9. CASE Close
  BY <1>9 DEF Close
<1>10. CASE Drop
  BY <1>10, ConnectionAssumption DEF Drop
<1>11. CASE UNCHANGED connVars
  BY <1>11 DEF connVars
<1> QED
  BY <1>1, <1>2, <1>3, <1>4, <1>5, <1>6, <1>7, <1>8, <1>9, <1>10, <1>11 DEF ConnNext

\* Every step of Connect and Close keeps the variables in their ranges; no
\* connection is numbered beyond the target.
THEOREM TypeCorrect == ConnSpec => []TypeOK
BY InitType, StepType, PTL DEF ConnSpec

--------------------------------------------------------------------------------

\* How far Connect has come bounds what is open.
Progress ==
  /\ pc = "new" => open = {} /\ link = 1
  /\ cfg.protocol = "sftp" =>
       /\ pc # "login"
       /\ pc \in {"config", "dial"} => \A r \in open : r.kind = "agent" \/ r.of < link
       /\ pc = "handshake" =>
            \A r \in open : r.kind = "agent" \/ r.of < link \/ r = Transport
       /\ pc \in {"subsystem", "connected"} => link = Target
  /\ cfg.protocol = "ftp" =>
       /\ pc \in {"new", "login", "connected", "failed", "closed"}
       /\ open \subseteq {Control}

\* A session belongs to the target.
SessionOfTarget == \A r \in open : r.kind = "sftp" => r.of = Target

Inv == Progress /\ Released /\ Tunnelled /\ SessionOfTarget

LEMMA InitInv == ConnInit => Inv
BY SettingsType DEF ConnInit, Inv, Progress, Released, Tunnelled, SessionOfTarget

\* A connection is in `open` as long as anything dialled through it, and each
\* failing step closes what it had begun: these facts are inductive.
LEMMA StepInv == TypeOK /\ Inv /\ [ConnNext]_connVars => Inv'
<1> SUFFICES ASSUME TypeOK, Inv, [ConnNext]_connVars PROVE Inv'
  OBVIOUS
<1> USE DEF Inv, Progress, Released, Tunnelled, SessionOfTarget
<1>t. /\ Hops \in Nat /\ Target = Hops + 1 /\ link \in 1 .. Target
      /\ \A r \in open : r.of \in 1 .. Target
      /\ cfg \in Settings /\ cfg.protocol \in {"sftp", "ftp"}
  BY HopsType, SettingsType DEF TypeOK, Target
<1>h. cfg' = cfg => Hops' = Hops /\ Target' = Target
  BY DEF Hops, Target
<1>1. CASE Connect
  BY <1>1, <1>t, <1>h DEF Connect, BuildSSHConfig, Fail, Agent, Ssh, Res
<1>2. CASE HopConfigs
  BY <1>2, <1>t, <1>h DEF HopConfigs, Fail, Ssh
<1>3. CASE HopConfig
  BY <1>3, <1>t, <1>h DEF HopConfig, Fail, Agent, Ssh, Res
<1>4. CASE Dial
  <2>1. CASE Carried /\ pc' = "handshake" /\ open' = open \cup {Transport}
    <3>1. Transport' = Transport
      BY <1>4, <1>h DEF Dial, Transport, Current, EffectiveProxy
    <3>2. /\ Transport.of = link /\ Transport.kind \in {"channel", "proxy", "socket"}
          /\ Transport.kind = "channel" => Transport.via = link - 1 /\ Ssh(link - 1) \in open
          /\ Transport.kind = "proxy" => Hops = 0
      BY <1>t, <2>1 DEF Transport, Current, Carried, Res
    <3> QED
      BY <1>4, <1>t, <1>h, <2>1, <3>1, <3>2 DEF Dial, Ssh
  <2>2. CASE Fail({})
    BY <1>4, <1>t, <1>h, <2>2 DEF Dial, Fail, Ssh
  <2> QED
    BY <1>4, <2>1, <2>2 DEF Dial
<1>5. CASE Handshake
  <2>0. /\ cfg.protocol = "sftp" /\ Transport.of = link
        /\ Transport.kind \in {"channel", "proxy", "socket"}
        /\ link > 1 => Transport = Res("channel", link, link - 1)
    BY <1>5, <1>t DEF Handshake, Transport, Current, Res
  <2>1. CASE Transport \in open /\ open' = open \cup {Ssh(link)}
    BY <1>5, <1>t, <1>h, <2>0, <2>1 DEF Handshake, Ssh, Res, Fail
  <2>2. CASE Fail({Transport}) /\ link' = link
    BY <1>5, <1>t, <1>h, <2>0, <2>2 DEF Handshake, Fail, Ssh, Res
  <2> QED
    BY <1>5, <2>1, <2>2 DEF Handshake
<1>6. CASE OpenSubsystem
  <2>1. CASE Ssh(Target) \in open /\ pc' = "connected" /\ open' = open \cup {Session}
    BY <1>6, <1>t, <1>h, <2>1 DEF OpenSubsystem, Session, Ssh, Res
  <2>2. CASE Fail(Closing(Target))
    BY <1>6, <1>t, <1>h, <2>2 DEF OpenSubsystem, Fail, Closing, Ssh, Res
  <2> QED
    BY <1>6, <2>1, <2>2 DEF OpenSubsystem
<1>7. CASE FtpDial
  BY <1>7, <1>t, <1>h DEF FtpDial, Fail, Control, Ssh, Res
<1>8. CASE FtpLogin
  BY <1>8, <1>t, <1>h DEF FtpLogin, Fail, Control, Ssh, Res
<1>9. CASE Close
  <2>1. CASE cfg.protocol = "sftp"
    BY <1>9, <1>t, <1>h, <2>1 DEF Close, Closing, Ssh, Res
  <2>2. CASE cfg.protocol = "ftp"
    BY <1>9, <1>t, <1>h, <2>2 DEF Close, Control, Ssh, Res
  <2> QED
    BY <1>t, <2>1, <2>2
<1>10. CASE Drop
  <2>1. Transport' = Transport
    BY <1>10, <1>h DEF Drop, Transport, Current, EffectiveProxy
  <2>2. PICK k \in 1 .. Target : open' = {q \in open : q.kind = "agent" \/ q.of < k}
    BY <1>10, <1>t DEF Drop
  <2> QED
    BY <1>10, <1>t, <1>h, <2>1, <2>2 DEF Drop, Ssh, Res
<1>11. CASE UNCHANGED connVars
  BY <1>11, <1>h DEF connVars, Ssh, Transport, Current, EffectiveProxy
<1> QED
  BY <1>1, <1>2, <1>3, <1>4, <1>5, <1>6, <1>7, <1>8, <1>9, <1>10, <1>11 DEF ConnNext

LEMMA InvCorrect == ConnSpec => []Inv
BY InitType, StepType, InitInv, StepInv, PTL DEF ConnSpec

\* Wherever Connect fails and whatever is lost, nothing that belongs to the
\* server stays open after it, nor after Close.
THEOREM ReleasedCorrect == ConnSpec => []Released
BY InvCorrect, PTL DEF Inv

\* However many jump hosts there are, each connection runs in a channel of the
\* one before it for as long as it is open.
THEOREM TunnelledCorrect == ConnSpec => []Tunnelled
BY InvCorrect, PTL DEF Inv

--------------------------------------------------------------------------------
\* The calls between Connect and Close are steps Connection does not see.
THEOREM ImplementsConnection == Spec => ConnSpec
<1>1. Init => ConnInit
  BY DEF Init
<1>2. [Next]_vars => [ConnNext]_connVars
  BY DEF Next, Call, MakeDir, MkdirReturns, ListFirst, VisitEntry, RemoveDir, Other,
         Terminated, vars, ConnNext
<1> QED
  BY <1>1, <1>2, PTL DEF Spec, ConnSpec

\* What Connect opened is released whatever was called in between.
THEOREM ClientReleased == Spec => []Released
BY ImplementsConnection, ReleasedCorrect, PTL

\* Whatever is called in between, each connection runs in a channel of the one
\* before it for as long as it is open.
THEOREM ClientTunnelled == Spec => []Tunnelled
BY ImplementsConnection, TunnelledCorrect, PTL

--------------------------------------------------------------------------------
(***************************************************************************)
(* Paths.                                                                  *)
(***************************************************************************)
LEMMA PrefixType ==
  ASSUME NEW p \in Seq(Name), NEW n \in 0 .. Len(p)
  PROVE  /\ SubSeq(p, 1, n) \in Seq(Name) /\ Len(SubSeq(p, 1, n)) = n
         /\ n = Len(p) => SubSeq(p, 1, n) = p
OBVIOUS

LEMMA FrontType ==
  ASSUME NEW S, NEW s \in Seq(S), NEW n \in Nat, Len(s) = n + 1
  PROVE  /\ Front(s) \in Seq(S) /\ Len(Front(s)) = n
         /\ \A i \in 1 .. n : Front(s)[i] = s[i]
<1>1. Front(s) = SubSeq(s, 1, n)
  BY DEF Front
<1> QED
  BY <1>1

LEMMA PrefixOfPrefix ==
  ASSUME NEW p \in Seq(Name), NEW n \in 0 .. Len(p), NEW m \in 0 .. n
  PROVE  SubSeq(SubSeq(p, 1, n), 1, m) = SubSeq(p, 1, m)
OBVIOUS

LEMMA PrefixOfAppend ==
  ASSUME NEW p \in Seq(Name), NEW x \in Name, NEW n \in 0 .. Len(p)
  PROVE  /\ Append(p, x) \in Seq(Name) /\ Len(Append(p, x)) = Len(p) + 1
         /\ SubSeq(Append(p, x), 1, n) = SubSeq(p, 1, n)
         /\ Front(Append(p, x)) = p
         /\ IsPrefix(p, Append(p, x))
BY DEF Front, IsPrefix

LEMMA PrefixTransitive ==
  ASSUME NEW p \in Seq(Name), NEW q \in Seq(Name), NEW x \in Name, IsPrefix(p, q)
  PROVE  IsPrefix(p, Append(q, x))
BY DEF IsPrefix

--------------------------------------------------------------------------------
(***************************************************************************)
(* The tree.                                                               *)
(***************************************************************************)
LEMMA WithWellFormed ==
  ASSUME WellFormed(tree), NEW p \in Seq(Name), p # <<>>, p \notin DOMAIN tree,
         IsDir(Front(p)), NEW kind \in Kinds
  PROVE  WellFormed(With(p, kind))
<1> DEFINE t == With(p, kind)
<1>1. /\ DOMAIN t = DOMAIN tree \cup {p}
      /\ \A q \in DOMAIN tree : t[q] = tree[q]
      /\ t[p] = kind
  BY DEF With
<1>2. Len(p) \in Nat \ {0} /\ Front(p) = SubSeq(p, 1, Len(p) - 1)
  BY DEF Front
<1>3. ASSUME NEW n \in 0 .. Len(p) - 1
      PROVE  SubSeq(p, 1, n) \in DOMAIN tree /\ tree[SubSeq(p, 1, n)] = "dir"
  <2>1. CASE n = Len(p) - 1
    BY <1>2, <2>1 DEF IsDir
  <2>2. CASE n < Len(p) - 1
    <3>1. n \in 0 .. Len(Front(p)) - 1 /\ n \in 0 .. Len(p) - 1
      BY <1>2, <1>3, <2>2, PrefixType
    <3>2. SubSeq(Front(p), 1, n) = SubSeq(p, 1, n)
      BY <1>2, <1>3, <2>2, PrefixOfPrefix
    <3> QED
      BY <3>1, <3>2 DEF WellFormed, IsDir
  <2> QED
    BY <1>2, <1>3, <2>1, <2>2
<1> HIDE DEF t
<1> QED
  <2>1. WellFormed(t)
    BY <1>1, <1>3 DEF WellFormed
  <2> QED
    BY <2>1 DEF t

LEMMA PrefixStays ==
  ASSUME WellFormed(tree), NEW q \in DOMAIN tree, NEW n \in 0 .. Len(q)
  PROVE  SubSeq(q, 1, n) \in DOMAIN tree
<1>1. q \in Seq(Name) /\ Len(q) \in Nat
  BY DEF WellFormed
<1>2. CASE n = Len(q)
  <2>1. SubSeq(q, 1, n) = q
    BY <1>1, <1>2
  <2> QED
    BY <2>1
<1>3. CASE n # Len(q)
  <2>1. n \in 0 .. Len(q) - 1
    BY <1>1, <1>3
  <2> QED
    BY <2>1 DEF WellFormed
<1> QED
  BY <1>2, <1>3

\* Whatever lies below a directory lies below one of its children.
LEMMA ChildAbove ==
  ASSUME WellFormed(tree), NEW p \in DOMAIN tree, NEW q \in DOMAIN tree,
         NEW n \in 0 .. Len(q) - 1, SubSeq(q, 1, n) = p
  PROVE  Children(p) # {}
<1> DEFINE child == SubSeq(q, 1, n + 1)
<1>1. q \in Seq(Name) /\ Len(q) \in Nat /\ n + 1 \in 0 .. Len(q) /\ n \in 0 .. Len(q)
  BY DEF WellFormed
<1>2. child \in DOMAIN tree
  BY <1>1, PrefixStays
<1>3. Len(p) = n /\ Len(child) = n + 1 /\ SubSeq(p, 1, n) = p
  BY <1>1, PrefixType
<1>4. SubSeq(child, 1, n) = p
  BY <1>1, PrefixOfPrefix
<1>5. IsPrefix(p, child)
  BY <1>1, <1>3, <1>4 DEF IsPrefix
<1> HIDE DEF child
<1> QED
  BY <1>2, <1>3, <1>5 DEF Children

LEMMA WithoutWellFormed ==
  ASSUME WellFormed(tree), NEW p \in DOMAIN tree, p # <<>>,
         tree[p] = "file" \/ Children(p) = {}
  PROVE  WellFormed(Without(p))
<1> DEFINE t == Without(p)
<1>1. DOMAIN t = DOMAIN tree \ {p} /\ \A q \in DOMAIN t : t[q] = tree[q]
  BY DEF Without
<1>2. ASSUME NEW q \in DOMAIN t, NEW n \in 0 .. Len(q) - 1, SubSeq(q, 1, n) = p
      PROVE  FALSE
  <2>1. q \in DOMAIN tree
    BY <1>1
  <2>2. tree[p] = "dir"
    BY <1>2, <2>1 DEF WellFormed
  <2> QED
    BY <1>2, <2>1, <2>2, ChildAbove
<1> HIDE DEF t
<1> QED
  <2>1. WellFormed(t)
    BY <1>1, <1>2 DEF WellFormed
  <2> QED
    BY <2>1 DEF t

\* A directory without children has nothing at all below it.
LEMMA NothingBelow ==
  ASSUME WellFormed(tree), NEW p \in DOMAIN tree, Children(p) = {}
  PROVE  Below(p) \subseteq {p}
<1> SUFFICES ASSUME NEW q \in Below(p), q # p PROVE FALSE
  OBVIOUS
<1>1. p \in Seq(Name) /\ q \in DOMAIN tree /\ q \in Seq(Name) /\ Len(p) <= Len(q)
  BY DEF Below, WellFormed, IsPrefix
<1>2. SubSeq(q, 1, Len(p)) = p
  <2>1. SubSeq(p, 1, Len(p)) = p
    BY <1>1
  <2> QED
    BY <2>1 DEF Below, IsPrefix
<1>3. Len(p) # Len(q)
  <2>1. SubSeq(q, 1, Len(q)) = q
    BY <1>1
  <2> QED
    BY <1>2, <2>1
<1>4. Len(p) \in 0 .. Len(q) - 1
  BY <1>1, <1>3
<1> QED
  BY <1>1, <1>2, <1>4, ChildAbove

--------------------------------------------------------------------------------
(***************************************************************************)
(* The calls.                                                              *)
(***************************************************************************)
Frame == [path : Seq(Name), entries : SUBSET (Name \X Kinds)]

\* Every call of RemoveAll is about the path asked for or something below it,
\* the outermost about the path itself.
StackOK(s) ==
  /\ s \in Seq(Frame)
  /\ \A i \in 1 .. Len(s) : IsPrefix(call.path, s[i].path)
  /\ s # <<>> => s[1].path = call.path

AtOK ==
  /\ at = "mkdir" => call.op = "MkdirAll" /\ made \in 0 .. Len(call.path)
  /\ at \in {"list", "visit"} => call.op = "RemoveAll"
  /\ at = "list" => stack = <<>>
  /\ at = "visit" => stack # <<>>

\* Each component MkdirAll has dealt with exists, unless one of them is a file.
MadeSoFar ==
  at = "mkdir" /\ ~disturbed =>
    \/ \A i \in 1 .. made : SubSeq(call.path, 1, i) \in DOMAIN tree
    \/ \E i \in 1 .. Len(call.path) :
         LET p == SubSeq(call.path, 1, i) IN p \in DOMAIN tree /\ tree[p] = "file"

CallOK ==
  /\ call \in Operations /\ others \in Nat
  /\ unlisted \in BOOLEAN /\ disturbed \in BOOLEAN
  /\ WellFormed(tree)
  /\ StackOK(stack)
  /\ AtOK

LEMMA OperationType ==
  \A c \in Operations : c.op \in {"MkdirAll", "RemoveAll"} /\ c.path \in Seq(Name)
BY FtpAssumption

\* What LIST answers are names and kinds.
LEMMA ListingsType ==
  ASSUME WellFormed(tree), NEW p \in Seq(Name), NEW l \in Listings(p)
  PROVE  l \subseteq Name \X Kinds
<1>1. ASSUME NEW q \in DOMAIN tree, q # <<>> PROVE <<Last(q), tree[q]>> \in Name \X Kinds
  <2>1. q \in Seq(Name) /\ Len(q) \in 1 .. Len(q) /\ tree[q] \in Kinds
    BY <1>1 DEF WellFormed
  <2> QED
    BY <2>1 DEF Last
<1>2. CASE IsDir(p)
  <2>1. l = {<<Last(q), tree[q]>> : q \in Children(p)}
    BY <1>2 DEF Listings
  <2>2. \A q \in Children(p) : q \in DOMAIN tree /\ q # <<>>
    BY DEF Children
  <2> QED
    BY <1>1, <2>1, <2>2
<1>3. CASE ~IsDir(p) /\ p \in DOMAIN tree
  <2>1. l = {<<Last(p), "file">>} /\ tree[p] = "file" /\ p # <<>>
    BY <1>3 DEF Listings, IsDir, WellFormed, Kinds
  <2>2. <<Last(p), tree[p]>> \in Name \X Kinds
    BY <1>1, <1>3, <2>1
  <2> QED
    BY <2>1, <2>2
<1> QED
  BY <1>2, <1>3 DEF Listings, IsDir

LEMMA StackGrows ==
  ASSUME NEW s, StackOK(s), NEW p \in Seq(Name), IsPrefix(call.path, p),
         s = <<>> => p = call.path, NEW l \in SUBSET (Name \X Kinds)
  PROVE  /\ StackOK(Append(s, [path |-> p, entries |-> l]))
         /\ Append(s, [path |-> p, entries |-> l]) # <<>>
<1> DEFINE f == [path |-> p, entries |-> l]
<1>1. f \in Frame /\ f.path = p
  BY DEF Frame
<1> HIDE DEF f
<1>2. /\ Append(s, f) \in Seq(Frame) /\ Len(Append(s, f)) = Len(s) + 1
      /\ \A i \in 1 .. Len(s) : Append(s, f)[i] = s[i]
      /\ Append(s, f)[Len(s) + 1] = f
  BY <1>1 DEF StackOK
<1>3. \A i \in 1 .. Len(s) + 1 : IsPrefix(call.path, Append(s, f)[i].path)
  BY <1>1, <1>2 DEF StackOK
<1>4. Append(s, f)[1].path = call.path
  BY <1>1, <1>2 DEF StackOK
<1>5. StackOK(Append(s, f)) /\ Append(s, f) # <<>>
  BY <1>2, <1>3, <1>4 DEF StackOK
<1> QED
  BY <1>5 DEF f

LEMMA StackShrinks ==
  ASSUME NEW s, StackOK(s), s # <<>>
  PROVE  StackOK(Front(s)) /\ (Front(s) = <<>> => Last(s).path = call.path)
<1>1. /\ Len(s) \in Nat \ {0} /\ Front(s) \in Seq(Frame) /\ Len(Front(s)) = Len(s) - 1
      /\ \A i \in 1 .. Len(s) - 1 : Front(s)[i] = s[i]
  <2>1. s \in Seq(Frame) /\ Len(s) \in Nat \ {0}
    BY DEF StackOK
  <2>2. Len(s) - 1 \in Nat /\ Len(s) = (Len(s) - 1) + 1
    BY <2>1
  <2> QED
    BY <2>1, <2>2, FrontType
<1>2. Front(s) = <<>> => Len(s) = 1
  BY <1>1
<1> QED
  BY <1>1, <1>2 DEF StackOK, Last

LEMMA StackVisits ==
  ASSUME NEW s, StackOK(s), s # <<>>, NEW e
  PROVE  LET c == [s EXCEPT ![Len(s)].entries = @ \ {e}]
         IN StackOK(c) /\ c # <<>>
<1> DEFINE n == Len(s)
           f == [s[n] EXCEPT !.entries = s[n].entries \ {e}]
           c == [s EXCEPT ![n] = f]
<1>1. n \in 1 .. Len(s) /\ n \in Nat \ {0} /\ s[n] \in Frame
  BY DEF StackOK
<1>2. f \in Frame /\ f.path = s[n].path
  BY <1>1 DEF Frame
<1> HIDE DEF f
<1>3. c \in Seq(Frame) /\ Len(c) = n /\ \A i \in 1 .. n : c[i].path = s[i].path
  BY <1>1, <1>2 DEF StackOK
<1> HIDE DEF c
<1>4. StackOK(c) /\ c # <<>>
  BY <1>1, <1>3 DEF StackOK
<1> QED
  BY <1>4 DEF c, f

LEMMA ListStep ==
  ASSUME CallOK, NEW p \in Seq(Name), NEW callers, StackOK(callers),
         IsPrefix(call.path, p), callers = <<>> => p = call.path, List(p, callers)
  PROVE  /\ StackOK(stack') /\ unlisted' \in BOOLEAN
         /\ at' \in {"visit", "nil"}
         /\ at' = "visit" => stack' # <<>>
         /\ at' = "nil" => callers = <<>> /\ unlisted'
<1>1. CASE \E l \in Listings(p) : /\ stack' = Append(callers, [path |-> p, entries |-> l])
                                  /\ at' = "visit" /\ UNCHANGED unlisted
  <2>1. PICK l \in Listings(p) : stack' = Append(callers, [path |-> p, entries |-> l])
    BY <1>1
  <2>2. l \in SUBSET (Name \X Kinds)
    BY ListingsType DEF CallOK
  <2>3. StackOK(stack') /\ stack' # <<>>
    BY <2>1, <2>2, StackGrows
  <2> QED
    BY <1>1, <2>3 DEF CallOK
<1>2. CASE Return(callers) /\ unlisted' = (unlisted \/ callers = <<>>)
  BY <1>2 DEF Return, CallOK
<1> QED
  BY <1>1, <1>2 DEF List

LEMMA CallInit == Init => CallOK
<1> SUFFICES ASSUME Init PROVE CallOK
  OBVIOUS
<1>1. call \in Operations /\ WellFormed(tree)
  BY FtpAssumption DEF Init
<1>2. StackOK(stack) /\ AtOK
  BY DEF Init, StackOK, AtOK
<1> QED
  BY <1>1, <1>2 DEF Init, CallOK

LEMMA CallStep == CallOK /\ [Next]_vars => CallOK'
<1> SUFFICES ASSUME CallOK, [Next]_vars PROVE CallOK'
  OBVIOUS
<1>t. /\ call \in Operations /\ call.path \in Seq(Name) /\ WellFormed(tree) /\ StackOK(stack)
      /\ others \in Nat /\ unlisted \in BOOLEAN /\ disturbed \in BOOLEAN /\ AtOK
  BY OperationType DEF CallOK
<1>s. call' = call => (StackOK(stack)' <=> StackOK(stack'))
  BY DEF StackOK
<1>w. WellFormed(tree)' <=> WellFormed(tree')
  BY DEF WellFormed
<1>0. CASE UNCHANGED ftpVars
  BY <1>0, <1>t, <1>s, <1>w DEF ftpVars, CallOK, AtOK
<1>1. CASE Call
  <2>1. StackOK(stack)'
    BY <1>1 DEF Call, StackOK
  <2>2. call' \in Operations /\ 0 \in 0 .. Len(call'.path)
    BY <1>1, OperationType DEF Call
  <2>3. AtOK'
    BY <1>1, <2>2, OperationType DEF Call, AtOK
  <2> QED
    BY <1>1, <1>t, <1>w, <2>1, <2>2, <2>3 DEF Call, CallOK
<1>2. CASE MakeDir
  <2>1. made' \in 0 .. Len(call.path)
    BY <1>2, <1>t DEF MakeDir, AtOK
  <2>2. WellFormed(tree')
    <3>1. CASE tree' = With(Component, "dir") /\ IsDir(Front(Component)) /\ Component \notin DOMAIN tree
      <4>0. made + 1 \in 1 .. Len(call.path)
        BY <1>2, <1>t DEF MakeDir, AtOK
      <4>1. Component \in Seq(Name) /\ Component # <<>>
        <5>1. Component \in Seq(Name) /\ Len(Component) = made + 1
          BY <1>t, <4>0, PrefixType DEF Component
        <5> QED
          BY <4>0, <5>1
      <4> QED
        BY <1>t, <3>1, <4>1, WithWellFormed DEF Kinds
    <3>2. CASE tree' = tree
      BY <1>t, <3>2
    <3> QED
      BY <1>2, <3>1, <3>2 DEF MakeDir
  <2> QED
    BY <1>2, <1>t, <1>s, <1>w, <2>1, <2>2 DEF MakeDir, CallOK, AtOK
<1>3. CASE MkdirReturns
  BY <1>3, <1>t, <1>s, <1>w DEF MkdirReturns, CallOK, AtOK
<1>4. CASE ListFirst
  <2>1. StackOK(<<>>) /\ IsPrefix(call.path, call.path)
    BY <1>t DEF StackOK, IsPrefix
  <2>2. /\ StackOK(stack') /\ unlisted' \in BOOLEAN /\ at' \in {"visit", "nil"}
        /\ at' = "visit" => stack' # <<>>
    BY <1>4, <1>t, <2>1, ListStep DEF ListFirst
  <2> QED
    BY <1>4, <1>t, <1>s, <1>w, <2>2 DEF ListFirst, CallOK, AtOK
<1>5. CASE VisitEntry
  <2>0. stack # <<>> /\ call.op = "RemoveAll"
    BY <1>5, <1>t DEF VisitEntry, AtOK
  <2> DEFINE callers(e) == [stack EXCEPT ![Len(stack)].entries = @ \ {e}]
  <2>1. PICK e \in Last(stack).entries :
          IF e[2] = "dir"
          THEN List(Child(e[1]), callers(e)) /\ UNCHANGED tree
          ELSE /\ \/ /\ Child(e[1]) \in DOMAIN tree /\ tree[Child(e[1])] = "file"
                     /\ tree' = Without(Child(e[1]))
                     /\ stack' = callers(e) /\ at' = at
                  \/ at' = "error" /\ stack' = <<>> /\ tree' = tree
               /\ UNCHANGED unlisted
    BY <1>5 DEF VisitEntry
  <2>2. Dir \in Seq(Name) /\ IsPrefix(call.path, Dir) /\ e[1] \in Name
    <3>1. Last(stack) \in Frame /\ IsPrefix(call.path, Last(stack).path)
      <4>1. stack \in Seq(Frame) /\ Len(stack) \in 1 .. Len(stack)
        BY <1>t, <2>0 DEF StackOK
      <4> QED
        BY <1>t, <4>1 DEF StackOK, Last
    <3> QED
      BY <3>1 DEF Frame, Dir
  <2>3. Child(e[1]) \in Seq(Name) /\ Child(e[1]) # <<>> /\ IsPrefix(call.path, Child(e[1]))
    BY <1>t, <2>2, PrefixOfAppend, PrefixTransitive DEF Child
  <2>4. StackOK(callers(e)) /\ callers(e) # <<>>
    BY <1>t, <2>0, StackVisits
  <2> HIDE DEF callers
  <2>5. StackOK(<<>>)
    BY DEF StackOK
  <2>6. CASE e[2] = "dir"
    <3>1. /\ StackOK(stack') /\ unlisted' \in BOOLEAN /\ at' \in {"visit", "nil"}
          /\ at' = "visit" => stack' # <<>>
      BY <2>1, <2>3, <2>4, <2>6, ListStep
    <3> QED
      BY <1>5, <1>t, <1>s, <1>w, <2>0, <2>1, <2>6, <3>1 DEF VisitEntry, CallOK, AtOK
  <2>7. CASE e[2] # "dir"
    <3>1. WellFormed(tree')
      BY <1>t, <2>1, <2>3, <2>7, WithoutWellFormed
    <3> QED
      BY <1>5, <1>t, <1>s, <1>w, <2>0, <2>1, <2>4, <2>5, <2>7, <3>1 DEF VisitEntry, CallOK, AtOK
  <2> QED
    BY <2>6, <2>7
<1>6. CASE RemoveDir
  <2>0. stack # <<>> /\ call.op = "RemoveAll"
    BY <1>6, <1>t DEF RemoveDir, AtOK
  <2>1. StackOK(Front(stack)) /\ StackOK(<<>>)
    BY <1>t, <2>0, StackShrinks DEF StackOK
  <2>2. WellFormed(tree')
    BY <1>6, <1>t, WithoutWellFormed DEF RemoveDir, Empty, IsDir
  <2> QED
    BY <1>6, <1>t, <1>s, <1>w, <2>0, <2>1, <2>2 DEF RemoveDir, Return, CallOK, AtOK
<1>7. CASE Other
  <2>1. ASSUME NEW d \in DOMAIN tree, NEW n \in Name, NEW kind \in Kinds, tree[d] = "dir",
               Append(d, n) \notin DOMAIN tree, tree' = With(Append(d, n), kind)
        PROVE  WellFormed(tree')
    <3>1. d \in Seq(Name)
      BY <1>t DEF WellFormed
    <3>2. /\ Append(d, n) \in Seq(Name) /\ Append(d, n) # <<>>
          /\ Front(Append(d, n)) = d
      <4>1. 0 \in 0 .. Len(d)
        BY <3>1
      <4>2. Front(Append(d, n)) = d
        BY <3>1, <4>1, PrefixOfAppend
      <4> QED
        BY <3>1, <4>2
    <3> QED
      BY <1>t, <2>1, <3>2, WithWellFormed DEF IsDir
  <2>2. ASSUME NEW p \in DOMAIN tree \ {<<>>}, Children(p) = {}, tree' = Without(p)
        PROVE  WellFormed(tree')
    BY <1>t, <2>2, WithoutWellFormed
  <2>3. WellFormed(tree')
    BY <1>7, <2>1, <2>2 DEF Other
  <2>4. others' \in Nat /\ disturbed' \in BOOLEAN
    <3>1. others' = others + 1
      BY <1>7 DEF Other
    <3>2. disturbed' = disturbed \/ disturbed' = TRUE
      BY <1>7 DEF Other
    <3>3. others' \in Nat
      BY <1>t, <3>1
    <3>4. disturbed' \in BOOLEAN
      BY <1>t, <3>2, Zenon
    <3> QED
      BY <3>3, <3>4
  <2>5. AtOK' /\ StackOK(stack)'
    BY <1>7, <1>t, <1>s DEF Other, AtOK
  <2> QED
    BY <1>7, <1>t, <1>w, <2>3, <2>4, <2>5 DEF Other, CallOK
<1> QED
  BY <1>0, <1>1, <1>2, <1>3, <1>4, <1>5, <1>6, <1>7 DEF Next, Terminated, vars

\* The tree keeps its form and each call of RemoveAll its path.
LEMMA CallCorrect == Spec => []CallOK
BY CallInit, CallStep, PTL DEF Spec

--------------------------------------------------------------------------------

\* A nil of RemoveAll comes from the RMD of the path itself, or from a first
\* LIST that failed.
LEMMA RemovedStep == CallOK /\ RemovedIsGone /\ [Next]_vars => RemovedIsGone'
<1> SUFFICES ASSUME CallOK, RemovedIsGone, [Next]_vars,
                    at' = "nil", call'.op = "RemoveAll", ~unlisted'
             PROVE  Below(call.path)' = {}
  BY DEF RemovedIsGone
<1>t. call.path \in Seq(Name) /\ WellFormed(tree) /\ StackOK(stack) /\ AtOK
  BY OperationType DEF CallOK
<1>0. CASE UNCHANGED ftpVars
  BY <1>0 DEF ftpVars, RemovedIsGone, Below
<1>1. CASE Call
  BY <1>1 DEF Call
<1>2. CASE MakeDir
  BY <1>2, <1>t DEF MakeDir, AtOK
<1>3. CASE MkdirReturns
  BY <1>3, <1>t DEF MkdirReturns, AtOK
<1>4. CASE ListFirst
  BY <1>4, <1>t DEF ListFirst, List, Return
<1>5. CASE VisitEntry
  <2>0. stack # <<>> /\ at # "nil"
    BY <1>5, <1>t DEF VisitEntry, AtOK
  <2> DEFINE callers(e) == [stack EXCEPT ![Len(stack)].entries = @ \ {e}]
  <2>1. \A e : callers(e) # <<>>
    BY <1>t, <2>0, StackVisits
  <2> HIDE DEF callers
  <2>2. PICK e \in Last(stack).entries : List(Child(e[1]), callers(e)) \/ at' \in {at, "error"}
    BY <1>5 DEF VisitEntry, callers
  <2>3. ~List(Child(e[1]), callers(e))
    BY <2>1 DEF List, Return
  <2> QED
    BY <2>0, <2>2, <2>3
<1>6. CASE RemoveDir
  <2>1. /\ Empty(Dir) /\ tree' = Without(Dir) /\ Front(stack) = <<>>
        /\ stack # <<>> /\ call' = call
    BY <1>6, <1>t DEF RemoveDir, Return, AtOK
  <2>2. Dir = call.path
    BY <1>t, <2>1, StackShrinks DEF Dir
  <2>3. Below(call.path) \subseteq {call.path}
    BY <1>t, <2>1, <2>2, NothingBelow DEF Empty, IsDir
  <2>4. DOMAIN tree' = DOMAIN tree \ {call.path}
    BY <2>1, <2>2 DEF Without
  <2> QED
    BY <2>1, <2>3, <2>4 DEF Below
<1>7. CASE Other
  BY <1>7 DEF Other, Ended
<1> QED
  BY <1>0, <1>1, <1>2, <1>3, <1>4, <1>5, <1>6, <1>7 DEF Next, Terminated, vars

\* Whatever other clients do between LIST and RMD, and whichever commands are
\* refused: when RemoveAll returns nil and its first LIST was answered, nothing
\* is left of the path.
THEOREM RemovedIsGoneCorrect == Spec => []RemovedIsGone
<1>1. Init => RemovedIsGone
  BY DEF Init, RemovedIsGone
<1> QED
  BY <1>1, CallCorrect, RemovedStep, PTL DEF Spec

\* No step of RemoveAll removes anything beside its path or makes anything.
THEOREM RemovesOnlyBelowCorrect == Spec => RemovesOnlyBelow
<1> DEFINE Step ==
      call.op = "RemoveAll" /\ others' = others =>
        \A p \in DOMAIN tree \cup DOMAIN tree' :
          (p \in DOMAIN tree /\ p \in DOMAIN tree') \/ IsPrefix(call.path, p)
<1>1. CallOK /\ [Next]_vars => [Step]_vars
  <2> SUFFICES ASSUME CallOK, [Next]_vars, call.op = "RemoveAll", others' = others,
                      NEW p \in DOMAIN tree \cup DOMAIN tree'
               PROVE  (p \in DOMAIN tree /\ p \in DOMAIN tree') \/ IsPrefix(call.path, p)
    OBVIOUS
  <2>t. call.path \in Seq(Name) /\ WellFormed(tree) /\ StackOK(stack) /\ AtOK
    BY OperationType DEF CallOK
  <2>0. CASE tree' = tree
    BY <2>0
  <2>1. CASE MakeDir
    BY <2>1, <2>t DEF MakeDir, AtOK
  <2>d. ASSUME at = "visit"
        PROVE  Dir \in Seq(Name) /\ IsPrefix(call.path, Dir) /\ Last(stack) \in Frame
    <3>1. stack \in Seq(Frame) /\ Len(stack) \in 1 .. Len(stack)
      BY <2>t, <2>d DEF StackOK, AtOK
    <3>2. Last(stack) \in Frame /\ IsPrefix(call.path, Last(stack).path)
      BY <2>t, <3>1 DEF StackOK, Last
    <3> QED
      BY <3>2 DEF Frame, Dir
  <2>2. CASE VisitEntry
    <3>1. at = "visit"
      BY <2>2 DEF VisitEntry
    <3>2. PICK e \in Last(stack).entries : tree' = tree \/ tree' = Without(Child(e[1]))
      BY <2>2 DEF VisitEntry
    <3>3. e[1] \in Name
      BY <2>d, <3>1 DEF Frame
    <3>4. IsPrefix(call.path, Child(e[1]))
      BY <2>d, <2>t, <3>1, <3>3, PrefixTransitive DEF Child
    <3>5. CASE tree' = Without(Child(e[1]))
      BY <3>4, <3>5 DEF Without
    <3> QED
      BY <2>0, <3>2, <3>5
  <2>3. CASE RemoveDir
    <3>1. IsPrefix(call.path, Dir)
      BY <2>3, <2>d DEF RemoveDir
    <3>2. CASE tree' = Without(Dir)
      BY <3>1, <3>2 DEF Without
    <3> QED
      BY <2>0, <2>3, <3>2 DEF RemoveDir
  <2>4. CASE Other
    BY <2>4 DEF Other, CallOK
  <2> QED
    BY <2>0, <2>1, <2>2, <2>3, <2>4
       DEF Next, Terminated, vars, ftpVars, Call, MkdirReturns, ListFirst
<1> QED
  BY <1>1, CallCorrect, PTL DEF Spec, RemovesOnlyBelow

LEMMA MadeStep == CallOK /\ MadeSoFar /\ [Next]_vars => MadeSoFar'
<1> SUFFICES ASSUME CallOK, MadeSoFar, [Next]_vars, at' = "mkdir", ~disturbed'
             PROVE  MadeSoFar'
  BY DEF MadeSoFar
<1>t. call.path \in Seq(Name) /\ WellFormed(tree) /\ AtOK
  BY OperationType DEF CallOK
<1>0. CASE UNCHANGED ftpVars
  BY <1>0 DEF ftpVars, MadeSoFar
<1>1. CASE Call
  BY <1>1 DEF Call, MadeSoFar
<1>2. CASE MakeDir
  <2>1. /\ at = "mkdir" /\ made' = made + 1 /\ made \in 0 .. Len(call.path) - 1
        /\ ~disturbed /\ call' = call
        /\ tree' = IF IsDir(Front(Component)) /\ Component \notin DOMAIN tree
                   THEN With(Component, "dir") ELSE tree
    BY <1>2, <1>t DEF MakeDir, AtOK
  <2>r. <<>> \in DOMAIN tree /\ tree[<<>>] = "dir"
    BY <1>t DEF WellFormed
  <2>2. \A q \in DOMAIN tree : q \in DOMAIN tree' /\ tree'[q] = tree[q]
    BY <2>1 DEF With
  <2>3. CASE \E i \in 1 .. Len(call.path) :
               LET p == SubSeq(call.path, 1, i) IN p \in DOMAIN tree /\ tree[p] = "file"
    BY <2>1, <2>2, <2>3 DEF MadeSoFar
  <2>4. CASE \A i \in 1 .. made : SubSeq(call.path, 1, i) \in DOMAIN tree
    <3>1. Front(Component) = SubSeq(call.path, 1, made)
      <4>1. Component \in Seq(Name) /\ Len(Component) = made + 1
        BY <1>t, <2>1, PrefixType DEF Component
      <4>2. SubSeq(Component, 1, made) = SubSeq(call.path, 1, made)
        BY <1>t, <2>1, PrefixOfPrefix DEF Component
      <4> QED
        BY <2>1, <4>1, <4>2 DEF Front
    <3>2. Front(Component) \in DOMAIN tree /\ tree[Front(Component)] \in Kinds
      <4>1. CASE made = 0
        <5>1. Front(Component) = <<>>
          BY <1>t, <3>1, <4>1
        <5> QED
          BY <2>r, <5>1 DEF Kinds
      <4>2. CASE made # 0
        BY <1>t, <2>1, <2>4, <3>1, <4>2 DEF WellFormed
      <4> QED
        BY <4>1, <4>2
    <3>3. CASE Component \in DOMAIN tree'
      <4>1. \A i \in 1 .. made' : SubSeq(call.path, 1, i) \in DOMAIN tree'
        BY <1>t, <2>1, <2>2, <2>4, <3>3 DEF Component
      <4> QED
        BY <2>1, <4>1 DEF MadeSoFar
    <3>4. CASE Component \notin DOMAIN tree'
      <4>1. ~IsDir(Front(Component)) /\ tree' = tree
        BY <2>1, <3>4 DEF With
      <4>2. tree[Front(Component)] = "file"
        BY <3>2, <4>1 DEF IsDir, Kinds
      <4>3. made \in 1 .. Len(call.path)
        <5>1. made # 0
          <6>1. SubSeq(call.path, 1, 0) = <<>>
            BY <1>t
          <6> QED
            BY <2>r, <3>1, <4>2, <6>1
        <5> QED
          BY <1>t, <2>1, <5>1
      <4> QED
        BY <2>1, <3>1, <3>2, <4>1, <4>2, <4>3 DEF MadeSoFar
    <3> QED
      BY <3>3, <3>4
  <2> QED
    BY <2>1, <2>3, <2>4 DEF MadeSoFar
<1>3. CASE Other
  <2>1. CASE disturbed'
    BY <2>1
  <2>2. CASE \E d \in DOMAIN tree, n \in Name, kind \in Kinds :
               /\ Append(d, n) \notin DOMAIN tree
               /\ tree' = With(Append(d, n), kind) /\ UNCHANGED disturbed
    <3>1. \A q \in DOMAIN tree : q \in DOMAIN tree' /\ tree'[q] = tree[q]
      BY <2>2 DEF With
    <3> QED
      BY <1>3, <2>2, <3>1 DEF Other, MadeSoFar
  <2> QED
    BY <1>3, <2>1, <2>2 DEF Other
<1>4. CASE ListFirst \/ VisitEntry \/ RemoveDir \/ MkdirReturns
  BY <1>4, <1>t DEF ListFirst, VisitEntry, RemoveDir, MkdirReturns, List, Return, AtOK
<1> QED
  BY <1>0, <1>1, <1>2, <1>3, <1>4 DEF Next, Terminated, vars

LEMMA MadeIsThereStep ==
  CallOK /\ MadeSoFar /\ MadeIsThere /\ [Next]_vars => MadeIsThere'
<1> SUFFICES ASSUME CallOK, MadeSoFar, MadeIsThere, [Next]_vars,
                    at' = "nil", call'.op = "MkdirAll", ~disturbed'
             PROVE  MadeIsThere'
  BY DEF MadeIsThere
<1>t. call.path \in Seq(Name) /\ WellFormed(tree) /\ AtOK
  BY OperationType DEF CallOK
<1>0. CASE UNCHANGED ftpVars
  BY <1>0 DEF ftpVars, MadeIsThere, IsDir
<1>1. CASE MkdirReturns
  <2>1. /\ at = "mkdir" /\ made = Len(call.path) /\ ~disturbed
        /\ call' = call /\ tree' = tree /\ Len(call.path) \in Nat
    BY <1>1, <1>t DEF MkdirReturns
  <2>2. CASE \E i \in 1 .. Len(call.path) :
               LET p == SubSeq(call.path, 1, i) IN p \in DOMAIN tree /\ tree[p] = "file"
    BY <2>1, <2>2 DEF MadeIsThere
  <2>3. CASE /\ \A i \in 1 .. made : SubSeq(call.path, 1, i) \in DOMAIN tree
             /\ call.path # <<>>
    <3>1. Len(call.path) \in 1 .. Len(call.path)
      BY <1>t, <2>3
    <3>2. SubSeq(call.path, 1, Len(call.path)) = call.path
      BY <1>t
    <3>3. call.path \in DOMAIN tree /\ tree[call.path] \in Kinds
      BY <1>t, <2>1, <2>3, <3>1, <3>2 DEF WellFormed
    <3> QED
      BY <2>1, <3>1, <3>2, <3>3 DEF MadeIsThere, IsDir, Kinds
  <2>4. CASE call.path = <<>>
    BY <1>t, <2>1, <2>4 DEF MadeIsThere, IsDir, WellFormed
  <2> QED
    BY <2>1, <2>2, <2>3, <2>4 DEF MadeSoFar
<1>2. CASE Call \/ MakeDir \/ ListFirst \/ VisitEntry \/ RemoveDir
  BY <1>2, <1>t DEF Call, MakeDir, ListFirst, VisitEntry, RemoveDir, List, Return, AtOK
<1>3. CASE Other
  BY <1>3 DEF Other, Ended
<1> QED
  BY <1>0, <1>1, <1>2, <1>3 DEF Next, Terminated, vars

\* Whatever MKD answers with 550 and other clients make meanwhile: when MkdirAll
\* returns nil, undisturbed, every component is there up to one that is a file.
THEOREM MadeIsThereCorrect == Spec => []MadeIsThere
<1>1. Init => MadeSoFar /\ MadeIsThere
  BY DEF Init, MadeSoFar, MadeIsThere
<1> QED
  BY <1>1, CallCorrect, MadeStep, MadeIsThereStep, PTL DEF Spec
=============================================================================

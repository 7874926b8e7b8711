------------------------------ MODULE WatchProofs ------------------------------
(***************************************************************************)
(* Proofs about Watch, for any files, any directories under the watched    *)
(* one, any flags, and any number of edits and of failed operations.       *)
(***************************************************************************)
EXTENDS Watch, SequenceTheorems, TLAPS

Event == Path \X Op

\* No event of s is about p; the last one about p, if any, is no removal.
Quiet(s, p) == \A i \in DOMAIN s : s[i][1] # p
Ends(s, p) ==
  \A i \in DOMAIN s :
    s[i][1] = p /\ (\A j \in DOMAIN s : j > i => s[j][1] # p) => s[i][2] # "remove"

LEMMA Appended ==
  ASSUME NEW s \in Seq(Event), NEW e \in Event, NEW p \in Path
  PROVE  /\ s \o <<e>> \in Seq(Event)
         /\ e[1] # p => /\ Quiet(s \o <<e>>, p) <=> Quiet(s, p)
                        /\ Ends(s, p) => Ends(s \o <<e>>, p)
         /\ e[1] = p => ~Quiet(s \o <<e>>, p)
         /\ e[1] = p /\ e[2] # "remove" => Ends(s \o <<e>>, p)
<1> DEFINE t == s \o <<e>>
<1>1. /\ t \in Seq(Event) /\ Len(t) = Len(s) + 1 /\ Len(s) \in Nat
      /\ DOMAIN s = 1 .. Len(s) /\ DOMAIN t = 1 .. Len(s) + 1
      /\ \A i \in 1 .. Len(s) : t[i] = s[i]
      /\ t[Len(s) + 1] = e
  OBVIOUS
<1> HIDE DEF t
<1>2. e[1] # p => (Quiet(t, p) <=> Quiet(s, p))
  BY <1>1 DEF Quiet
<1>3. ASSUME e[1] # p, Ends(s, p) PROVE Ends(t, p)
  <2> SUFFICES ASSUME NEW i \in DOMAIN t, t[i][1] = p, \A j \in DOMAIN t : j > i => t[j][1] # p
               PROVE  t[i][2] # "remove"
    BY DEF Ends
  <2>1. i \in DOMAIN s
    BY <1>1, <1>3
  <2>2. \A j \in DOMAIN s : j > i => s[j][1] # p
    BY <1>1
  <2> QED
    BY <1>1, <1>3, <2>1, <2>2 DEF Ends
<1>4. e[1] = p => ~Quiet(t, p)
  BY <1>1 DEF Quiet
<1>5. ASSUME e[1] = p, e[2] # "remove" PROVE Ends(t, p)
  <2> SUFFICES ASSUME NEW i \in DOMAIN t, t[i][1] = p, \A j \in DOMAIN t : j > i => t[j][1] # p
               PROVE  t[i][2] # "remove"
    BY DEF Ends
  <2>1. i = Len(s) + 1
    BY <1>1, <1>5
  <2> QED
    BY <1>1, <1>5, <2>1
<1> QED
  BY <1>1, <1>2, <1>3, <1>4, <1>5 DEF t

LEMMA Twice ==
  ASSUME NEW s \in Seq(Event), NEW a \in Event, NEW b \in Event
  PROVE  s \o <<a, b>> = (s \o <<a>>) \o <<b>>
<1>1. /\ s \o <<a>> \in Seq(Event) /\ s \o <<a, b>> \in Seq(Event)
      /\ (s \o <<a>>) \o <<b>> \in Seq(Event)
  OBVIOUS
<1>2. /\ Len(s \o <<a, b>>) = Len(s) + 2 /\ Len((s \o <<a>>) \o <<b>>) = Len(s) + 2
      /\ Len(s) \in Nat
  OBVIOUS
<1>3. ASSUME NEW i \in 1 .. Len(s) + 2
      PROVE  (s \o <<a, b>>)[i] = ((s \o <<a>>) \o <<b>>)[i]
  <2>1. CASE i \in 1 .. Len(s)
    BY <2>1
  <2>2. CASE i = Len(s) + 1
    BY <2>2
  <2>3. CASE i = Len(s) + 2
    BY <2>3
  <2> QED
    BY <1>2, <2>1, <2>2, <2>3
<1> QED
  BY <1>1, <1>2, <1>3, SeqEqual

LEMMA Received ==
  ASSUME NEW s \in Seq(Event), s # <<>>, NEW p \in Path
  PROVE  /\ Head(s) \in Event /\ Tail(s) \in Seq(Event)
         /\ Quiet(s, p) <=> Head(s)[1] # p /\ Quiet(Tail(s), p)
         /\ Ends(s, p) => Ends(Tail(s), p)
         /\ Ends(s, p) /\ Head(s)[1] = p /\ Quiet(Tail(s), p) => Head(s)[2] # "remove"
<1> DEFINE t == Tail(s)
<1>1. /\ t \in Seq(Event) /\ Len(s) \in Nat \ {0} /\ Len(t) = Len(s) - 1
      /\ DOMAIN s = 1 .. Len(s) /\ DOMAIN t = 1 .. Len(s) - 1
      /\ \A i \in 1 .. Len(s) - 1 : t[i] = s[i + 1]
      /\ Head(s) = s[1] /\ Head(s) \in Event
  OBVIOUS
<1> HIDE DEF t
<1>2. \A i \in DOMAIN t : i + 1 \in DOMAIN s /\ t[i] = s[i + 1]
  BY <1>1
<1>3. \A i \in DOMAIN s : i = 1 \/ (i - 1 \in DOMAIN t /\ t[i - 1] = s[i])
  BY <1>1
<1>4. Quiet(s, p) <=> Head(s)[1] # p /\ Quiet(t, p)
  <2>1. 1 \in DOMAIN s
    BY <1>1
  <2> QED
    BY <1>1, <1>2, <1>3, <2>1 DEF Quiet
<1>5. ASSUME Ends(s, p) PROVE Ends(t, p)
  <2> SUFFICES ASSUME NEW i \in DOMAIN t, t[i][1] = p, \A j \in DOMAIN t : j > i => t[j][1] # p
               PROVE  t[i][2] # "remove"
    BY DEF Ends
  <2>1. \A j \in DOMAIN s : j > i + 1 => s[j][1] # p
    BY <1>1, <1>3
  <2> QED
    BY <1>2, <1>5, <2>1 DEF Ends
<1>6. ASSUME Ends(s, p), Head(s)[1] = p, Quiet(t, p) PROVE Head(s)[2] # "remove"
  <2>1. \A j \in DOMAIN s : j > 1 => s[j][1] # p
    BY <1>1, <1>3, <1>6 DEF Quiet
  <2> QED
    BY <1>1, <1>6, <2>1 DEF Ends
<1> QED
  BY <1>1, <1>4, <1>5, <1>6 DEF t

--------------------------------------------------------------------------------
(***************************************************************************)
(* The invariant.                                                          *)
(***************************************************************************)
\* Nothing of p is on its way to be acted on.
Rest(p) == Quiet(events, p) /\ pending[p] = {} /\ batch[p] = {}

\* The last that is known of p will not be taken for a removal.
Owed(p) ==
  /\ Ends(events, p)
  /\ Quiet(events, p) => ~PureRemoval(pending[p])
  /\ Quiet(events, p) /\ pending[p] = {} => ~PureRemoval(batch[p])

Clean == faults = 0 /\ ~flags.dryRun
Kept(p) ==
  /\ p \in File /\ Clean => remote[p] = local[p]
  /\ p \in Dir => p \in watched /\ (Clean => remote[p] # None)

\* A directory that was never made anew is watched, and nothing is said of it.
Undisturbed == \A d \in Dir : d \notin remade /\ local[d] # None => d \in watched /\ Rest(d)

Claimed(p) == local[p] # None /\ (p \in File => Parent[p] \notin remade)
Caught == \A p \in Path : Claimed(p) => Owed(p) /\ (Rest(p) => Kept(p))

Inv == TypeOK /\ Root \in watched /\ Undisturbed /\ Caught

LEMMA Facts ==
  /\ Path = File \cup Dir /\ Root \notin Path
  /\ \A p \in Path : Parent[p] \in Dir \cup {Root}
  /\ \A p \in Path : p \in File <=> p \notin Dir
  /\ \A d \in Dir : Parent[d] = Root
  /\ MaxEdits \in Nat /\ MaxFaults \in Nat
BY WatchAssumption DEF Path

LEMMA InitInv == Init => Inv
<1> SUFFICES ASSUME Init PROVE Inv
  OBVIOUS
<1>1. PICK present \in SUBSET File :
        /\ \A f \in present : Parent[f] \in Preexisting \cup {Root}
        /\ local = [p \in Path |-> IF p \in present \cup Preexisting THEN Start ELSE None]
  BY DEF Init
<1>2. /\ events = <<>> /\ pending = Nothing /\ batch = Nothing /\ remote = local
      /\ watched = Preexisting \cup {Root} /\ edits = 0 /\ faults = 0 /\ flags \in Flags
      /\ remade = {} /\ stopped = FALSE
  BY DEF Init
<1>3. \A p \in Path : local[p] = IF p \in present \cup Preexisting THEN Start ELSE None
  BY <1>1
<1>4. \A p \in Path : Rest(p) /\ Owed(p)
  BY <1>2 DEF Rest, Quiet, Owed, Ends, Nothing, PureRemoval
<1>5. TypeOK
  <2>1. local \in [Path -> None .. MaxEdits] /\ remote \in [Path -> Torn .. MaxEdits]
    BY <1>1, <1>2, Facts DEF Start, None, Torn
  <2>2. \A p \in Path : local[p] # None /\ Parent[p] # Root => local[Parent[p]] # None
    BY <1>1, <1>3, Facts, WatchAssumption DEF Start, None
  <2>3. watched \subseteq Dir \cup {Root}
    BY <1>2, WatchAssumption
  <2>4. pending \in [Path -> SUBSET Op] /\ batch \in [Path -> SUBSET Op]
    BY <1>2 DEF Nothing
  <2>5. events \in Seq(Path \X Op)
    BY <1>2
  <2>6. edits \in 0 .. MaxEdits /\ faults \in 0 .. MaxFaults
    BY <1>2, Facts
  <2>7. flags \in Flags /\ remade \subseteq Dir /\ stopped \in BOOLEAN /\ pending = Nothing
    BY <1>2
  <2> QED
    BY <2>1, <2>2, <2>3, <2>4, <2>5, <2>6, <2>7 DEF TypeOK
<1>6. \A d \in Dir : local[d] # None => d \in watched
  BY <1>1, <1>2, <1>3, Facts DEF Start, None
<1>7. \A p \in Path : local[p] # None => Kept(p)
  BY <1>2, <1>6 DEF Kept
<1>8. Undisturbed
  BY <1>4, <1>6, Facts DEF Undisturbed
<1>9. Caught
  BY <1>4, <1>7 DEF Caught, Claimed
<1> QED
  BY <1>2, <1>5, <1>8, <1>9 DEF Inv

\* The user's edits append to the events of the edited path, or not.
LEMMA NotifyEvents ==
  ASSUME events \in Seq(Event), NEW p \in Path, NEW o \in Op, NEW seen, Notify(p, seen),
         seen \in {<< <<p, o>> >>, << <<p, "create">>, <<p, o>> >>}
  PROVE  /\ events' \in Seq(Event)
         /\ \A q \in Path \ {p} : /\ Quiet(events', q) <=> Quiet(events, q)
                                  /\ Ends(events, q) => Ends(events', q)
         /\ Parent[p] \in watched => ~Quiet(events', p) /\ (o # "remove" => Ends(events', p))
<1>1. CASE Parent[p] \notin watched
  BY <1>1 DEF Notify
<1>2. CASE Parent[p] \in watched /\ seen = << <<p, o>> >>
  <2>1. <<p, o>> \in Event /\ events' = events \o << <<p, o>> >>
    BY <1>2 DEF Notify, Event
  <2> QED
    BY <1>2, <2>1, Appended
<1>3. CASE Parent[p] \in watched /\ seen = << <<p, "create">>, <<p, o>> >>
  <2> DEFINE s == events \o << <<p, "create">> >>
  <2>1. <<p, o>> \in Event /\ <<p, "create">> \in Event
    BY DEF Event, Op
  <2>2. /\ s \in Seq(Event)
        /\ \A q \in Path \ {p} : /\ Quiet(s, q) <=> Quiet(events, q)
                                 /\ Ends(events, q) => Ends(s, q)
    BY <2>1, Appended
  <2>3. events' = s \o << <<p, o>> >>
    BY <1>3, <2>1, Twice DEF Notify
  <2> HIDE DEF s
  <2> QED
    BY <2>1, <2>2, <2>3, Appended
<1> QED
  BY <1>1, <1>2, <1>3

LEMMA EventsType == Inv => events \in Seq(Event)
BY DEF Inv, TypeOK, Event

\* What an edit of p does not touch.
LEMMA Others ==
  ASSUME Inv, NEW p \in Path, UNCHANGED <<flags, remote, loop, faults>>,
         \A q \in Path \ {p} : /\ local'[q] = local[q]
                               /\ Quiet(events', q) <=> Quiet(events, q)
                               /\ Ends(events, q) => Ends(events', q),
         remade \subseteq remade', watched \ {p} \subseteq watched',
         \A d \in Dir \ {p} : d \in remade' => d \in remade
  PROVE  /\ \A q \in Path \ {p} : Claimed(q)' => Owed(q)' /\ (Rest(q)' => Kept(q)')
         /\ \A d \in Dir \ {p} : d \notin remade' /\ local'[d] # None => d \in watched' /\ Rest(d)'
<1>1. \A q \in Path \ {p} : (Rest(q)' <=> Rest(q)) /\ (Owed(q) => Owed(q)')
  BY DEF Rest, Owed, loop, PureRemoval
<1>2. \A q \in Path \ {p} : Claimed(q)' => Claimed(q)
  BY DEF Claimed
<1>3. \A q \in Path \ {p} : Kept(q) => Kept(q)'
  BY DEF Kept, Clean
<1>4. \A q \in Path \ {p} : Claimed(q)' => Owed(q)' /\ (Rest(q)' => Kept(q)')
  BY <1>1, <1>2, <1>3 DEF Inv, Caught
<1>5. ASSUME NEW d \in Dir \ {p}, d \notin remade', local'[d] # None PROVE d \in watched' /\ Rest(d)'
  <2>1. d \in Path \ {p}
    BY Facts
  <2>2. d \in watched /\ Rest(d)
    BY <1>5, <2>1 DEF Inv, Undisturbed
  <2> QED
    BY <1>1, <2>1, <2>2
<1> QED
  BY <1>4, <1>5

LEMMA Edited ==
  ASSUME Inv, NEW p \in Path, Edit, NEW c \in None .. MaxEdits, local' = [local EXCEPT ![p] = c],
         NEW o \in Op, NEW seen, Notify(p, seen),
         seen \in {<< <<p, o>> >>, << <<p, "create">>, <<p, o>> >>},
         watched \ {p} \subseteq watched', watched' \subseteq watched,
         remade' \in {remade, remade \cup ({p} \cap Dir)},
         c # None => /\ o # "remove" /\ Parent[p] \in PresentDirs
                     /\ p \in Dir => p \in remade',
         c = None => \A q \in Path : Parent[q] = p => local[q] = None
  PROVE  Inv'
<1>1. /\ UNCHANGED <<flags, remote, loop, faults>> /\ edits' \in 0 .. MaxEdits
  BY Facts DEF Edit, Inv, TypeOK
<1>2. /\ events' \in Seq(Event)
      /\ \A q \in Path \ {p} : /\ Quiet(events', q) <=> Quiet(events, q)
                               /\ Ends(events, q) => Ends(events', q)
      /\ Parent[p] \in watched => ~Quiet(events', p) /\ (o # "remove" => Ends(events', p))
  BY EventsType, NotifyEvents
<1>3. /\ \A q \in Path : local'[q] = IF q = p THEN c ELSE local[q]
      /\ local' \in [Path -> None .. MaxEdits]
  BY DEF Inv, TypeOK
<1>4. TypeOK'
  <2>1. ASSUME NEW q \in Path, local'[q] # None, Parent[q] # Root PROVE local'[Parent[q]] # None
    <3>1. Parent[q] \in Dir /\ Parent[q] \in Path
      BY <2>1, Facts
    <3>2. CASE q = p
      <4>1. local[Parent[p]] # None /\ Parent[p] # p
        BY <1>3, <2>1, <3>1, <3>2, Facts DEF PresentDirs
      <4> QED
        BY <1>3, <3>1, <3>2, <4>1
    <3>3. CASE q # p
      <4>1. local[q] # None
        BY <1>3, <2>1, <3>3
      <4>2. local[Parent[q]] # None
        BY <2>1, <4>1 DEF Inv, TypeOK
      <4> QED
        BY <1>3, <3>1, <4>1, <4>2
    <3> QED
      BY <3>2, <3>3
  <2>2. watched' \subseteq Dir \cup {Root} /\ remade' \subseteq Dir
    BY DEF Inv, TypeOK
  <2> QED
    BY <1>1, <1>2, <1>3, <2>1, <2>2 DEF Inv, TypeOK, Event, loop
<1>5. Root \in watched'
  BY Facts DEF Inv
<1>6. /\ \A q \in Path \ {p} : Claimed(q)' => Owed(q)' /\ (Rest(q)' => Kept(q)')
      /\ \A d \in Dir \ {p} : d \notin remade' /\ local'[d] # None => d \in watched' /\ Rest(d)'
  BY <1>1, <1>2, <1>3, Others
<1>7. Undisturbed'
  <2>1. p \in Dir => p \in remade' \/ local'[p] = None
    BY <1>3
  <2> QED
    BY <1>6, <2>1 DEF Undisturbed
<1>8. ASSUME Claimed(p)' PROVE Owed(p)' /\ ~Rest(p)'
  <2>1. c # None
    BY <1>3, <1>8 DEF Claimed
  <2>2. Parent[p] \in watched
    <3>1. CASE Parent[p] = Root
      BY <3>1 DEF Inv
    <3>2. CASE Parent[p] # Root
      <4>1. Parent[p] \in Dir /\ local[Parent[p]] # None /\ p \in File
        BY <2>1, <3>2, Facts DEF PresentDirs
      <4>2. Parent[p] \notin remade
        BY <1>8, <4>1 DEF Claimed
      <4> QED
        BY <4>1, <4>2 DEF Inv, Undisturbed
    <3> QED
      BY <3>1, <3>2
  <2>3. ~Quiet(events', p) /\ Ends(events', p)
    BY <1>2, <2>1, <2>2
  <2> QED
    BY <2>3 DEF Owed, Rest
<1>9. Caught'
  BY <1>6, <1>8 DEF Caught
<1> QED
  BY <1>4, <1>5, <1>7, <1>9 DEF Inv

LEMMA UserInv ==
  ASSUME Inv, \/ \E f \in File : SaveFile(f) \/ RemoveFile(f)
              \/ \E d \in Dir : MakeDir(d) \/ RemoveDir(d)
  PROVE  Inv'
<1>0. /\ edits \in Nat /\ MaxEdits \in Nat /\ None \in None .. MaxEdits /\ Start \in None .. MaxEdits
      /\ Start # None /\ {"create", "write", "remove"} = Op
  BY Facts DEF Inv, TypeOK, None, Start, Op
<1>1. ASSUME NEW f \in File, SaveFile(f) PROVE Inv'
  <2> DEFINE seen == IF local[f] = None THEN << <<f, "create">>, <<f, "write">> >>
                     ELSE << <<f, "write">> >>
  <2>1. /\ Edit /\ Parent[f] \in PresentDirs /\ local' = [local EXCEPT ![f] = edits + 1]
        /\ Notify(f, seen) /\ watched' = watched /\ remade' = remade
    BY <1>1 DEF SaveFile
  <2>2. edits + 1 \in None .. MaxEdits /\ edits + 1 # None
    BY <1>0, <2>1 DEF Edit, None
  <2>3. f \in Path /\ f \notin Dir /\ "write" \in Op
    BY <1>0, Facts
  <2>4. seen \in {<< <<f, "write">> >>, << <<f, "create">>, <<f, "write">> >>}
    OBVIOUS
  <2> HIDE DEF seen
  <2> QED
    BY <2>1, <2>2, <2>3, <2>4, Edited
<1>2. ASSUME NEW f \in File, RemoveFile(f) PROVE Inv'
  <2>1. /\ Edit /\ local' = [local EXCEPT ![f] = None] /\ Notify(f, << <<f, "remove">> >>)
        /\ watched' = watched /\ remade' = remade
    BY <1>2 DEF RemoveFile
  <2>2. f \in Path /\ "remove" \in Op /\ \A q \in Path : Parent[q] # f
    BY <1>0, Facts
  <2> QED
    BY <1>0, <2>1, <2>2, Edited
<1>3. ASSUME NEW d \in Dir, MakeDir(d) PROVE Inv'
  <2>1. /\ Edit /\ local' = [local EXCEPT ![d] = Start] /\ Notify(d, << <<d, "create">> >>)
        /\ watched' = watched /\ remade' = remade \cup {d}
    BY <1>3 DEF MakeDir
  <2>2. d \in Path /\ "create" \in Op /\ Parent[d] \in PresentDirs /\ {d} \cap Dir = {d}
    BY <1>0, Facts DEF PresentDirs
  <2> QED
    BY <1>0, <2>1, <2>2, Edited
<1>4. ASSUME NEW d \in Dir, RemoveDir(d) PROVE Inv'
  <2>1. /\ Edit /\ local' = [local EXCEPT ![d] = None] /\ Notify(d, << <<d, "remove">> >>)
        /\ watched' = watched \ {d} /\ remade' = remade
        /\ \A f \in File : Parent[f] = d => local[f] = None
    BY <1>4 DEF RemoveDir
  <2>2. d \in Path /\ "remove" \in Op /\ \A q \in Path : Parent[q] = d => q \in File
    BY <1>0, Facts
  <2> QED
    BY <1>0, <2>1, <2>2, Edited
<1> QED
  BY <1>1, <1>2, <1>3, <1>4

LEMMA ReceiveInv == ASSUME Inv, Receive PROVE Inv'
<1> DEFINE p == Head(events)[1]
           o == Head(events)[2]
<1>1. /\ events \in Seq(Event) /\ events # <<>> /\ events' = Tail(events)
      /\ pending' = [pending EXCEPT ![p] = @ \cup {o}] /\ batch = Nothing
      /\ UNCHANGED <<flags, remade, local, remote, watched, batch, stopped, edits, faults>>
  BY EventsType DEF Receive, Idle
<1>2. Head(events) \in Event /\ Tail(events) \in Seq(Event)
  BY <1>1
<1>3. p \in Path /\ o \in Op
  BY <1>2 DEF Event
<1> HIDE DEF p, o
<1>4. \A q \in Path : pending'[q] = IF q = p THEN pending[q] \cup {o} ELSE pending[q]
  BY <1>1 DEF Inv, TypeOK
<1>5. \A q \in Path : /\ Quiet(events, q) <=> p # q /\ Quiet(events', q)
                      /\ Ends(events, q) => Ends(events', q)
                      /\ Ends(events, q) /\ p = q /\ Quiet(events', q) => o # "remove"
  BY <1>1, Received DEF p, o
<1>6. TypeOK'
  BY <1>1, <1>2, <1>3 DEF Inv, TypeOK, Event
<1>7. ASSUME NEW q \in Path PROVE Rest(q)' <=> Rest(q)
  <2>1. CASE q = p
    <3>1. ~Quiet(events, q) /\ pending'[q] # {}
      BY <1>4, <1>5, <2>1
    <3> QED
      BY <3>1 DEF Rest
  <2>2. CASE q # p
    BY <1>1, <1>4, <1>5, <2>2 DEF Rest
  <2> QED
    BY <2>1, <2>2
<1>8. ASSUME NEW q \in Path, Owed(q) PROVE Owed(q)'
  <2>1. batch[q] = {} /\ batch' = batch
    BY <1>1 DEF Nothing
  <2>2. Ends(events', q)
    BY <1>5, <1>8 DEF Owed
  <2>3. CASE q = p
    <3>1. Quiet(events', q) => o \in {"create", "write"}
      BY <1>3, <1>5, <1>8, <2>3 DEF Op, Owed
    <3>2. Quiet(events', q) => ~PureRemoval(pending'[q])
      BY <1>4, <2>3, <3>1 DEF PureRemoval
    <3> QED
      BY <2>1, <2>2, <3>2 DEF Owed, PureRemoval
  <2>4. CASE q # p
    BY <1>4, <1>5, <1>8, <2>1, <2>2, <2>4 DEF Owed
  <2> QED
    BY <2>3, <2>4
<1>9. \A q \in Path : (Kept(q)' <=> Kept(q)) /\ (Claimed(q)' <=> Claimed(q))
  BY <1>1 DEF Kept, Clean, Claimed
<1>10. Undisturbed' /\ Caught'
  BY <1>1, <1>7, <1>8, <1>9, Facts DEF Inv, Undisturbed, Caught
<1> QED
  BY <1>1, <1>6, <1>10 DEF Inv

LEMMA TickInv == ASSUME Inv, Tick PROVE Inv'
<1>1. /\ batch' = pending /\ pending' = Nothing /\ batch = Nothing
      /\ UNCHANGED <<flags, remade, local, remote, watched, events, stopped, edits, faults>>
  BY DEF Tick, Idle
<1>2. TypeOK'
  BY <1>1 DEF Inv, TypeOK, Nothing
<1>3. \A q \in Path : (Rest(q)' <=> Rest(q)) /\ (Owed(q) => Owed(q)')
  BY <1>1 DEF Rest, Owed, Nothing, PureRemoval
<1>4. \A q \in Path : (Kept(q)' <=> Kept(q)) /\ (Claimed(q)' <=> Claimed(q))
  BY <1>1 DEF Kept, Clean, Claimed
<1>5. Undisturbed' /\ Caught'
  BY <1>1, <1>3, <1>4, Facts DEF Inv, Undisturbed, Caught
<1> QED
  BY <1>1, <1>2, <1>5 DEF Inv

\* One path of the batch is acted on: what the action owes the others and this one.
LEMMA HandleInv ==
  ASSUME Inv, NEW p \in Path, Handle(p),
         faults' \in 0 .. MaxFaults, faults' = 0 => faults = 0,
         remote' \in [Path -> Torn .. MaxEdits],
         watched' \in {watched, watched \cup ({p} \cap Dir)},
         \A q \in Path \ {p} :
           /\ q \in File /\ Claimed(q) /\ Clean' => remote'[q] = remote[q]
           /\ q \in Dir /\ Clean' => (remote[q] # None => remote'[q] # None),
         Claimed(p) /\ ~PureRemoval(batch[p]) => Kept(p)'
  PROVE  Inv'
<1>1. /\ batch[p] # {} /\ batch' = [batch EXCEPT ![p] = {}]
      /\ UNCHANGED <<flags, remade, local, events, pending, stopped, edits>>
  BY DEF Handle
<1>2. \A q \in Path : batch'[q] = IF q = p THEN {} ELSE batch[q]
  BY <1>1 DEF Inv, TypeOK
<1>3. pending = Nothing
  BY <1>1 DEF Inv, TypeOK, Nothing
<1>4. TypeOK'
  BY <1>1, <1>3, Facts DEF Inv, TypeOK
<1>5. \A q \in Path : Claimed(q)' <=> Claimed(q)
  BY <1>1 DEF Claimed
<1>6. \A q \in Path : Owed(q) => Owed(q)'
  BY <1>1, <1>2 DEF Owed, PureRemoval
<1>7. \A q \in Path \ {p} : Rest(q)' <=> Rest(q)
  BY <1>1, <1>2 DEF Rest
<1>8. \A q \in Path \ {p} : Claimed(q) /\ Kept(q) => Kept(q)'
  BY <1>1 DEF Kept, Clean
<1>9. \A q \in Path \ {p} : Claimed(q)' => Owed(q)' /\ (Rest(q)' => Kept(q)')
  BY <1>5, <1>6, <1>7, <1>8 DEF Inv, Caught
<1>10. ASSUME Claimed(p), Rest(p)' PROVE Kept(p)'
  <2>1. Quiet(events, p) /\ pending[p] = {}
    BY <1>1, <1>10 DEF Rest
  <2>2. ~PureRemoval(batch[p])
    BY <1>10, <2>1 DEF Inv, Caught, Owed
  <2> QED
    BY <1>10, <2>2
<1>11. Caught'
  BY <1>5, <1>6, <1>9, <1>10 DEF Inv, Caught
<1>12. Undisturbed'
  <2> SUFFICES ASSUME NEW d \in Dir, d \notin remade', local'[d] # None
               PROVE  d \in watched' /\ Rest(d)'
    BY DEF Undisturbed
  <2>1. d \in Path /\ d \in watched /\ Rest(d)
    BY <1>1, Facts DEF Inv, Undisturbed
  <2>2. d # p
    BY <1>1, <2>1 DEF Rest
  <2> QED
    BY <1>7, <2>1, <2>2
<1> QED
  BY <1>4, <1>11, <1>12 DEF Inv

LEMMA HandleNextInv == ASSUME Inv, HandleNext PROVE Inv'
<1>0. /\ faults \in 0 .. MaxFaults /\ MaxFaults \in Nat /\ MaxEdits \in Nat
      /\ remote \in [Path -> Torn .. MaxEdits] /\ local \in [Path -> None .. MaxEdits]
      /\ None \in Torn .. MaxEdits /\ Torn \in Torn .. MaxEdits /\ Start \in Torn .. MaxEdits
      /\ Start # None
      /\ \A q \in Path : local[q] \in Torn .. MaxEdits
  BY Facts DEF Inv, TypeOK, None, Torn, Start
<1>f. ASSUME NEW outcomes, Fault(outcomes)
      PROVE  /\ faults' \in 0 .. MaxFaults /\ faults' # 0 /\ ~Clean' /\ remote' \in outcomes
  BY <1>0, <1>f DEF Fault, Clean
<1>1. ASSUME NEW p \in Path, HandleRemoval(p) PROVE Inv'
  <2>1. PureRemoval(batch[p]) /\ Handle(p) /\ watched' = watched
    BY <1>1 DEF HandleRemoval
  <2>2. ASSUME NEW gone \in SUBSET Path
        PROVE  /\ Without(gone) \in [Path -> Torn .. MaxEdits]
               /\ \A q \in Path : Without(gone)[q] = IF q \in gone THEN None ELSE remote[q]
    BY <1>0 DEF Without
  <2>3. CASE flags.delete /\ remote' = Without({p} \cup Beneath(p)) /\ UNCHANGED faults
    <3>1. \A q \in Dir \ {p} : q \in Path /\ q \notin Beneath(p)
      BY Facts DEF Beneath
    <3>2. ASSUME NEW q \in File, Claimed(q), q \in Beneath(p) PROVE FALSE
      <4>1. p \in Dir /\ p \notin remade /\ q \in Path /\ Parent[q] = p /\ Parent[q] # Root
        BY <3>2, Facts DEF Beneath, Claimed
      <4>2. local[p] # None
        BY <3>2, <4>1 DEF Inv, TypeOK, Claimed
      <4>3. batch[p] = {}
        BY <4>1, <4>2 DEF Inv, Undisturbed, Rest
      <4> QED
        BY <2>1, <4>3 DEF Handle
    <3>3. {p} \cup Beneath(p) \in SUBSET Path
      BY DEF Beneath
    <3> QED
      BY <1>0, <2>1, <2>2, <2>3, <3>1, <3>2, <3>3, HandleInv
  <2>4. CASE Fault({Without(gone) : gone \in SUBSET Beneath(p)})
    <3>1. \A gone \in SUBSET Beneath(p) : gone \in SUBSET Path
      BY DEF Beneath
    <3>2. remote' \in [Path -> Torn .. MaxEdits]
      BY <1>f, <2>2, <2>4, <3>1
    <3> QED
      BY <1>f, <2>1, <2>4, <3>2, HandleInv
  <2>5. CASE UNCHANGED <<remote, faults>>
    BY <1>0, <2>1, <2>5, HandleInv
  <2> QED
    BY <1>1, <2>3, <2>4, <2>5 DEF HandleRemoval
<1>2. ASSUME NEW p \in Path, HandleGone(p) PROVE Inv'
  <2>1. Handle(p) /\ ~Claimed(p) /\ UNCHANGED <<remote, watched, faults>>
    BY <1>2 DEF HandleGone, Claimed
  <2> QED
    BY <1>0, <2>1, HandleInv
<1>3. ASSUME NEW d \in Dir, HandleDir(d) PROVE Inv'
  <2>1. /\ Handle(d) /\ watched' = watched \cup {d} /\ d \in Path /\ d \notin File
        /\ watched' \in {watched, watched \cup ({d} \cap Dir)} /\ flags' = flags
    BY <1>3, Facts DEF HandleDir, Handle
  <2>2. CASE flags.dryRun /\ UNCHANGED <<remote, faults>>
    <3>1. Kept(d)'
      BY <2>1, <2>2 DEF Kept, Clean
    <3> QED
      BY <1>0, <2>1, <2>2, <3>1, HandleInv
  <2>3. CASE remote' = [remote EXCEPT ![d] = Start] /\ UNCHANGED faults
    <3>1. remote' \in [Path -> Torn .. MaxEdits] /\ remote'[d] = Start
      BY <1>0, <2>1, <2>3
    <3>2. Kept(d)'
      BY <1>0, <2>1, <3>1 DEF Kept
    <3> QED
      BY <1>0, <2>1, <2>3, <3>1, <3>2, HandleInv
  <2>4. CASE Fault({remote, [remote EXCEPT ![d] = Start]})
    <3>1. remote' \in [Path -> Torn .. MaxEdits]
      BY <1>0, <1>f, <2>1, <2>4
    <3>2. Kept(d)'
      BY <1>f, <2>1, <2>4 DEF Kept
    <3> QED
      BY <1>f, <2>1, <2>4, <3>1, <3>2, HandleInv
  <2> QED
    BY <1>3, <2>2, <2>3, <2>4 DEF HandleDir
<1>4. ASSUME NEW f \in File, HandleFile(f) PROVE Inv'
  <2>1. /\ Handle(f) /\ watched' = watched /\ f \in Path /\ f \notin Dir /\ Parent[f] \in Dir \cup {Root}
        /\ flags' = flags /\ local' = local
    BY <1>4, Facts DEF HandleFile, Handle
  <2>2. ASSUME NEW c \in Torn .. MaxEdits
        PROVE  /\ With(f, c) \in [Path -> Torn .. MaxEdits]
               /\ With(f, c)[f] = c
               /\ \A q \in Path \ {f} : With(f, c)[q] = IF q = Parent[f] THEN Start ELSE remote[q]
    BY <1>0, <2>1 DEF With
  <2>3. CASE flags.dryRun /\ UNCHANGED <<remote, faults>>
    <3>1. Kept(f)'
      BY <2>1, <2>3 DEF Kept, Clean
    <3> QED
      BY <1>0, <2>1, <2>3, <3>1, HandleInv
  <2>4. CASE remote' = With(f, local[f]) /\ UNCHANGED faults
    <3>1. Kept(f)'
      BY <1>0, <2>1, <2>2, <2>4 DEF Kept
    <3>2. \A q \in Path \ {f} : /\ q \in File => remote'[q] = remote[q]
                                /\ q \in Dir => (remote[q] # None => remote'[q] # None)
      BY <1>0, <2>1, <2>2, <2>4, Facts
    <3>3. remote' \in [Path -> Torn .. MaxEdits]
      BY <1>0, <2>1, <2>2, <2>4
    <3> QED
      BY <1>0, <2>1, <2>4, <3>1, <3>2, <3>3, HandleInv
  <2>5. CASE Fault({remote, With(f, remote[f]), With(f, Torn)})
    <3>1. remote' \in [Path -> Torn .. MaxEdits]
      <4>1. remote[f] \in Torn .. MaxEdits
        BY <1>0, <2>1
      <4>2. /\ With(f, remote[f]) \in [Path -> Torn .. MaxEdits]
            /\ With(f, Torn) \in [Path -> Torn .. MaxEdits]
        BY <1>0, <2>2, <4>1
      <4>3. remote' \in {remote, With(f, remote[f]), With(f, Torn)}
        BY <1>f, <2>5
      <4> QED
        BY <1>0, <4>2, <4>3
    <3>2. Kept(f)'
      BY <1>f, <2>1, <2>5 DEF Kept
    <3> QED
      BY <1>f, <2>1, <2>5, <3>1, <3>2, HandleInv
  <2> QED
    BY <1>4, <2>3, <2>4, <2>5 DEF HandleFile
<1> QED
  BY <1>1, <1>2, <1>3, <1>4 DEF HandleNext

LEMMA SameInv == ASSUME Inv, UNCHANGED <<flags, local, remote, watched, events, pending, batch, edits, faults, remade>>,
                        stopped' \in BOOLEAN
                 PROVE  Inv'
<1>1. TypeOK'
  BY DEF Inv, TypeOK
<1>2. \A q \in Path : (Rest(q)' <=> Rest(q)) /\ (Owed(q)' <=> Owed(q))
  BY DEF Rest, Owed
<1>3. \A q \in Path : (Kept(q)' <=> Kept(q)) /\ (Claimed(q)' <=> Claimed(q))
  BY DEF Kept, Clean, Claimed
<1>4. Undisturbed' /\ Caught'
  BY <1>2, <1>3, Facts DEF Inv, Undisturbed, Caught
<1> QED
  BY <1>1, <1>4 DEF Inv

LEMMA NextInv == Inv /\ [Next]_vars => Inv'
<1> SUFFICES ASSUME Inv, [Next]_vars PROVE Inv'
  OBVIOUS
<1>1. stopped \in BOOLEAN
  BY DEF Inv, TypeOK
<1>2. CASE UNCHANGED vars
  BY <1>1, <1>2, SameInv DEF vars, loop
<1>3. CASE Stop
  BY <1>3, SameInv DEF Stop
<1> QED
  BY <1>2, <1>3, UserInv, ReceiveInv, TickInv, HandleNextInv DEF Next, Terminated

\* What is on its way to be acted on, and what was acted on, agree with the files.
THEOREM InvCorrect == Spec => []Inv
BY InitInv, NextInv, PTL DEF Spec

\* Every step of the user and of the loop keeps the variables in their ranges, and
\* the loop collects events only when no batch is being worked through.
THEOREM TypeCorrect == Spec => []TypeOK
BY InvCorrect, PTL DEF Inv

\* Once the loop has caught up, the remote side has the latest content of every file
\* that is not in a directory made meanwhile, for any number of files and edits.
THEOREM UploadedCorrect == Spec => []Uploaded
<1>1. Inv => Uploaded
  <2> SUFFICES ASSUME Inv, Settled, ~flags.dryRun, NEW f \in File, local[f] # None, Parent[f] \notin remade
               PROVE  remote[f] = local[f]
    BY DEF Uploaded
  <2>1. f \in Path /\ Claimed(f)
    BY Facts DEF Claimed
  <2>2. Rest(f)
    BY <2>1 DEF Settled, CaughtUp, Rest, Quiet, Nothing
  <2>3. Kept(f)
    BY <2>1, <2>2 DEF Inv, Caught
  <2> QED
    BY <2>3 DEF Kept, Clean, Settled
<1> QED
  BY <1>1, InvCorrect, PTL

\* Once the loop has caught up, every directory is watched and is there on the remote
\* side, however often it was removed and made again.
THEOREM DirsWatchedCorrect == Spec => []DirsWatched
<1>1. Inv => DirsWatched
  <2> SUFFICES ASSUME Inv, Settled, NEW d \in Dir, local[d] # None
               PROVE  d \in watched /\ (~flags.dryRun => remote[d] # None)
    BY DEF DirsWatched
  <2>1. d \in Path /\ Claimed(d)
    BY Facts DEF Claimed
  <2>2. Rest(d)
    BY <2>1 DEF Settled, CaughtUp, Rest, Quiet, Nothing
  <2>3. Kept(d)
    BY <2>1, <2>2 DEF Inv, Caught
  <2> QED
    BY <2>3 DEF Kept, Clean, Settled
<1> QED
  BY <1>1, InvCorrect, PTL
================================================================================

------------------------------- MODULE MCSyncDir -------------------------------
(***************************************************************************)
(* Instances of SyncDir for TLC.  Under the root, "a" may be a file or a   *)
(* directory and "b" a file; mtimes are 1 and 2, so that a file may be     *)
(* older than, as old as, or newer than the other side's, and 4 where the  *)
(* server's clock leads the local one.                                     *)
(***************************************************************************)
EXTENDS SyncDir

Files(s, times) == {Absent} \cup {File(s, t) : t \in times}

\* The trees whose entries "a", "b" and "a"/x are taken from the three sets.
TreesOf(as, bs, kids) ==
  {[p \in Path |-> CASE p = Root -> Dir(1)
                     [] p = <<"a">> -> t.a
                     [] p = <<"b">> -> t.b
                     [] Len(p) = 2 /\ p[1] = "a" /\ t.a.kind = "dir" -> t.kids[p[2]]
                     [] OTHER -> Absent] :
     t \in [a : as, b : bs, kids : [Name -> kids]]}

NoTree == [p \in Path |-> Absent]

Pairs(Of(_)) ==
  LET Sides(s) == Of(s) \cup {NoTree}
  IN {[local |-> l, remote |-> r] : l \in Sides("local"), r \in Sides("remote")}

\* Files of one age, a subdirectory on either side.
DeepTrees ==
  LET Of(s) == TreesOf(Files(s, {1}) \cup {Dir(1)}, Files(s, {1}), Files(s, {1}))
  IN Pairs(Of)

\* The subdirectory holds files of two ages.
AgedTrees ==
  LET Of(s) == TreesOf({Absent, Dir(1)}, Files(s, {1, 2}), Files(s, {1, 2}))
  IN Pairs(Of)

\* The same without "b", the remote files also of an age that the local clock, which
\* shows 3 when Sync is called first, has not reached.
ApartTrees ==
  LET Times(s) == IF s = "remote" THEN {1, 2, 4} ELSE {1, 2}
      Of(s) == TreesOf({Absent, Dir(1)}, {Absent}, Files(s, Times(s)))
  IN Pairs(Of)

\* Two files of two ages on each side and no subdirectory.
FlatTrees ==
  LET Of(s) == TreesOf(Files(s, {1, 2}), Files(s, {1, 2}), {Absent})
  IN Pairs(Of)

Opt(direction, concurrency, flags, offset) ==
  [direction |-> direction, concurrency |-> concurrency,
   delete |-> "delete" \in flags, skipCreate |-> "skipCreate" \in flags,
   ignoreExisting |-> "ignoreExisting" \in flags, update |-> "update" \in flags,
   offset |-> offset]

Flags == SUBSET {"delete", "skipCreate", "ignoreExisting", "update"}

AllOptions == {Opt("localToRemote", 2, f, 0) : f \in Flags}
                \cup {Opt("remoteToLocal", 1, f, 0) : f \in SUBSET {"delete", "update"}}
SerialOptions == {Opt("localToRemote", 1, {"delete"} \cup f, 0) : f \in SUBSET {"skipCreate"}}
UpdateOptions(offsets) ==
  {Opt(d.side, 1, d.flags, o) : o \in offsets,
     d \in {[side |-> "localToRemote", flags |-> {"update"}],
            [side |-> "remoteToLocal", flags |-> {"update", "delete"}]}}
BothOptions == {Opt("both", 2, {}, o) : o \in {0, 1}}

CallsOf(options, trees, times) ==
  {[opts |-> o, trees |-> t, rounds |-> times] : o \in options, t \in trees}

\* Every combination of the flags for uploads, some for downloads; update twice in
\* a row, on files older than, as old as and newer than the other side's; both
\* directions, with clocks in step and an hour apart, and on trees with subdirectories.
AllCalls ==
  CallsOf(AllOptions \cup SerialOptions, DeepTrees, 1)
    \cup CallsOf(UpdateOptions({0}), AgedTrees, 2)
    \cup CallsOf(UpdateOptions({-2, 2}), ApartTrees, 2)
    \cup CallsOf(BothOptions, FlatTrees, 1)
    \cup CallsOf({Opt("both", 1, {}, 0)}, DeepTrees, 1)

\* Deletion in both one-way directions.
DeleteCalls ==
  CallsOf({Opt(d, 2, {"delete"}, 0) : d \in {"localToRemote", "remoteToLocal"}}, DeepTrees, 1)
================================================================================

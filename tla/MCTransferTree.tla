---------------------------- MODULE MCTransferTree ----------------------------
(* Instances of TransferTree for TLC. *)
EXTENDS TransferTree

\* The trees whose first-level entries are taken from `tops` and whose entries
\* below a first-level directory are taken from `kids`.
TreesOf(tops, kids) ==
  {[p \in Path |-> CASE p = Root -> "dir"
                     [] Len(p) = 1 -> t[p[1]]
                     [] OTHER -> IF t[p[1]] = "dir" THEN k[p[2]] ELSE "none"] :
     t \in [Name -> tops], k \in [Name -> kids]}

NoTree == [p \in Path |-> "none"]

\* Any tree, onto nothing, onto old files, onto files where directories go, and the
\* other way round.
SmallTrees ==
  {[src |-> s, dst |-> d] :
     s \in {t \in TreesOf({"none", "dir", "new"}, {"none", "new"}) : t[<<"log">>] # "none"},
     d \in {NoTree} \cup TreesOf({"old"}, {"none"}) \cup TreesOf({"dir"}, {"old"})}

\* Every first-level entry is a directory full of files.
FullTrees == {[src |-> s, dst |-> NoTree] : s \in TreesOf({"dir"}, {"new"})}

Call(t, c, dry) == [src |-> t.src, dst |-> t.dst, concurrency |-> c, dryRun |-> dry]

\* One task at a time on any tree, two on full ones, and the dry runs of both.
SmallCalls ==
  UNION {{Call(t, 1, d) : t \in SmallTrees} \cup {Call(t, 2, d) : t \in FullTrees} :
           d \in BOOLEAN}
================================================================================

------------------------------ MODULE FtpBackend ------------------------------
(***************************************************************************)
(* MkdirAll and RemoveAll of the FTP backend (internal/client/ftp.go), which *)
(* FTP does not have: they are made of LIST, MKD, DELE and RMD commands on   *)
(* the client's control connection, and other clients of the server work in  *)
(* between.  The client connects and closes as in Connection.                *)
(*                                                                         *)
(* The server's tree is a function from the paths that exist to their kind;  *)
(* a path is a sequence of names and <<>> the root.  RemoveAll calls itself: *)
(* `stack` holds, per call, the directory and the entries it has still to    *)
(* visit of those it listed.                                               *)
(***************************************************************************)
EXTENDS Connection, SequencesExt

CONSTANTS
  Name,         \* the names of files and directories
  Trees,        \* the trees the server may hold at the start
  Operations,   \* the calls: [op : {"MkdirAll", "RemoveAll"}, path : Seq(Name)]
  MaxOther,     \* bound on the changes by other clients during a call
  MaxFaults     \* bound on the commands the server refuses

Kinds == {"dir", "file"}

\* Every path of a tree stands below directories, and the root is one.
WellFormed(t) ==
  /\ <<>> \in DOMAIN t /\ t[<<>>] = "dir"
  /\ \A q \in DOMAIN t :
       /\ q \in Seq(Name) /\ t[q] \in Kinds
       /\ \A n \in 0 .. Len(q) - 1 :
            LET above == SubSeq(q, 1, n) IN above \in DOMAIN t /\ t[above] = "dir"

ASSUME FtpAssumption ==
  /\ \A t \in Trees : WellFormed(t)
  /\ Operations # {}
  /\ \A c \in Operations : c.op \in {"MkdirAll", "RemoveAll"} /\ c.path \in Seq(Name)
  /\ MaxOther \in Nat /\ MaxFaults \in Nat

VARIABLES
  tree,      \* path -> "dir" or "file"
  call,      \* the operation under way, or the last one
  at,        \* "idle", the command that is next, or how the operation ended
  stack,     \* RemoveAll: the calls, each [path, entries]
  made,      \* MkdirAll: how many components it has dealt with
  others, faults,
  unlisted,  \* history: did the first LIST of this call fail?
  disturbed  \* history: was something removed, or a command refused, during it?

ftpVars == <<tree, call, at, stack, made, others, faults, unlisted, disturbed>>
vars == <<connVars, ftpVars>>

Ended == {"idle", "nil", "error"}

Children(d) == {p \in DOMAIN tree : Len(p) = Len(d) + 1 /\ IsPrefix(d, p)}
Below(d) == {p \in DOMAIN tree : IsPrefix(d, p)}
IsDir(p) == p \in DOMAIN tree /\ tree[p] = "dir"
Empty(p) == IsDir(p) /\ Children(p) = {} /\ p # <<>>
Without(p) == [q \in DOMAIN tree \ {p} |-> tree[q]]
With(p, kind) == [q \in DOMAIN tree \cup {p} |-> IF q = p THEN kind ELSE tree[q]]

Init ==
  /\ ConnInit
  /\ tree \in Trees
  /\ call = CHOOSE c \in Operations : TRUE
  /\ at = "idle" /\ stack = <<>> /\ made = 0
  /\ others = 0 /\ faults = 0
  /\ unlisted = FALSE /\ disturbed = FALSE

Call ==
  /\ pc = "connected" /\ cfg.protocol = "ftp" /\ at \in Ended
  /\ call' \in Operations
  /\ at' = IF call'.op = "MkdirAll" THEN "mkdir" ELSE "list"
  /\ stack' = <<>> /\ made' = 0
  /\ unlisted' = FALSE /\ disturbed' = FALSE
  /\ UNCHANGED <<connVars, tree, others, faults>>

\* The server carries a command out, or refuses it.
Accepted == Control \in open /\ UNCHANGED faults
Refused == \/ Control \notin open /\ UNCHANGED faults
           \/ faults < MaxFaults /\ faults' = faults + 1

\* --- MkdirAll: one MKD per component; any answer with 550 counts as "already
\* exists", whatever it was about.
\* Faulty variant: the components are not joined.
Component_Bare == <<call.path[made + 1]>>
Component == SubSeq(call.path, 1, made + 1)
MakeDir ==
  LET p == Component
      ok == IsDir(Front(p)) /\ p \notin DOMAIN tree
  IN
  /\ at = "mkdir" /\ made < Len(call.path)
  /\ \/ /\ Accepted
        /\ tree' = IF ok THEN With(p, "dir") ELSE tree
        /\ made' = made + 1 /\ at' = at /\ UNCHANGED disturbed
     \/ /\ Refused                                   \* 550 permission denied
        /\ Control \in open
        /\ made' = made + 1 /\ at' = at /\ disturbed' = TRUE /\ tree' = tree
     \/ /\ Refused                                   \* anything else
        /\ at' = "error" /\ UNCHANGED <<made, disturbed, tree>>
  /\ UNCHANGED <<connVars, call, stack, others, unlisted>>

MkdirReturns ==
  /\ at = "mkdir" /\ made = Len(call.path)
  /\ at' = "nil"
  /\ UNCHANGED <<connVars, tree, call, stack, made, others, faults, unlisted, disturbed>>

\* --- RemoveAll
\* The directory the innermost call is about.
Dir == Last(stack).path
\* Faulty variant: the entry's name is not joined with its directory.
Child_Bare(name) == <<name>>
Child(name) == Append(Dir, name)

\* A call that ends with nil goes on with the next entry of its caller.
Return(rest) == stack' = rest /\ at' = IF rest = <<>> THEN "nil" ELSE "visit"

\* What LIST of p may answer with: the entries of a directory; for a file, its
\* own entry or an error, as the server likes.
Listings(p) ==
  IF IsDir(p) THEN {{<<Last(q), tree[q]>> : q \in Children(p)}}
  ELSE IF p \in DOMAIN tree THEN {{<<Last(p), "file">>}} ELSE {}
MayFail(p) == ~IsDir(p)

\* The LIST of the call for path p on top of `callers`; its failure is taken
\* for "may already not exist".
List(p, callers) ==
  \/ /\ Accepted
     /\ \E l \in Listings(p) : stack' = Append(callers, [path |-> p, entries |-> l])
     /\ at' = "visit"
     /\ UNCHANGED unlisted
  \/ /\ (Accepted /\ MayFail(p)) \/ Refused
     /\ Return(callers)
     /\ unlisted' = (unlisted \/ callers = <<>>)

ListFirst ==
  /\ at = "list"
  /\ List(call.path, <<>>)
  /\ UNCHANGED <<connVars, tree, call, made, others, disturbed>>

\* One turn of the loop over the entries: a directory is a call of its own, a
\* file is deleted.
VisitEntry ==
  /\ at = "visit"
  /\ \E e \in Last(stack).entries :
       LET child == Child(e[1])
           callers == [stack EXCEPT ![Len(stack)].entries = @ \ {e}]
       IN
       IF e[2] = "dir"
       THEN List(child, callers) /\ UNCHANGED tree
       ELSE /\ \/ /\ Accepted /\ child \in DOMAIN tree /\ tree[child] = "file"
                  /\ tree' = Without(child)
                  /\ stack' = callers /\ at' = at
               \/ /\ (Accepted /\ (child \notin DOMAIN tree \/ IsDir(child))) \/ Refused
                  /\ at' = "error" /\ stack' = <<>> /\ tree' = tree
            /\ UNCHANGED unlisted
  /\ UNCHANGED <<connVars, call, made, others, disturbed>>

\* Faulty variant: the answer to RMD is ignored.
RemoveDir_Ignored ==
  /\ at = "visit" /\ Last(stack).entries = {}
  /\ \/ /\ Accepted /\ Empty(Dir)
        /\ tree' = Without(Dir)
     \/ /\ (Accepted /\ ~Empty(Dir)) \/ Refused
        /\ tree' = tree
  /\ Return(Front(stack))
  /\ UNCHANGED <<connVars, call, made, others, unlisted, disturbed>>

RemoveDir ==
  /\ at = "visit" /\ Last(stack).entries = {}
  /\ \/ /\ Accepted /\ Empty(Dir)
        /\ tree' = Without(Dir)
        /\ Return(Front(stack))
     \/ /\ (Accepted /\ ~Empty(Dir)) \/ Refused
        /\ at' = "error" /\ stack' = <<>> /\ tree' = tree
  /\ UNCHANGED <<connVars, call, made, others, unlisted, disturbed>>

\* Another client of the server makes or removes a file or an empty directory.
Other ==
  /\ at \notin Ended /\ others < MaxOther
  /\ others' = others + 1
  /\ \/ \E d \in DOMAIN tree, n \in Name, kind \in Kinds :
          /\ tree[d] = "dir" /\ Append(d, n) \notin DOMAIN tree
          /\ tree' = With(Append(d, n), kind)
          /\ UNCHANGED disturbed
     \/ \E p \in DOMAIN tree \ {<<>>} :
          /\ Children(p) = {}
          /\ tree' = Without(p)
          /\ disturbed' = TRUE
  /\ UNCHANGED <<connVars, call, at, stack, made, faults, unlisted>>

\* The owner connects, calls one operation after another, and closes when none
\* is under way.
Terminated == pc \in {"failed", "closed"} /\ UNCHANGED vars

Next ==
  \/ at \in Ended /\ ConnNext /\ UNCHANGED ftpVars
  \/ at \notin Ended /\ Drop /\ UNCHANGED ftpVars
  \/ Call \/ MakeDir \/ MkdirReturns \/ ListFirst \/ VisitEntry \/ RemoveDir
  \/ Other \/ Terminated

Spec == Init /\ [][Next]_vars

(***************************************************************************)
(* Properties.                                                             *)
(***************************************************************************)
\* When RemoveAll returns nil the path is gone with everything below it,
\* although other clients add and remove entries after they were listed and
\* the LIST of a subdirectory that fails is taken for success: RMD of what is
\* not empty reports it.  Only the first LIST has nothing behind it.
RemovedIsGone ==
  at = "nil" /\ call.op = "RemoveAll" /\ ~unlisted => Below(call.path) = {}

\* RemoveAll removes nothing beside or above its path, however the tree
\* changes under it, and makes nothing.
RemovesOnlyBelow ==
  [][call.op = "RemoveAll" /\ others' = others =>
       \A p \in DOMAIN tree \cup DOMAIN tree' :
         (p \in DOMAIN tree /\ p \in DOMAIN tree') \/ IsPrefix(call.path, p)]_vars

\* When MkdirAll returns nil the directory is there, unless a component is a
\* file, another client removed something meanwhile or the server denied a
\* permission, all of which MkdirAll takes for "already exists".
MadeIsThere ==
  at = "nil" /\ call.op = "MkdirAll" /\ ~disturbed =>
    \/ IsDir(call.path)
    \/ \E i \in 1 .. Len(call.path) :
         LET p == SubSeq(call.path, 1, i) IN p \in DOMAIN tree /\ tree[p] = "file"
=============================================================================

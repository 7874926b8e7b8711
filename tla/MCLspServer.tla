------------------------------ MODULE MCLspServer ------------------------------
(* Instances of LspServer for TLC: sessions of an editor. *)
EXTENDS LspServer

Req(method) == [method |-> method, request |-> TRUE]
Note(method) == [method |-> method, request |-> FALSE]

Hello == <<Req("initialize")>>
\* A conversation of commands, saves and others, in any order.
Middle == {Req("executeCommand"), Note("didSave"), Req("unknown")}
Talks == {Hello \o <<a, b>> \o <<Req("shutdown"), Note("exit")>> : a, b \in Middle}
           \cup {Hello \o <<Note("initialized"), Req("executeCommand"), Note("response"), Note("unknown")>>}

\* An unfinished session: two commands and a save at once.
Busy == {Hello \o <<Req("executeCommand"), Req("executeCommand"), Note("didSave")>>}

All == Talks \cup Busy
================================================================================

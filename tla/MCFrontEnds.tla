----------------------------- MODULE MCFrontEnds -----------------------------
EXTENDS FrontEnds
NameDef == {"w", "app", "x", "y", "tmp", "srv", "w2", "2", "home"}
W == <<"w">>
App == <<"w", "app">>
WorkspaceDef == W
CwdsDef == {W, App, <<"tmp">>}
LocalArgsDef == {<<>>, <<"app">>, <<"..", "y">>}
Rel1(path) == [absolute |-> FALSE, path |-> path]
Abs1(path) == [absolute |-> TRUE, path |-> path]
RemoteArgsDef ==
  {Rel1(<<>>), Rel1(<<"y">>), Abs1(<<"srv", "w", "app", "x">>),
   Abs1(<<"srv", "w2", "y">>)}
ProfilesDef == {"", "two"}
One == [name |-> "one", remotePath |-> <<"srv", "w", "">>, valid |-> TRUE,
        delete |-> FALSE]
Two == [name |-> "two", remotePath |-> <<"srv", "w2">>, valid |-> TRUE, delete |-> TRUE]
ConfigsDef == {<<One, Two>>, <<Two, [One EXCEPT !.valid = FALSE]>>}
ConfigFlagsDef == {[dir |-> W, vscode |-> TRUE], [dir |-> <<"tmp">>, vscode |-> FALSE]}
EditorRootsDef == {W, App}
AppX == <<"w", "app", "x">>
Y == <<"w", "y">>
LocalTreeDef == [p \in {<<>>, W, App, AppX, Y} |-> IF p \in {AppX, Y} THEN p ELSE Dir]
RemoteTreeDef ==
  [p \in {<<>>, <<"srv">>, <<"srv", "w2">>, <<"srv", "w2", "y">>, <<"home">>, <<"home", "y">>} |->
     IF p = <<"srv", "w2", "y">> THEN Y
     ELSE IF p = <<"home", "y">> THEN <<"notes">> ELSE Dir]
HomeDirDef == <<"home">>
NameTailDef == [n \in {<<"w2", "w">>} |-> "2"]

\* The instance meets what the theorems assume.
ASSUME InstanceIsOrderly == Orderly
=============================================================================

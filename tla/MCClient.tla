------------------------------ MODULE MCClient ------------------------------
EXTENDS FtpBackend
Written == [protocol |-> "sftp", key |-> "none", sshKey |-> "none", params |-> "none",
            sshProxy |-> FALSE, agent |-> TRUE, hopsParse |-> TRUE, hopKeys |-> <<>>]
AllSettings ==
  {[Written EXCEPT !.key = k, !.sshKey = s, !.params = p, !.sshProxy = q, !.agent = a] :
     k \in Keys, s \in Keys, p \in Params, q \in BOOLEAN, a \in BOOLEAN}
  \cup {[Written EXCEPT !.hopKeys = h, !.hopsParse = ok, !.sshProxy = q] :
     h \in {<<"good">>, <<"bad">>, <<"none", "good">>, <<"good", "bad">>,
            <<"none", "none", "none">>}, ok \in BOOLEAN, q \in BOOLEAN}
  \cup {[Written EXCEPT !.protocol = "ftp", !.agent = FALSE]}
D == "d"
S == "s"
F == "f"
Tree(dirs, files) == [p \in dirs \cup files |-> IF p \in dirs THEN "dir" ELSE "file"]
AllTrees ==
  {Tree({<<>>, <<D>>, <<D, S>>}, {<<D, F>>, <<D, S, F>>}),
   Tree({<<>>, <<D>>, <<S>>}, {<<D, S>>, <<S, F>>}), Tree({<<>>}, {<<D>>})}
AllOperations ==
  [op : {"RemoveAll"}, path : {<<D>>, <<D, S>>}]
  \cup [op : {"MkdirAll"}, path : {<<D, S>>, <<S, F, D>>}]
=============================================================================

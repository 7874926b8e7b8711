----------------------------- MODULE MCClientCache -----------------------------
(* An instance of ClientCache for TLC: two profiles on one host, told apart by  *)
(* name, two without a name on another, and one that is named like that host.   *)
EXTENDS ClientCache

Names == [p \in Profile |-> CASE p = "prod" -> "production"
                              [] p = "stage" -> "staging"
                              [] p = "alias" -> "other.example.com"
                              [] OTHER -> ""]
Hosts == [p \in Profile |->
            IF p \in {"anna", "ben"} THEN "other.example.com" ELSE "example.com"]
================================================================================

-------------------------------- MODULE MCWatch --------------------------------
(* Instances of Watch for TLC: a file in the watched directory, one beneath. *)
EXTENDS Watch

Parents == [p \in Path |-> IF p = "d/g" THEN "d" ELSE Root]

AllFlags == [delete : BOOLEAN, dryRun : BOOLEAN]
================================================================================

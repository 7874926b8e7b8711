------------------------------ MODULE MCFileUpload ------------------------------
(* Instances of FileUpload for TLC: goroutines are interchangeable. *)
EXTENDS FileUpload, TLC

Symmetry == Permutations(Upload)
================================================================================

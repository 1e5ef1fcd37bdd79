------------------------------ MODULE MCSpecDocs ------------------------------
(* Small instance of SpecDocs. *)
EXTENDS SpecDocs, TLC

Symmetry == Permutations(Txns)
===============================================================================

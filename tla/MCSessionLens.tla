----------------------------- MODULE MCSessionLens -----------------------------
(* Small instance of SessionLens. *)
EXTENDS SessionLens, TLC

Symmetry == Permutations(Conns)
===============================================================================

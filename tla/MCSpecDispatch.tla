---------------------------- MODULE MCSpecDispatch ----------------------------
(* Small instance of the board: the versions of one handle and the triggers  *)
(* that dispatch them.                                                       *)
EXTENDS SpecDispatch, TLC

Symmetry == Permutations(Txns) \union Permutations(Triggers) \union Permutations(Targets)
===============================================================================

-------------------------------- MODULE Totals --------------------------------
(***************************************************************************)
(* Sums over a finite set, for the properties that add up credits.         *)
(***************************************************************************)
EXTENDS Integers, FiniteSets, Folds

(* The sum of f[x] over the x in S. *)
Total(f, S) ==
    MapThenFoldSet(+, 0, LAMBDA x : f[x], LAMBDA T : CHOOSE x \in T : TRUE, S)
===============================================================================

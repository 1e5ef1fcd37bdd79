----------------------------- MODULE MCHandoffs -----------------------------
(* Two overlapping requests on the queue of one slug, and one browser.       *)
EXTENDS Handoffs, TLC

Symmetry == Permutations(Ids) \union Permutations(Writers)
=============================================================================

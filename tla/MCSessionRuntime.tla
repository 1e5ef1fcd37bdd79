--------------------------- MODULE MCSessionRuntime ---------------------------
(* Small instance of SessionRuntime for TLC. Symmetry over connections or    *)
(* turns would be unsound for the liveness property the same run checks.     *)
EXTENDS SessionRuntime

(* The interesting cases are within the bounds: the buffer evicts, two      *)
(* connections can be parked at once, and one turn can emit between two      *)
(* envelopes of another.                                                     *)
ASSUME BoundsReachEviction == SeedCount + MaxEmits > MaxBuffer /\ MaxConnects > 1
ASSUME BoundsReachInterleaving == MaxEmits > 2
===============================================================================

------------------------------- MODULE MCEscrow -------------------------------
(* Two organizations that buy from each other: e1 costs twenty credits, one  *)
(* of them commission; e2 three (commission rounds up to one), which B can   *)
(* afford only once e1 is released to it; e3 one, all of it commission.      *)
EXTENDS Escrow, TLC

CONSTANTS A, B, e1, e2, e3

MCBuyer == e1 :> A @@ e2 :> B @@ e3 :> A
MCSeller == e1 :> B @@ e2 :> A @@ e3 :> B
MCAmount == e1 :> 20 @@ e2 :> 3 @@ e3 :> 1
MCOpening == A :> 21 @@ B :> 2
===============================================================================

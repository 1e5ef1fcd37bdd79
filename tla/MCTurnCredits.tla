---------------------------- MODULE MCTurnCredits ---------------------------
(* Small instance of TurnCredits for TLC: a turn that found the balance      *)
(* sufficient, and a run that draws on it meanwhile, overdraw it together.   *)
EXTENDS TurnCredits

ASSUME OverdraftReached ==
    Opening - Price * Cardinality(Runs) < 0 /\ MaxOverdraft > 0
=============================================================================

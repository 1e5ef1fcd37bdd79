--------------------------- MODULE MCAgentSession ---------------------------
(* Small instance of AgentSession for TLC: both modes, two follow-up messages *)
(* (one handed over at once or drained, one behind it) and frames enough for  *)
(* a seq gap.                                                                 *)
EXTENDS AgentSession

ASSUME BothModes == Modes = {"turn", "multi"}
ASSUME FollowUpsReached == MaxAsked > 2
===============================================================================

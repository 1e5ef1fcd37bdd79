----------------------------- MODULE MCRelayFeed -----------------------------
(* RelayFeed for TLC. *)
EXTENDS RelayFeed, TLC
===============================================================================

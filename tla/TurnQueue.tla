------------------------------ MODULE TurnQueue ------------------------------
(***************************************************************************)
(* What an agent session promises about the user's messages                *)
(* (lib/life-runtime/agent-session/types.ts): the backend receives them in  *)
(* the order they were accepted, each once, and a message only once the    *)
(* turn of the one before it has ended. Messages are numbered as they are  *)
(* accepted; the one that opens the session is message 1.                  *)
(***************************************************************************)
EXTENDS Naturals, Sequences

VARIABLES
    asked,   \* messages accepted
    sent,    \* messages the backend was handed, oldest first
    ended    \* turns the backend has ended

vars == <<asked, sent, ended>>

Init == asked = 1 /\ sent = <<>> /\ ended = 0

(* A message is accepted and waits. *)
Ask == asked' = asked + 1 /\ UNCHANGED <<sent, ended>>

(* The next message is handed over; it may have been accepted just now. *)
Write ==
    /\ Len(sent) = ended
    /\ asked' \in {asked, asked + 1}
    /\ Len(sent) < asked'
    /\ sent' = Append(sent, Len(sent) + 1)
    /\ UNCHANGED ended

TurnEnd ==
    /\ ended < Len(sent)
    /\ ended' = ended + 1
    /\ UNCHANGED <<asked, sent>>

Next == Ask \/ Write \/ TurnEnd

Spec == Init /\ [][Next]_vars
===============================================================================

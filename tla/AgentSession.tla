---------------------------- MODULE AgentSession ----------------------------
(***************************************************************************)
(* An agent session as its caller gets it: createAgentSessionClient        *)
(* (lib/life-runtime/agent-session/factory.ts) decides between LifedWs and *)
(* InProcess, and whichever it is hands over the user's messages as        *)
(* TurnQueue says.  The two share what the caller sees of them; the rest   *)
(* of the one that was not chosen stays as it was.                         *)
(***************************************************************************)
EXTENDS LifedWs

VARIABLES
    backend,                                             \* backendId
    gen, entries, registered, hand, shown, exit, vm      \* of InProcess

InProc == INSTANCE InProcess WITH MaxShown <- MaxFrames

lifed     == <<socket, entry, pump, err, wire>>
inProcess == <<gen, entries, registered, hand, shown, exit, vm>>
all       == <<vars, backend, inProcess>>

(* wantLifed; forcing lifed without a URL is a configuration error.          *)
Backend(url, off, force) ==
    IF force = "lifed-ws" \/ (force = "none" /\ ~off /\ url)
    THEN "lifed-ws" ELSE "in-process"

AgentInit ==
    /\ Init
    /\ InProc!Init
    /\ \E url, off \in BOOLEAN, force \in {"none", "lifed-ws", "in-process"} :
          /\ ~(force = "lifed-ws" /\ ~url)
          /\ backend = Backend(url, off, force)

Lifed(step) == backend = "lifed-ws" /\ step /\ UNCHANGED <<backend, inProcess>>
InServer(step) == backend = "in-process" /\ step /\ UNCHANGED <<backend, lifed>>

AgentNext == Lifed(Next) \/ InServer(InProc!Next)

(* The consumer pulls to the end or leaves, handshakes complete, and turns   *)
(* end: LifedWs's and InProcess's assumptions.                               *)
AgentFairness ==
    /\ WF_all(Lifed(Generator))
    /\ WF_all(Lifed(sock = "connecting" /\ (Open \/ Closing)))
    /\ WF_all(Lifed(Closed))
    /\ WF_all(Lifed(TurnFinish))
    /\ WF_all(InServer(InProc!Resumed))
    /\ WF_all(InServer(InProc!Runner))

AgentSpec == AgentInit /\ [][AgentNext]_all /\ AgentFairness

-------------------------------------------------------------------------------
(* Properties *)

(* in-process-client.ts turnQueues: what sendMessage accepts is not dropped  *)
(* while the stream is registered, and a waiter is never left in the list.   *)
InProcessKeepsMessages == InProc!NoMessageDropped

(* in-process-client.ts finally blocks: a stream that ended is unregistered, *)
(* has destroyed its VM unless its consumer left, and in multi-turn mode     *)
(* said finish once and last.                                                *)
InProcessEnds == InProc!FinishOnceAndLast /\ InProc!Released

(* types.ts stream, "until the caller's signal aborts": with either client,  *)
(* the signal ends a multi-turn session that is waiting.                     *)
AbortEnds == AbortFinishes /\ InProc!AbortFinishes
===============================================================================

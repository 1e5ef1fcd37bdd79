------------------------------ MODULE InProcess ------------------------------
(***************************************************************************)
(* One session of lib/life-runtime/agent-session/in-process-client.ts: the *)
(* generator of stream() or streamMultiTurn(), which runs the agent inside *)
(* the server, and sendMessage, which hands it follow-up messages through  *)
(* one list.  The runner (real-runner.ts, over the AI SDK's stream) is     *)
(* external: it yields events, then "done", or throws.                     *)
(*                                                                         *)
(* An action is the code between two suspension points, a `yield` or an    *)
(* `await`. One stream of a session id is modelled: a second one would     *)
(* replace the list of the first.                                          *)
(***************************************************************************)
EXTENDS Naturals, Sequences, SequencesExt

CONSTANTS
    Modes,      \* the modes a session may be opened in
    MaxAsked,   \* bound: messages accepted in one session
    MaxShown    \* bound: the runner yields no more events from here on

VARIABLES
    mode,        \* input.multiTurn
    aborted,     \* input.signal
    dropped,     \* the consumer left the generator before its end
    asked,       \* messages accepted (message 1 opens the session)
    sent,        \* messages a runner was started with
    served,      \* turns whose runner came to its "done"
    gen,         \* where the generator is suspended
    entries,     \* the session's list in turnQueues: messages, or a waiter
    registered,  \* turnQueues has the sid
    hand,        \* what the promise of nextFromQueue was resolved with
    shown,       \* kinds of the events yielded
    exit,        \* exitReason
    vm           \* the kernel's VM

calls == <<mode, aborted, dropped>>
turns == <<asked, sent, served>>
list  == <<entries, registered, hand>>
vars  == <<calls, turns, gen, list, shown, exit, vm>>

Waiter == 0   \* among the messages 1, 2, ...: a parked nextFromQueue
Closed == 0   \* QUEUE_CLOSED

Kinds == {"open", "event", "turn_end", "warning", "error", "finish"}

TypeOK ==
    /\ mode \in Modes
    /\ aborted \in BOOLEAN /\ dropped \in BOOLEAN
    /\ asked \in Nat /\ served \in Nat /\ sent \in Seq(Nat)
    /\ gen \in {"new", "refused", "parked", "handed", "runner", "over", "done"} \union Kinds
    /\ entries \in Seq(Nat) /\ hand \in Nat /\ registered \in BOOLEAN
    /\ shown \in Seq(Kinds)
    /\ exit \in {"stop", "aborted", "error"}
    /\ vm \in {"none", "made", "destroyed"}

Init ==
    /\ mode \in Modes /\ aborted = FALSE /\ dropped = FALSE
    /\ asked = 1 /\ sent = <<>> /\ served = 0
    /\ gen = "new" /\ entries = <<>> /\ registered = FALSE /\ hand = Closed
    /\ shown = <<>> /\ exit = "stop" /\ vm = "none"

-------------------------------------------------------------------------------
(* The generator is suspended at the yield of an event. *)
Yield(kind) == shown' = Append(shown, kind) /\ gen' = kind

Runs(m) == sent' = Append(sent, m) /\ gen' = "runner"

(* The first next(): an unknown project's error, a project or a VM that      *)
(* cannot be had and is thrown, or the VM and the open event.                *)
Start ==
    /\ gen = "new"
    /\ \/ shown' = <<"error">> /\ gen' = "refused" /\ UNCHANGED vm
       \/ gen' = "done" /\ UNCHANGED <<shown, vm>>
       \/ Yield("open") /\ vm' = "made"
    /\ UNCHANGED <<calls, turns, list, exit>>

AfterRefusal ==
    /\ gen = "refused"
    /\ Yield("finish")
    /\ UNCHANGED <<calls, turns, list, exit, vm>>

(* The finally block of a single turn: a finish if nothing but the open      *)
(* event went out, and the VM's end. After that the runner's throw goes on.  *)
TurnFinally ==
    IF Len(shown) < 2 THEN Yield("finish") /\ UNCHANGED vm
    ELSE gen' = "done" /\ vm' = "destroyed" /\ UNCHANGED shown

(* The finally block of a multi-turn stream, which yields before its end. *)
MultiFinally(why) ==
    /\ exit' = why
    /\ registered' = FALSE
    /\ entries' = <<>>
    /\ hand' = Closed
    /\ Yield(IF why = "aborted" THEN "warning" ELSE "finish")
    /\ UNCHANGED vm

-------------------------------------------------------------------------------
(* After the open event a single turn runs; a multi-turn stream registers   *)
(* its list first, and leaves at once if the signal has fired.              *)
AfterOpen ==
    /\ gen = "open"
    /\ IF mode = "multi"
       THEN IF aborted THEN MultiFinally("aborted") /\ UNCHANGED sent
            ELSE /\ registered' = TRUE
                 /\ entries' = <<>>
                 /\ Runs(1)
                 /\ UNCHANGED <<hand, shown, exit, vm>>
       ELSE Runs(1) /\ UNCHANGED <<list, shown, exit, vm>>
    /\ UNCHANGED <<calls, asked, served>>

(* After a turn's end: nextFromQueue takes the oldest message, or parks.     *)
TakeOldest == Head(entries)

AfterTurnEnd ==
    /\ gen = "turn_end"
    /\ IF aborted THEN MultiFinally("aborted")
       ELSE /\ IF entries # <<>>
               THEN hand' = TakeOldest /\ entries' = Tail(entries) /\ gen' = "handed"
               ELSE entries' = <<Waiter>> /\ gen' = "parked" /\ UNCHANGED hand
            /\ UNCHANGED <<registered, shown, exit, vm>>
    /\ UNCHANGED <<calls, turns>>

(* The promise is resolved: the next turn, or the end. *)
Handed ==
    /\ gen = "handed"
    /\ IF hand = Closed
       THEN MultiFinally(IF aborted THEN "aborted" ELSE "stop") /\ UNCHANGED sent
       ELSE /\ Runs(hand)
            /\ hand' = Closed
            /\ UNCHANGED <<entries, registered, shown, exit, vm>>
    /\ UNCHANGED <<calls, asked, served>>

-------------------------------------------------------------------------------
(* The runner. The signal is looked at only when it yields.                  *)

(* A yield with the signal fired: the loop is left. *)
StopsAtAbort ==
    /\ gen = "runner" /\ aborted
    /\ IF mode = "multi" THEN MultiFinally("aborted")
       ELSE Yield("warning") /\ UNCHANGED <<list, exit, vm>>
    /\ UNCHANGED <<calls, turns>>

RunnerYields ==
    /\ gen = "runner" /\ ~aborted
    /\ Len(shown) < MaxShown
    /\ Yield("event")
    /\ UNCHANGED <<calls, turns, list, exit, vm>>

AfterEvent ==
    /\ gen = "event"
    /\ gen' = "runner"
    /\ UNCHANGED <<calls, turns, list, shown, exit, vm>>

(* "done": the finish of a single turn, swallowed in a multi-turn stream. *)
Swallow == gen' = "over" /\ UNCHANGED shown

RunnerDone ==
    /\ gen = "runner" /\ ~aborted
    /\ served' = served + 1
    /\ IF mode = "multi" THEN Swallow ELSE Yield("finish")
    /\ UNCHANGED <<calls, asked, sent, list, exit, vm>>

(* The runner's last next(), after which its turn has ended. *)
TurnOver ==
    /\ gen = "over"
    /\ Yield("turn_end")
    /\ UNCHANGED <<calls, turns, list, exit, vm>>

RunnerThrows ==
    /\ gen = "runner"
    /\ IF mode = "multi"
       THEN Yield("error") /\ exit' = "error" /\ UNCHANGED vm
       ELSE TurnFinally /\ UNCHANGED exit
    /\ UNCHANGED <<calls, turns, list>>

-------------------------------------------------------------------------------
(* The ends. *)

AfterError ==
    /\ gen = "error"
    /\ MultiFinally("error")
    /\ UNCHANGED <<calls, turns>>

(* The break after a single turn's abort warning, which is no finish; the    *)
(* warning of a multi-turn stream's finally block is followed by one.        *)
AfterWarning ==
    /\ gen = "warning"
    /\ IF mode = "multi" THEN Yield("finish") /\ UNCHANGED vm ELSE TurnFinally
    /\ UNCHANGED <<calls, turns, list, exit>>

VmKept == vm
VmDestroyed == IF vm = "made" THEN "destroyed" ELSE vm

AfterFinish ==
    /\ gen = "finish"
    /\ gen' = "done"
    /\ vm' = VmDestroyed
    /\ UNCHANGED <<calls, turns, list, shown, exit>>

(* The consumer breaks out of its loop at a yield. In a single turn the      *)
(* finally block runs; a multi-turn stream's is suspended at its own first   *)
(* yield, or left at the one it had reached, and the VM stays.               *)
Drop ==
    /\ gen \in Kinds \union {"refused"}
    /\ gen' = "done"
    /\ dropped' = TRUE
    /\ vm' = IF mode = "turn" /\ (gen \in {"event", "warning"} \/ (gen = "finish" /\ served > 0))
             THEN "destroyed" ELSE vm
    /\ registered' = FALSE
    /\ entries' = <<>>
    /\ UNCHANGED <<mode, aborted, turns, hand, shown, exit>>

-------------------------------------------------------------------------------
(* The callers. *)

KeepsWaiter == UNCHANGED entries
LosesWaiter == entries' = Tail(entries)

(* sendMessage resolves a waiter, or adds the message to the list.           *)
SendMessage ==
    /\ registered /\ asked < MaxAsked
    /\ asked' = asked + 1
    /\ IF entries # <<>> /\ Head(entries) = Waiter
       THEN LosesWaiter /\ hand' = asked + 1 /\ gen' = "handed"
       ELSE entries' = Append(entries, asked + 1) /\ UNCHANGED <<hand, gen>>
    /\ UNCHANGED <<calls, sent, served, registered, shown, exit, vm>>

AbortUnheard ==
    /\ ~aborted
    /\ aborted' = TRUE
    /\ UNCHANGED <<mode, dropped, turns, gen, list, shown, exit, vm>>

(* The signal fires; the listener of a parked generator takes its waiter     *)
(* out of the list and resolves it as closed.                                *)
Abort ==
    /\ ~aborted
    /\ aborted' = TRUE
    /\ IF gen = "parked"
       THEN LosesWaiter /\ hand' = Closed /\ gen' = "handed"
       ELSE UNCHANGED <<entries, hand, gen>>
    /\ UNCHANGED <<mode, dropped, turns, registered, shown, exit, vm>>

-------------------------------------------------------------------------------
Resumed == Start \/ AfterRefusal \/ AfterOpen \/ AfterTurnEnd \/ Handed \/ AfterEvent
               \/ TurnOver \/ AfterError \/ AfterWarning \/ AfterFinish
Runner == StopsAtAbort \/ RunnerYields \/ RunnerDone \/ RunnerThrows

Next == Resumed \/ Runner \/ Drop \/ SendMessage \/ Abort

(* The consumer pulls until the end or leaves, and the model's stream ends   *)
(* every turn it was given, one way or the other.                            *)
Fairness == WF_vars(Resumed) /\ WF_vars(Runner)

Spec == Init /\ [][Next]_vars /\ Fairness

-------------------------------------------------------------------------------
(* Properties *)

Queue == INSTANCE TurnQueue WITH ended <- served

(* types.ts: one turn at a time, in the order messages were accepted.        *)
TurnsSerial == Queue!Spec

(* in-process-client.ts turnQueues: "Only one shape is ever in the array at  *)
(* a time"; a waiter is in it exactly while the generator is parked, and "a  *)
(* producer-or-consumer race resolves correctly without dropping messages":  *)
(* while the sid is registered, what was accepted is with a runner, in hand  *)
(* or in the list, in order.                                                 *)
Pending == IF gen = "parked" THEN <<>> ELSE entries
InHand == IF hand = Closed THEN <<>> ELSE <<hand>>

NoMessageDropped ==
    registered =>
        /\ gen = "parked" => entries = <<Waiter>>
        /\ sent \o InHand \o Pending = [i \in 1..asked |-> i]

(* types.ts stream: "exactly one `finish` as the terminal-and-last event".   *)
(* A multi-turn stream keeps that whatever stops it; a single turn yields no *)
(* second one.                                                               *)
FinishOnceAndLast ==
    /\ \A i \in 1..Len(shown) : shown[i] = "finish" => i = Len(shown)
    /\ (gen = "done" /\ ~dropped /\ mode = "multi" /\ vm # "none") => Last(shown) = "finish"

(* The finally blocks: a stream that was pulled to its end, or thrown out    *)
(* of, has unregistered its sid and destroyed its VM; one that was left has  *)
(* unregistered its sid.                                                     *)
Released == gen = "done" => ~registered /\ (dropped \/ vm # "made")

(* nextFromQueue's abort listener: a parked stream ends when the signal      *)
(* fires, also when no message ever comes.                                   *)
AbortFinishes == aborted /\ gen = "parked" ~> gen = "done"
===============================================================================

------------------------------- MODULE LifedWs -------------------------------
(***************************************************************************)
(* One session of lib/life-runtime/agent-session/lifed-ws-client.ts: a     *)
(* WebSocket to lifegw whose callbacks fill a queue, the generator that    *)
(* drains it for one consumer, and `sendMessage`, which writes to the same *)
(* socket. `mode` is "turn" for stream() (one turn, then finish) and       *)
(* "multi" for streamMultiTurn() (many turns on one socket).               *)
(*                                                                         *)
(* An action is the code between two suspension points: a socket callback, *)
(* one sendMessage call, or the generator from a `yield` or an `await` to   *)
(* the top of its loop ("run") and from there to the next suspension.      *)
(***************************************************************************)
EXTENDS Naturals, Sequences

CONSTANTS
    Modes,      \* the modes a session may be opened in
    MaxAsked,   \* bound: messages accepted in one session
    MaxFrames   \* bound: the server sends no more frames but FINISH from here on

ASSUME ModesAssumption == Modes \subseteq {"turn", "multi"}
ASSUME BoundsAssumption == MaxAsked \in Nat \ {0} /\ MaxFrames \in Nat

VARIABLES
    mode,      \* input.multiTurn
    sock,      \* ws.readyState
    closed,    \* the close listener has run
    isOpen,    \* entry.isOpen
    inFlight,  \* entry.currentTurnInFlight
    pending,   \* entry.pending
    live,      \* the sid is registered in liveStreams
    queue,     \* decoded frames the generator has not taken yet
    pc,        \* where the generator is suspended
    out,       \* events yielded to the consumer
    lastSeq,   \* the generator's seq cursor
    warned,    \* the abort warning was yielded
    finished,  \* finishYielded
    err,       \* openErrCode or openErrMsg is set
    aborted,   \* input.signal
    dropped,   \* the consumer left the generator before its end
    asked,     \* messages accepted (message 1 opens the session)
    sent,      \* messages written to the socket
    served,    \* FINISH frames received: turns the server ended
    wire       \* seq of the last frame the server sent

socket == <<sock, closed>>
entry  == <<isOpen, inFlight, pending, live>>
pump   == <<queue, pc, out, lastSeq, warned, finished>>
turns  == <<asked, sent, served>>
vars   == <<mode, socket, entry, pump, err, aborted, dropped, turns, wire>>

Frame == [kind : {"token", "blank", "finish"}, seq : Nat]
Event == [kind : {"event", "turn_end", "warning", "error", "finish"}, seq : Nat]

TypeOK ==
    /\ mode \in Modes
    /\ sock \in {"none", "connecting", "open", "closing", "closed"}
    /\ closed \in BOOLEAN /\ isOpen \in BOOLEAN /\ inFlight \in BOOLEAN
    /\ live \in BOOLEAN /\ warned \in BOOLEAN /\ finished \in BOOLEAN
    /\ err \in BOOLEAN /\ aborted \in BOOLEAN /\ dropped \in BOOLEAN
    /\ pending \in Seq(Nat) /\ sent \in Seq(Nat)
    /\ queue \in Seq(Frame)
    /\ pc \in {"new", "run", "parked", "event", "warning", "error", "finish", "done"}
    /\ out \in Seq(Event)
    /\ lastSeq \in Nat /\ asked \in Nat /\ served \in Nat /\ wire \in Nat

Init ==
    /\ mode \in Modes
    /\ sock = "none" /\ closed = FALSE
    /\ isOpen = FALSE /\ inFlight = FALSE /\ pending = <<>> /\ live = FALSE
    /\ queue = <<>> /\ pc = "new" /\ out = <<>> /\ lastSeq = 0
    /\ warned = FALSE /\ finished = FALSE
    /\ err = FALSE /\ aborted = FALSE /\ dropped = FALSE
    /\ asked = 1 /\ sent = <<>> /\ served = 0 /\ wire = 0

-------------------------------------------------------------------------------
(* cleanup(): close the socket unless it is already closing or closed. *)
CleanupWhenOpen(s) == IF s = "open" THEN "closing" ELSE s
Cleanup(s) == IF s \in {"connecting", "open"} THEN "closing" ELSE s

(* wake(): resolve the promise of a generator parked in waitForFrame. *)
Wake == pc' = IF pc = "parked" THEN "run" ELSE pc

-------------------------------------------------------------------------------
(* The first next() of the consumer: the socket is created and, in multi-turn *)
(* mode, the entry registered with the first message pending. A signal that   *)
(* has already fired closes the socket at once, in multi-turn mode only.      *)
Start ==
    /\ pc = "new"
    /\ pc' = "run"
    /\ sock' = IF mode = "multi" /\ aborted THEN Cleanup("connecting") ELSE "connecting"
    /\ live' = (mode = "multi")
    /\ pending' = IF mode = "multi" THEN <<1>> ELSE <<>>
    /\ UNCHANGED <<mode, closed, isOpen, inFlight, queue, out, lastSeq, warned,
                   finished, err, aborted, dropped, turns, wire>>

(* No capability, or the socket's constructor threw: errorThenFinish. *)
NoSocket ==
    /\ pc = "new"
    /\ out' = <<[kind |-> "error", seq |-> 0]>>
    /\ pc' = "error"
    /\ UNCHANGED <<mode, socket, entry, queue, lastSeq, warned, finished, err,
                   aborted, dropped, turns, wire>>

(* ws.send either writes the message or throws; the caller's catch records   *)
(* the error and closes the socket.                                          *)
Written(m) ==
    /\ sent' = Append(sent, m)
    /\ inFlight' = (mode = "multi")
    /\ UNCHANGED err

SendThrew ==
    /\ sock' = Cleanup("open")
    /\ err' = TRUE
    /\ UNCHANGED sent

(* The open listener writes the first message. *)
Open ==
    /\ sock = "connecting"
    /\ isOpen' = (mode = "multi")
    /\ pending' = IF mode = "multi" THEN Tail(pending) ELSE pending
    /\ \/ sock' = "open" /\ Written(IF mode = "multi" THEN Head(pending) ELSE 1)
       \/ SendThrew /\ UNCHANGED inFlight
    /\ UNCHANGED <<mode, closed, live, pump, aborted, dropped, asked, served, wire>>

(* The message listener queues a frame and wakes the generator. A frame whose *)
(* seq does not parse carries 0; token stands for every agent event that the  *)
(* decoder turns into an event other than a turn's end, blank for one it      *)
(* turns into nothing. The generator drops closing and pong frames.           *)
Receive(f) ==
    /\ sock = "open"
    /\ queue' = Append(queue, f)
    /\ Wake
    /\ UNCHANGED <<mode, socket, entry, out, lastSeq, warned, finished, err,
                   aborted, dropped, asked, sent>>

Running == served < Len(sent)

Message ==
    /\ Running /\ wire < MaxFrames
    /\ \E k \in {"token", "blank"}, s \in {wire + 1, 0} : Receive([kind |-> k, seq |-> s])
    /\ wire' = wire + 1
    /\ UNCHANGED served

TurnFinish ==
    /\ Running
    /\ Receive([kind |-> "finish", seq |-> wire + 1])
    /\ served' = served + 1
    /\ wire' = wire + 1

(* The socket starts to close, with or without an error event before. *)
Closing ==
    /\ sock \in {"connecting", "open"}
    /\ sock' = "closing"
    /\ err' \in {err, TRUE}
    /\ UNCHANGED <<mode, closed, entry, pump, aborted, dropped, turns, wire>>

(* The close listener; every code but 1000 sets the error. *)
Closed ==
    /\ sock = "closing"
    /\ sock' = "closed"
    /\ closed' = TRUE
    /\ err' \in {err, TRUE}
    /\ Wake
    /\ UNCHANGED <<mode, entry, queue, out, lastSeq, warned, finished, aborted,
                   dropped, turns, wire>>

(* The caller's signal fires; only streamMultiTurn listens to it. *)
OnAbort == IF mode = "multi" THEN Wake ELSE UNCHANGED pc

Abort ==
    /\ ~aborted
    /\ aborted' = TRUE
    /\ OnAbort
    /\ UNCHANGED <<mode, socket, entry, queue, out, lastSeq, warned, finished,
                   err, dropped, turns, wire>>

(* sendMessage: a message is accepted while the sid is registered and its    *)
(* socket connecting or open, and is written only when no turn is in flight. *)
NoGate == isOpen
FreeToSend == isOpen /\ ~inFlight

SendMessage ==
    /\ asked < MaxAsked
    /\ live /\ sock \in {"connecting", "open"}
    /\ asked' = asked + 1
    /\ IF FreeToSend
       THEN Written(asked + 1) /\ UNCHANGED pending
       ELSE pending' = Append(pending, asked + 1) /\ UNCHANGED <<sent, inFlight, err>>
    /\ UNCHANGED <<mode, socket, isOpen, live, pump, aborted, dropped, served, wire>>

-------------------------------------------------------------------------------
(* The generator. *)

Yield(k, s) == out' = Append(out, [kind |-> k, seq |-> s])

(* canonical(lastSeq++, ...) and canonical(++lastSeq, ...). *)
YieldWarning == Yield("warning", lastSeq) /\ lastSeq' = lastSeq + 1
YieldNext(k) == Yield(k, lastSeq + 1) /\ lastSeq' = lastSeq + 1

(* The cursor an agent event leaves: its own seq, or one past the last. *)
CursorBefore(f) == f.seq - 1
CursorAfter(f) == IF f.seq = 0 THEN lastSeq + 1 ELSE f.seq
EventSeq(f) == IF f.seq = 0 THEN lastSeq + 1 ELSE f.seq

LoopEnds == closed /\ queue = <<>>
MustWarn == aborted /\ ~warned

Warn ==
    /\ pc = "run" /\ ~LoopEnds /\ MustWarn
    /\ YieldWarning
    /\ pc' = "warning"
    /\ UNCHANGED <<mode, socket, entry, queue, warned, finished, err, aborted,
                   dropped, turns, wire>>

(* Take a frame that yields an event; FINISH is the turn's end in multi-turn *)
(* mode and the stream's end otherwise.                                      *)
KindOf(f) ==
    IF f.kind = "token" THEN "event" ELSE IF mode = "multi" THEN "turn_end" ELSE "finish"

TakeEvent ==
    /\ pc = "run" /\ ~MustWarn /\ queue # <<>>
    /\ LET f == Head(queue)
       IN  /\ f.kind \in {"token", "finish"}
           /\ Yield(KindOf(f), EventSeq(f))
           /\ lastSeq' = CursorAfter(f)
           /\ finished' = (KindOf(f) = "finish")
    /\ queue' = Tail(queue)
    /\ pc' = "event"
    /\ UNCHANGED <<mode, socket, entry, warned, err, aborted, dropped, turns, wire>>

(* Take a frame that yields nothing. *)
TakeSilent ==
    /\ pc = "run" /\ ~MustWarn /\ queue # <<>>
    /\ Head(queue).kind = "blank"
    /\ lastSeq' = CursorAfter(Head(queue))
    /\ queue' = Tail(queue)
    /\ UNCHANGED <<mode, socket, entry, pc, out, warned, finished, err, aborted,
                   dropped, turns, wire>>

(* await waitForFrame() with nothing to take. *)
Wait ==
    /\ pc = "run" /\ ~closed /\ queue = <<>> /\ ~MustWarn
    /\ pc' = "parked"
    /\ UNCHANGED <<mode, socket, entry, queue, out, lastSeq, warned, finished, err,
                   aborted, dropped, turns, wire>>

(* Resumed after an event: a turn's end releases the gate and writes the     *)
(* next pending message, if the socket is still open.                        *)
TurnEnded == out[Len(out)].kind = "turn_end"
DrainNone == FALSE
DrainAllButOne == Len(pending) > 1 /\ sock = "open"
MayDrain == pending # <<>> /\ sock = "open"

AfterEvent ==
    /\ pc = "event" /\ ~finished
    /\ pc' = "run"
    /\ IF TurnEnded
       THEN IF MayDrain
            THEN /\ pending' = Tail(pending)
                 /\ \/ Written(Head(pending)) /\ UNCHANGED sock
                    \/ SendThrew /\ inFlight' = FALSE
            ELSE inFlight' = FALSE /\ UNCHANGED <<sock, err, pending, sent>>
       ELSE UNCHANGED <<sock, inFlight, err, pending, sent>>
    /\ UNCHANGED <<mode, closed, isOpen, live, queue, out, lastSeq, warned,
                   finished, aborted, dropped, asked, served, wire>>

(* Resumed after the abort warning, in multi-turn mode: close and go on. *)
AfterWarning ==
    /\ pc = "warning" /\ mode = "multi"
    /\ pc' = "run"
    /\ warned' = TRUE
    /\ sock' = Cleanup(sock)
    /\ UNCHANGED <<mode, closed, entry, queue, out, lastSeq, finished, err,
                   aborted, dropped, turns, wire>>

(* The loop is left: at its end, or by `break` after the FINISH or the abort  *)
(* warning of a single turn.                                                  *)
Leaves ==
    \/ pc = "run" /\ LoopEnds
    \/ pc = "event" /\ finished
    \/ pc = "warning" /\ mode = "turn"

(* The finally block: unregister, close, and the terminal events that are    *)
(* still owed. The consumer resumes the last of them to the end.             *)
OwesAlways == TRUE
OwesFinish == mode = "multi" \/ ~finished
EndsInError == err /\ ~(mode = "multi" /\ aborted)

Finally ==
    /\ Leaves
    /\ live' = FALSE
    /\ sock' = Cleanup(sock)
    /\ IF OwesFinish
       THEN IF EndsInError
            THEN YieldNext("error") /\ pc' = "error"
            ELSE YieldNext("finish") /\ pc' = "finish"
       ELSE pc' = "done" /\ UNCHANGED <<out, lastSeq>>
    /\ UNCHANGED <<mode, closed, isOpen, inFlight, pending, queue, warned, finished,
                   err, aborted, dropped, turns, wire>>

AfterFinal ==
    /\ \/ pc = "error" /\ YieldNext("finish") /\ pc' = "finish"
       \/ pc = "finish" /\ pc' = "done" /\ UNCHANGED <<out, lastSeq>>
    /\ UNCHANGED <<mode, socket, entry, queue, warned, finished, err, aborted,
                   dropped, turns, wire>>

(* The consumer breaks out of its loop: return() at the current yield runs   *)
(* the finally block, whose terminal events nobody sees.                     *)
Drop ==
    /\ pc \in {"event", "warning", "error", "finish"}
    /\ pc' = "done"
    /\ dropped' = TRUE
    /\ live' = FALSE
    /\ sock' = Cleanup(sock)
    /\ UNCHANGED <<mode, closed, isOpen, inFlight, pending, queue, out, lastSeq,
                   warned, finished, err, aborted, turns, wire>>

-------------------------------------------------------------------------------
Generator == Start \/ NoSocket \/ Warn \/ TakeEvent \/ TakeSilent \/ Wait
                 \/ AfterEvent \/ AfterWarning \/ Finally \/ AfterFinal

Next == Generator \/ Drop \/ Open \/ Message \/ TurnFinish \/ Closing \/ Closed
            \/ Abort \/ SendMessage

(* The consumer pulls until the end or leaves, a handshake completes one way  *)
(* or the other, and lifed ends every turn it was given (the client's own     *)
(* comment on a missing FINISH calls it belt-and-suspenders).                 *)
Fairness ==
    /\ WF_vars(Generator)
    /\ WF_vars(sock = "connecting" /\ (Open \/ Closing))
    /\ WF_vars(Closed)
    /\ WF_vars(TurnFinish)

Spec == Init /\ [][Next]_vars /\ Fairness

-------------------------------------------------------------------------------
(* Properties *)

(* LiveWsEntry: strict FIFO turns, no pipelining. lifed is handed the        *)
(* messages in the order they were accepted, each once, and the next only    *)
(* after the FINISH of the one before it arrived, whatever sendMessage, the  *)
(* open listener and the turn boundary interleave.                           *)
Queue == INSTANCE TurnQueue WITH ended <- served

TurnsSerial == Queue!Spec

(* sendMessage / streamMultiTurn: a message that waits on an open socket      *)
(* waits for a turn in flight, so its end will write it: the gate is never   *)
(* released past a waiting message.                                          *)
GateHeldWhilePending == (isOpen /\ sock = "open" /\ pending # <<>>) => inFlight

(* types.ts stream: one finish, and nothing after it; a generator pulled to   *)
(* its end always yielded it, in either mode, whatever closed the socket.     *)
FinishOnceAndLast ==
    /\ \A i \in 1..Len(out) : out[i].kind = "finish" => i = Len(out)
    /\ pc = "done" /\ ~dropped => out # <<>> /\ out[Len(out)].kind = "finish"

(* The finally blocks: a generator that ended, by whatever way, has neither  *)
(* left its sid registered nor its socket open.                              *)
Released == pc = "done" => ~live /\ sock \notin {"connecting", "open"}

(* streamMultiTurn's abort listener: once the signal fires the generator of a *)
(* multi-turn session ends, even when no frame ever arrives.                  *)
AbortFinishes == aborted /\ mode = "multi" ~> pc = "done" \/ pc = "new"

(* sendMessage and the turn boundary drain the buffer one at a time: while    *)
(* the server ends its turns, messages do not wait for ever on a live socket. *)
PendingDrains == []<>(pending = <<>> \/ sock \in {"closing", "closed"})
===============================================================================

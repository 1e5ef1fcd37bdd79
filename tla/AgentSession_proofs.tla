-------------------------- MODULE AgentSession_proofs --------------------------
(***************************************************************************)
(* Theorems about LifedWs, InProcess and AgentSession, for any bounds and  *)
(* either mode.  Of each client: types, the single finish, the release and *)
(* the refinement of TurnQueue, and the turn gate of one, the list of the  *)
(* other.  Of the session behind the factory: what both prove.             *)
(***************************************************************************)
EXTENDS AgentSession, TLAPS

(* Append keeps the elements and adds one. *)
LEMMA AppendType ==
    ASSUME NEW S, NEW s \in Seq(S), NEW e \in S
    PROVE  /\ Append(s, e) \in Seq(S)
           /\ Len(s) \in Nat
           /\ Len(Append(s, e)) = Len(s) + 1
           /\ Append(s, e)[Len(s) + 1] = e
           /\ \A i \in 1..Len(s) : Append(s, e)[i] = s[i]
  OBVIOUS

(* The head and the tail of a sequence are made of its elements. *)
LEMMA HeadTailType ==
    ASSUME NEW S, NEW s \in Seq(S), s # <<>>
    PROVE  /\ Head(s) \in S /\ Head(s) = s[1]
           /\ Tail(s) \in Seq(S)
           /\ Len(s) \in Nat /\ Len(s) > 0
           /\ Len(Tail(s)) = Len(s) - 1
           /\ \A i \in 1..Len(Tail(s)) : Tail(s)[i] = s[i + 1]
  OBVIOUS

(* Concatenation: the elements of one sequence, then of the other. *)
LEMMA ConcatType ==
    ASSUME NEW S, NEW s \in Seq(S), NEW t \in Seq(S)
    PROVE  /\ s \o t \in Seq(S)
           /\ Len(s) \in Nat /\ Len(t) \in Nat
           /\ Len(s \o t) = Len(s) + Len(t)
           /\ \A i \in 1..(Len(s) + Len(t)) :
                 (s \o t)[i] = IF i <= Len(s) THEN s[i] ELSE t[i - Len(s)]
  OBVIOUS

-------------------------------------------------------------------------------
(* Types *)

(* A frame the listener queues is a frame, so the queue stays one of frames. *)
LEMMA ReceiveType ==
    ASSUME TypeOK, NEW f \in Frame, Receive(f)
    PROVE  /\ queue' \in Seq(Frame)
           /\ pc' \in {"new", "run", "parked", "event", "warning", "error", "finish", "done"}
  <1>1. queue' \in Seq(Frame)  BY AppendType DEF TypeOK, Receive
  <1> QED  BY <1>1 DEF TypeOK, Receive, Wake

(* Writing a message, or failing to, keeps the types it touches. *)
LEMMA WrittenType ==
    ASSUME TypeOK, NEW m \in Nat, Written(m)
    PROVE  sent' \in Seq(Nat) /\ inFlight' \in BOOLEAN /\ err' \in BOOLEAN
  BY AppendType DEF TypeOK, Written

LEMMA SendThrewType ==
    ASSUME TypeOK, SendThrew
    PROVE  sent' \in Seq(Nat) /\ sock' = "closing" /\ err' \in BOOLEAN
  BY DEF TypeOK, SendThrew, Cleanup

LEMMA YieldType ==
    ASSUME TypeOK, NEW k \in {"event", "turn_end", "warning", "error", "finish"},
           NEW s \in Nat, Yield(k, s)
    PROVE  out' \in Seq(Event)
  <1>1. [kind |-> k, seq |-> s] \in Event  BY DEF Event
  <1> QED  BY <1>1, AppendType DEF TypeOK, Yield

(* The first message waits until the socket opens. *)
FirstPending == sock = "connecting" /\ mode = "multi" => pending # <<>>

LEMMA EmptySeq == ASSUME NEW S PROVE <<>> \in Seq(S)
  OBVIOUS

LEMMA TypeInit == Init => TypeOK /\ FirstPending
  <1> SUFFICES ASSUME Init PROVE TypeOK /\ FirstPending
    OBVIOUS
  <1>1. pending \in Seq(Nat) /\ sent \in Seq(Nat) /\ queue \in Seq(Frame)
        /\ out \in Seq(Event)
    BY EmptySeq DEF Init
  <1>2. FirstPending  BY DEF Init, FirstPending
  <1> QED  BY <1>1, <1>2 DEF Init, TypeOK

LEMMA PendingNext ==
    ASSUME TypeOK, FirstPending, [Next]_vars
    PROVE  FirstPending'
  <1> USE DEF FirstPending, socket, entry, pump, turns
  <1>1. CASE Start  BY <1>1 DEF Start
  <1>2. CASE SendMessage
    <2>1. pending' = pending \/ pending' = Append(pending, asked + 1)
      BY <1>2 DEF SendMessage
    <2>2. Append(pending, asked + 1) # <<>>
      <3>1. asked + 1 \in Nat /\ pending \in Seq(Nat)  BY DEF TypeOK
      <3>2. Len(Append(pending, asked + 1)) = Len(pending) + 1  BY <3>1, AppendType
      <3>3. Len(pending) \in Nat  BY <3>1
      <3> QED  BY <3>2, <3>3
    <2> QED  BY <1>2, <2>1, <2>2 DEF SendMessage
  <1>3. CASE NoSocket \/ Warn \/ TakeEvent \/ TakeSilent \/ Wait
    BY <1>3 DEF NoSocket, Warn, TakeEvent, TakeSilent, Wait
  <1>4. CASE AfterEvent
    BY <1>4 DEF AfterEvent, MayDrain, SendThrew, Cleanup, Written
  <1>5. CASE AfterWarning \/ Finally \/ AfterFinal \/ Drop
    BY <1>5 DEF AfterWarning, Finally, AfterFinal, Drop, Cleanup
  <1>6. CASE Open  BY <1>6 DEF Open, SendThrew, Cleanup
  <1>7. CASE Message \/ TurnFinish  BY <1>7 DEF Message, TurnFinish, Receive
  <1>8. CASE Closing \/ Closed \/ Abort  BY <1>8 DEF Closing, Closed, Abort
  <1>9. CASE UNCHANGED vars  BY <1>9 DEF vars
  <1> QED
    BY <1>1, <1>2, <1>3, <1>4, <1>5, <1>6, <1>7, <1>8, <1>9 DEF Next, Generator

(* Every step keeps the types. *)
LEMMA TypeNext == ASSUME TypeOK, FirstPending, [Next]_vars PROVE TypeOK'
  <1> USE DEF socket, entry, pump, turns
  <1>1. CASE Start
    <2>1. pending' \in Seq(Nat)  BY <1>1 DEF Start
    <2> QED  BY <1>1, <2>1 DEF Start, TypeOK, Cleanup
  <1>2. CASE NoSocket
    <2>1. out' \in Seq(Event)  BY <1>2 DEF NoSocket, Event
    <2> QED  BY <1>2, <2>1 DEF NoSocket, TypeOK
  <1>3. CASE Warn
    <2>1. out' \in Seq(Event) /\ lastSeq' \in Nat
      BY <1>3, YieldType DEF Warn, YieldWarning, TypeOK
    <2> QED  BY <1>3, <2>1 DEF Warn, TypeOK
  <1>4. CASE TakeEvent
    <2> DEFINE f == Head(queue)
    <2>1. f \in Frame /\ queue' \in Seq(Frame)
      BY <1>4, HeadTailType DEF TakeEvent, TypeOK
    <2>2. EventSeq(f) \in Nat /\ CursorAfter(f) \in Nat
      BY <2>1 DEF EventSeq, CursorAfter, Frame, TypeOK
    <2>3. KindOf(f) \in {"event", "turn_end", "warning", "error", "finish"}
      BY DEF KindOf
    <2>4. out' \in Seq(Event)
      BY <1>4, <2>2, <2>3, YieldType DEF TakeEvent
    <2> QED  BY <1>4, <2>1, <2>2, <2>4 DEF TakeEvent, TypeOK
  <1>5. CASE TakeSilent
    <2>1. Head(queue) \in Frame /\ queue' \in Seq(Frame)
      BY <1>5, HeadTailType DEF TakeSilent, TypeOK
    <2>2. lastSeq' \in Nat
      BY <1>5, <2>1 DEF TakeSilent, CursorAfter, Frame, TypeOK
    <2> QED  BY <1>5, <2>1, <2>2 DEF TakeSilent, TypeOK
  <1>6. CASE Wait  BY <1>6 DEF Wait, TypeOK
  <1>7. CASE AfterEvent
    <2>1. CASE TurnEnded /\ MayDrain
      <3>1. Head(pending) \in Nat /\ Tail(pending) \in Seq(Nat)
        BY <2>1, HeadTailType DEF MayDrain, TypeOK
      <3>2. CASE Written(Head(pending)) /\ UNCHANGED sock
        BY <1>7, <2>1, <3>1, <3>2, WrittenType DEF AfterEvent, TypeOK
      <3>3. CASE SendThrew /\ inFlight' = FALSE
        BY <1>7, <2>1, <3>1, <3>3, SendThrewType DEF AfterEvent, TypeOK
      <3> QED  BY <1>7, <2>1, <3>2, <3>3 DEF AfterEvent
    <2>2. CASE TurnEnded /\ ~MayDrain
      BY <1>7, <2>2 DEF AfterEvent, TypeOK
    <2>3. CASE ~TurnEnded
      BY <1>7, <2>3 DEF AfterEvent, TypeOK
    <2> QED  BY <2>1, <2>2, <2>3
  <1>8. CASE AfterWarning  BY <1>8 DEF AfterWarning, TypeOK, Cleanup
  <1>9. CASE Finally
    <2>1. out' \in Seq(Event) /\ lastSeq' \in Nat
      BY <1>9, YieldType DEF Finally, YieldNext, TypeOK
    <2> QED  BY <1>9, <2>1 DEF Finally, TypeOK, Cleanup
  <1>10. CASE AfterFinal
    <2>1. out' \in Seq(Event) /\ lastSeq' \in Nat
      BY <1>10, YieldType DEF AfterFinal, YieldNext, TypeOK
    <2> QED  BY <1>10, <2>1 DEF AfterFinal, TypeOK
  <1>11. CASE Drop  BY <1>11 DEF Drop, TypeOK, Cleanup
  <1>12. CASE Open
    <2> DEFINE m == IF mode = "multi" THEN Head(pending) ELSE 1
    <2>1. pending' \in Seq(Nat) /\ m \in Nat
      BY <1>12, HeadTailType DEF Open, TypeOK, FirstPending
    <2>2. CASE sock' = "open" /\ Written(m)
      <3>1. sent' \in Seq(Nat) /\ inFlight' \in BOOLEAN /\ err' \in BOOLEAN
        BY <2>1, <2>2, WrittenType
      <3> QED  BY <1>12, <2>1, <2>2, <3>1 DEF Open, TypeOK
    <2>3. CASE SendThrew /\ UNCHANGED inFlight
      BY <1>12, <2>1, <2>3, SendThrewType DEF Open, TypeOK
    <2> QED  BY <1>12, <2>2, <2>3 DEF Open
  <1>13. CASE Message
    <2>1. PICK k \in {"token", "blank"}, s \in {wire + 1, 0} :
              Receive([kind |-> k, seq |-> s])
      BY <1>13 DEF Message
    <2>2. [kind |-> k, seq |-> s] \in Frame  BY DEF Frame, TypeOK
    <2> QED  BY <1>13, <2>1, <2>2, ReceiveType DEF Message, Receive, TypeOK
  <1>14. CASE TurnFinish
    <2>1. [kind |-> "finish", seq |-> wire + 1] \in Frame  BY DEF Frame, TypeOK
    <2>2. /\ queue' \in Seq(Frame)
          /\ pc' \in {"new", "run", "parked", "event", "warning", "error", "finish", "done"}
      BY <1>14, <2>1, ReceiveType DEF TurnFinish
    <2>3. served' \in Nat /\ wire' \in Nat  BY <1>14 DEF TurnFinish, TypeOK
    <2> QED  BY <1>14, <2>2, <2>3 DEF TurnFinish, Receive, TypeOK
  <1>15. CASE Closing
    <2>1. err' \in BOOLEAN  BY <1>15 DEF Closing, TypeOK
    <2>2. sock' = "closing"  BY <1>15 DEF Closing
    <2> QED  BY <1>15, <2>1, <2>2 DEF Closing, TypeOK
  <1>16. CASE Closed  BY <1>16 DEF Closed, TypeOK, Wake
  <1>17. CASE Abort  BY <1>17 DEF Abort, OnAbort, Wake, TypeOK
  <1>18. CASE SendMessage
    <2>1. pending' \in Seq(Nat)
      <3>1. asked + 1 \in Nat /\ pending \in Seq(Nat)  BY DEF TypeOK
      <3>2. Append(pending, asked + 1) \in Seq(Nat)  BY <3>1, AppendType
      <3> QED  BY <1>18, <3>1, <3>2 DEF SendMessage
    <2>2. sent' \in Seq(Nat) /\ inFlight' \in BOOLEAN /\ err' \in BOOLEAN
      <3>1. asked + 1 \in Nat  BY DEF TypeOK
      <3> QED  BY <1>18, <3>1, WrittenType DEF SendMessage, TypeOK
    <2> QED  BY <1>18, <2>1, <2>2 DEF SendMessage, TypeOK
  <1>19. CASE UNCHANGED vars  BY <1>19 DEF vars, TypeOK
  <1> QED
    BY <1>1, <1>2, <1>3, <1>4, <1>5, <1>6, <1>7, <1>8, <1>9, <1>10, <1>11, <1>12,
       <1>13, <1>14, <1>15, <1>16, <1>17, <1>18, <1>19 DEF Next, Generator

(* Every reachable state of a lifed session is well typed. *)
THEOREM TypeCorrect == Spec => []TypeOK
  <1>1. TypeOK /\ FirstPending /\ [Next]_vars => (TypeOK /\ FirstPending)'
    BY TypeNext, PendingNext
  <1> QED  BY TypeInit, <1>1, PTL DEF Spec

-------------------------------------------------------------------------------
(* The turn gate *)

AtTurnEnd == pc = "event" /\ TurnEnded

(* Nothing has happened on a socket that is not open yet. *)
Unopened ==
    sock \in {"none", "connecting"} =>
        sent = <<>> /\ served = 0 /\ queue = <<>> /\ ~isOpen /\ pc # "event"

(* The generator's first step creates the socket. *)
Unstarted ==
    /\ pc = "new" => sock = "none" /\ queue = <<>>
    /\ sock = "none" => asked = 1 /\ ~live

(* At most one FINISH is on its way through the queue to the consumer, and   *)
(* while it is, the server owes nothing.                                     *)
FinishInQueue == \E i \in 1..Len(queue) : queue[i].kind = "finish"

OneBoundary ==
    /\ \A i, j \in 1..Len(queue) :
          queue[i].kind = "finish" /\ queue[j].kind = "finish" => i = j
    /\ FinishInQueue \/ AtTurnEnd => served = Len(sent) /\ (mode = "multi" => inFlight)
    /\ ~(FinishInQueue /\ AtTurnEnd)
    /\ pc = "event" => out # <<>>

(* The gate is closed exactly while a turn's end has not reached the         *)
(* consumer.                                                                 *)
Gate ==
    /\ served <= Len(sent) /\ Len(sent) <= served + 1
    /\ mode = "multi" /\ ~inFlight => served = Len(sent)
    /\ live => mode = "multi"
    /\ AtTurnEnd => mode = "multi"

(* Messages are written in order, and the pending ones continue the written  *)
(* ones while the socket can still write.                                    *)
InOrder ==
    /\ \A i \in 1..Len(sent) : sent[i] = i
    /\ Len(sent) <= asked /\ asked > 0
    /\ mode = "multi" /\ sock \in {"connecting", "open"} =>
          /\ asked = Len(sent) + Len(pending)
          /\ \A i \in 1..Len(pending) : pending[i] = Len(sent) + i

IInv == TypeOK /\ FirstPending /\ Unopened /\ Unstarted /\ OneBoundary /\ Gate /\ InOrder
            /\ GateHeldWhilePending

LEMMA InitIInv == Init => IInv
  <1> SUFFICES ASSUME Init PROVE IInv
    OBVIOUS
  <1>1. TypeOK /\ FirstPending  BY TypeInit
  <1>2. Unopened /\ Unstarted /\ Gate /\ GateHeldWhilePending
    BY DEF Init, Unopened, Unstarted, Gate, AtTurnEnd, GateHeldWhilePending
  <1>3. OneBoundary  BY DEF Init, OneBoundary, FinishInQueue, AtTurnEnd
  <1>4. InOrder  BY DEF Init, InOrder
  <1> QED  BY <1>1, <1>2, <1>3, <1>4 DEF IInv

(* What the steps that neither move messages nor take frames have in common. *)
Quiet ==
    /\ UNCHANGED <<mode, isOpen, inFlight, pending, queue, asked, sent, served>>
    /\ live' => live
    /\ sock' \in {sock, "closing", "closed"}
    /\ sock' = "none" => sock = "none"
    /\ pc' = "event" => pc = "event" /\ out' = out
    /\ pc' = "new" => pc = "new" /\ sock' = sock

LEMMA QuietSteps ==
    ASSUME TypeOK, Unstarted,
           Warn \/ NoSocket \/ Wait \/ AfterWarning \/ Finally \/ AfterFinal
               \/ Drop \/ Closing \/ Closed \/ Abort \/ UNCHANGED vars
    PROVE  Quiet
  <1> USE DEF Quiet, socket, entry, pump, turns
  <1>1. CASE Warn \/ NoSocket \/ Wait  BY <1>1 DEF Warn, NoSocket, Wait
  <1>2. CASE AfterWarning  BY <1>2 DEF AfterWarning, Cleanup
  <1>3. CASE Finally  BY <1>3 DEF Finally, Cleanup
  <1>4. CASE AfterFinal  BY <1>4 DEF AfterFinal
  <1>5. CASE Drop  BY <1>5 DEF Drop, Cleanup
  <1>6. CASE Closing  BY <1>6 DEF Closing, Unstarted
  <1>7. CASE Closed  BY <1>7 DEF Closed, Wake, Unstarted
  <1>8. CASE Abort  BY <1>8 DEF Abort, OnAbort, Wake
  <1>9. CASE UNCHANGED vars  BY <1>9 DEF vars
  <1> QED
    BY <1>1, <1>2, <1>3, <1>4, <1>5, <1>6, <1>7, <1>8, <1>9

Rest == Unopened /\ Unstarted /\ OneBoundary /\ Gate /\ InOrder /\ GateHeldWhilePending

LEMMA QuietKeeps ==
    ASSUME IInv, Quiet
    PROVE  Rest'
  <1> USE DEF IInv, Quiet
  <1>1. Unopened' /\ Unstarted'  BY DEF Unopened, Unstarted
  <1>2. AtTurnEnd' => AtTurnEnd  BY DEF AtTurnEnd, TurnEnded
  <1>3. OneBoundary'  BY <1>2 DEF OneBoundary, FinishInQueue
  <1>4. Gate'  BY <1>2 DEF Gate
  <1>5. InOrder'  BY DEF InOrder
  <1>6. GateHeldWhilePending'  BY DEF GateHeldWhilePending
  <1> QED  BY <1>1, <1>3, <1>4, <1>5, <1>6 DEF Rest

LEMMA StartKeeps == ASSUME IInv, Start PROVE Rest'
  <1> USE DEF IInv, socket, entry, pump, turns
  <1>1. pc = "new" /\ sock = "none" /\ sent = <<>> /\ served = 0 /\ queue = <<>>
        /\ ~isOpen /\ asked = 1
    BY DEF Start, Unopened, Unstarted
  <1>2. pc' = "run" /\ UNCHANGED <<mode, sent, served, queue, isOpen, asked, inFlight>>
        /\ sock' \in {"connecting", "closing"} /\ (live' => mode = "multi")
        /\ (mode = "multi" => pending' = <<1>>)
    BY DEF Start, Cleanup
  <1>3. Unopened' /\ Unstarted'  BY <1>1, <1>2 DEF Unopened, Unstarted
  <1>4. OneBoundary'  BY <1>1, <1>2 DEF OneBoundary, FinishInQueue, AtTurnEnd
  <1>5. Gate'  BY <1>1, <1>2 DEF Gate, AtTurnEnd
  <1>6. InOrder'  BY <1>1, <1>2 DEF InOrder
  <1>7. GateHeldWhilePending'  BY <1>1, <1>2 DEF GateHeldWhilePending
  <1> QED  BY <1>3, <1>4, <1>5, <1>6, <1>7 DEF Rest

(* Appending a frame that is no FINISH, with the socket open. *)
LEMMA MessageKeeps == ASSUME IInv, Message PROVE Rest'
  <1> USE DEF IInv, socket, entry, pump, turns
  <1>1. PICK k \in {"token", "blank"}, s \in {wire + 1, 0} :
            Receive([kind |-> k, seq |-> s])
    BY DEF Message
  <1> DEFINE f == [kind |-> k, seq |-> s]
  <1>2. f \in Frame /\ f.kind # "finish"  BY DEF Frame, TypeOK
  <1>3. /\ UNCHANGED <<mode, sock, isOpen, inFlight, pending, live, out, asked, sent, served>>
        /\ sock = "open" /\ queue' = Append(queue, f) /\ queue \in Seq(Frame)
        /\ (pc' = "event" <=> pc = "event") /\ (pc' = "new" <=> pc = "new")
    BY <1>1 DEF Message, Receive, Wake, TypeOK
  <1>4. Len(queue') = Len(queue) + 1 /\ queue'[Len(queue) + 1].kind # "finish"
        /\ \A i \in 1..Len(queue) : queue'[i] = queue[i]
    BY <1>2, <1>3, AppendType
  <1>5. Len(queue) \in Nat  BY <1>3
  <1>6. \A i \in 1..Len(queue') : queue'[i].kind = "finish"
                                    => i \in 1..Len(queue) /\ queue[i].kind = "finish"
    BY <1>4, <1>5
  <1>7. Unopened' /\ Unstarted'  BY <1>3 DEF Unopened, Unstarted
  <1>8. (FinishInQueue' => FinishInQueue) /\ (AtTurnEnd' => AtTurnEnd)
    BY <1>3, <1>6 DEF FinishInQueue, AtTurnEnd, TurnEnded
  <1>9. OneBoundary'  BY <1>3, <1>6, <1>8 DEF OneBoundary
  <1>10. Gate'  BY <1>3, <1>8 DEF Gate
  <1>11. InOrder' /\ GateHeldWhilePending'
    BY <1>3 DEF InOrder, GateHeldWhilePending
  <1> QED  BY <1>7, <1>9, <1>10, <1>11 DEF Rest

(* The FINISH of the turn that runs: nothing was on its way before it. *)
LEMMA TurnFinishKeeps == ASSUME IInv, TurnFinish PROVE Rest'
  <1> USE DEF IInv, socket, entry, pump, turns
  <1> DEFINE f == [kind |-> "finish", seq |-> wire + 1]
  <1>1. f \in Frame  BY DEF Frame, TypeOK
  <1>2. /\ UNCHANGED <<mode, sock, isOpen, inFlight, pending, live, out, asked, sent>>
        /\ sock = "open" /\ queue' = Append(queue, f) /\ queue \in Seq(Frame)
        /\ served' = served + 1
        /\ (pc' = "event" <=> pc = "event") /\ (pc' = "new" <=> pc = "new")
    BY DEF TurnFinish, Receive, Wake, TypeOK
  <1>3. served < Len(sent) /\ Len(sent) <= served + 1 /\ served \in Nat /\ Len(sent) \in Nat
    BY DEF TurnFinish, Running, Gate, TypeOK
  <1>4. ~FinishInQueue /\ ~AtTurnEnd /\ (mode = "multi" => inFlight)
    BY <1>3 DEF OneBoundary, Gate
  <1>5. Len(queue') = Len(queue) + 1 /\ \A i \in 1..Len(queue) : queue'[i] = queue[i]
    BY <1>1, <1>2, AppendType
  <1>6. Len(queue) \in Nat  BY <1>2
  <1>7. \A i \in 1..Len(queue') : queue'[i].kind = "finish" => i = Len(queue) + 1
    BY <1>4, <1>5, <1>6 DEF FinishInQueue
  <1>8. ~AtTurnEnd'  BY <1>2, <1>4 DEF AtTurnEnd, TurnEnded
  <1>9. served' = Len(sent')  BY <1>2, <1>3
  <1>10. Unopened' /\ Unstarted'  BY <1>2 DEF Unopened, Unstarted
  <1>11. OneBoundary'  BY <1>2, <1>4, <1>7, <1>8, <1>9 DEF OneBoundary
  <1>12. Gate'  BY <1>2, <1>3, <1>4, <1>8 DEF Gate
  <1>13. InOrder' /\ GateHeldWhilePending'
    BY <1>2 DEF InOrder, GateHeldWhilePending
  <1> QED  BY <1>10, <1>11, <1>12, <1>13 DEF Rest

(* Taking the head of the queue: what is left has no FINISH the queue had not. *)
LEMMA TailFinish ==
    ASSUME IInv, queue # <<>>, queue' = Tail(queue)
    PROVE  /\ Head(queue) \in Frame
           /\ FinishInQueue' => FinishInQueue
           /\ Head(queue).kind = "finish" => FinishInQueue /\ ~FinishInQueue'
           /\ \A i, j \in 1..Len(queue') :
                 queue'[i].kind = "finish" /\ queue'[j].kind = "finish" => i = j
  <1> USE DEF IInv
  <1>1. /\ Head(queue) \in Frame /\ Len(queue') = Len(queue) - 1 /\ Len(queue) > 0
        /\ \A i \in 1..Len(queue') : queue'[i] = queue[i + 1]
        /\ Head(queue) = queue[1]
    BY HeadTailType DEF TypeOK
  <1>2. Len(queue) \in Nat  BY DEF TypeOK
  <1>3. \A i \in 1..Len(queue') : i \in Nat /\ i + 1 \in 1..Len(queue) /\ i + 1 # 1
    BY <1>1, <1>2
  <1>4. 1 \in 1..Len(queue)  BY <1>1, <1>2
  <1>5. FinishInQueue' => FinishInQueue  BY <1>1, <1>3 DEF FinishInQueue
  <1>6. Head(queue).kind = "finish" => FinishInQueue /\ ~FinishInQueue'
    BY <1>1, <1>3, <1>4 DEF FinishInQueue, OneBoundary
  <1>7. \A i, j \in 1..Len(queue') :
            queue'[i].kind = "finish" /\ queue'[j].kind = "finish" => i + 1 = j + 1
    BY <1>1, <1>3 DEF OneBoundary
  <1> QED  BY <1>1, <1>3, <1>5, <1>6, <1>7

LEMMA TakeEventKeeps == ASSUME IInv, TakeEvent PROVE Rest'
  <1> USE DEF IInv, socket, entry, pump, turns
  <1> DEFINE f == Head(queue)
             e == [kind |-> KindOf(f), seq |-> EventSeq(f)]
  <1>1. /\ UNCHANGED <<mode, sock, isOpen, inFlight, pending, live, asked, sent, served>>
        /\ queue # <<>> /\ queue' = Tail(queue) /\ pc = "run" /\ pc' = "event"
        /\ out' = Append(out, e) /\ f.kind \in {"token", "finish"}
    BY DEF TakeEvent, Yield
  <1>2. f \in Frame  BY <1>1, TailFinish
  <1>3. e \in Event
    <2>1. EventSeq(f) \in Nat  BY <1>2 DEF EventSeq, Frame, TypeOK
    <2>2. KindOf(f) \in {"event", "turn_end", "finish"}  BY DEF KindOf
    <2> QED  BY <2>1, <2>2 DEF Event
  <1>4. Len(out') = Len(out) + 1 /\ out'[Len(out')] = e /\ out' \in Seq(Event)
    BY <1>1, <1>3, AppendType DEF TypeOK
  <1>5. out' # <<>>
    <2>1. Len(out) \in Nat  BY DEF TypeOK
    <2> QED  BY <1>4, <2>1
  <1>6. AtTurnEnd' => f.kind = "finish" /\ mode = "multi"
    BY <1>1, <1>4 DEF AtTurnEnd, TurnEnded, KindOf
  <1>7. AtTurnEnd' => FinishInQueue /\ ~FinishInQueue'
    BY <1>1, <1>6, TailFinish
  <1>8. FinishInQueue' => FinishInQueue  BY <1>1, TailFinish
  <1>9. Unopened' /\ Unstarted'  BY <1>1 DEF Unopened, Unstarted
  <1>10. \A i, j \in 1..Len(queue') :
            queue'[i].kind = "finish" /\ queue'[j].kind = "finish" => i = j
    BY <1>1, TailFinish
  <1>11. OneBoundary'  BY <1>1, <1>5, <1>7, <1>8, <1>10 DEF OneBoundary
  <1>12. Gate'  BY <1>1, <1>6 DEF Gate
  <1>13. InOrder' /\ GateHeldWhilePending'
    BY <1>1 DEF InOrder, GateHeldWhilePending
  <1> QED  BY <1>9, <1>11, <1>12, <1>13 DEF Rest

LEMMA TakeSilentKeeps == ASSUME IInv, TakeSilent PROVE Rest'
  <1> USE DEF IInv, socket, entry, pump, turns
  <1>1. /\ UNCHANGED <<mode, sock, isOpen, inFlight, pending, live, out, asked, sent, served, pc>>
        /\ queue # <<>> /\ queue' = Tail(queue) /\ pc = "run"
    BY DEF TakeSilent
  <1>2. ~AtTurnEnd'  BY <1>1 DEF AtTurnEnd
  <1>3. FinishInQueue' => FinishInQueue  BY <1>1, TailFinish
  <1>4. \A i, j \in 1..Len(queue') :
            queue'[i].kind = "finish" /\ queue'[j].kind = "finish" => i = j
    BY <1>1, TailFinish
  <1>5. Unopened' /\ Unstarted'  BY <1>1 DEF Unopened, Unstarted
  <1>6. OneBoundary'  BY <1>1, <1>2, <1>3, <1>4 DEF OneBoundary
  <1>7. Gate'  BY <1>1, <1>2 DEF Gate
  <1>8. InOrder' /\ GateHeldWhilePending'
    BY <1>1 DEF InOrder, GateHeldWhilePending
  <1> QED  BY <1>5, <1>6, <1>7, <1>8 DEF Rest

(* Writing the next message in order, when every turn so far has ended. *)
LEMMA WrittenKeeps ==
    ASSUME IInv, Written(Len(sent) + 1)
    PROVE  /\ Len(sent') = Len(sent) + 1 /\ Len(sent) \in Nat /\ sent' # <<>>
           /\ \A i \in 1..Len(sent') : sent'[i] = i
  <1> USE DEF IInv
  <1>1. Len(sent) \in Nat /\ sent \in Seq(Nat)  BY DEF TypeOK
  <1>2. sent' = Append(sent, Len(sent) + 1)  BY DEF Written
  <1>3. /\ Len(sent') = Len(sent) + 1 /\ sent'[Len(sent) + 1] = Len(sent) + 1
        /\ \A i \in 1..Len(sent) : sent'[i] = sent[i]
    BY <1>1, <1>2, AppendType
  <1>4. \A i \in 1..Len(sent') : i \in 1..Len(sent) \/ i = Len(sent) + 1
    BY <1>1, <1>3
  <1>5. \A i \in 1..Len(sent') : sent'[i] = i
    BY <1>3, <1>4 DEF InOrder
  <1> QED  BY <1>1, <1>3, <1>5

(* Taking the first pending message: the others move up by one. *)
LEMMA PendingTail ==
    ASSUME IInv, mode = "multi", sock \in {"connecting", "open"}, pending # <<>>
    PROVE  /\ Head(pending) = Len(sent) + 1
           /\ Len(Tail(pending)) = Len(pending) - 1 /\ Len(pending) > 0
              /\ Len(pending) \in Nat
           /\ \A i \in 1..Len(Tail(pending)) : Tail(pending)[i] = Len(sent) + 1 + i
  <1> USE DEF IInv
  <1>1. /\ Head(pending) = pending[1] /\ Len(pending) > 0
        /\ Len(Tail(pending)) = Len(pending) - 1
        /\ \A i \in 1..Len(Tail(pending)) : Tail(pending)[i] = pending[i + 1]
    BY HeadTailType DEF TypeOK
  <1>2. Len(pending) \in Nat /\ Len(sent) \in Nat  BY DEF TypeOK
  <1>3. \A i \in 1..Len(Tail(pending)) : i \in Nat /\ i + 1 \in 1..Len(pending)
    BY <1>1, <1>2
  <1>4. 1 \in 1..Len(pending)  BY <1>1, <1>2
  <1>5. \A i \in 1..Len(pending) : pending[i] = Len(sent) + i  BY DEF InOrder
  <1>6. Head(pending) = Len(sent) + 1  BY <1>1, <1>4, <1>5
  <1>7. \A i \in 1..Len(Tail(pending)) : Tail(pending)[i] = Len(sent) + (i + 1)
    BY <1>1, <1>3, <1>5
  <1> QED  BY <1>1, <1>2, <1>3, <1>6, <1>7

(* A message was written while no FINISH was on its way. *)
LEMMA OpenKeeps == ASSUME IInv, Open PROVE Rest'
  <1> USE DEF IInv, socket, entry, pump, turns
  <1>1. /\ UNCHANGED <<mode, live, queue, pc, out, asked, served>>
        /\ sock = "connecting" /\ isOpen' = (mode = "multi")
        /\ pending' = IF mode = "multi" THEN Tail(pending) ELSE pending
    BY DEF Open
  <1>2. sent = <<>> /\ served = 0 /\ queue = <<>> /\ pc # "event" /\ pc # "new"
        /\ Len(sent) = 0
    BY <1>1 DEF Unopened, Unstarted
  <1>3. ~FinishInQueue' /\ ~AtTurnEnd'
    BY <1>1, <1>2 DEF FinishInQueue, AtTurnEnd
  <1>4. OneBoundary'  BY <1>1, <1>2, <1>3 DEF OneBoundary
  <1>5. mode = "multi" =>
          /\ Head(pending) = 1 /\ Len(pending) > 0 /\ Len(pending) \in Nat
          /\ Len(pending') = Len(pending) - 1
          /\ \A i \in 1..Len(pending') : pending'[i] = 1 + i
          /\ asked = Len(pending)
    BY <1>1, <1>2, PendingTail DEF FirstPending, InOrder, TypeOK
  <1>6. asked \in Nat /\ asked > 0  BY DEF TypeOK, InOrder
  <1>7. CASE sock' = "open" /\ Written(1)
    <2>1. Len(sent') = 1 /\ sent' # <<>> /\ \A i \in 1..Len(sent') : sent'[i] = i
      BY <1>2, <1>7, WrittenKeeps
    <2>2. mode = "multi" => inFlight'  BY <1>7 DEF Written
    <2>3. Unopened' /\ Unstarted'  BY <1>1, <1>2, <1>7 DEF Unopened, Unstarted
    <2>4. Gate'  BY <1>1, <1>2, <1>3, <2>1, <2>2 DEF Gate
    <2>5. InOrder'  BY <1>1, <1>5, <1>6, <2>1 DEF InOrder
    <2>6. GateHeldWhilePending'  BY <1>1, <2>2 DEF GateHeldWhilePending
    <2> QED  BY <1>4, <2>3, <2>4, <2>5, <2>6 DEF Rest
  <1>8. CASE SendThrew /\ UNCHANGED inFlight
    <2>1. sock' = "closing" /\ sent' = sent  BY <1>8 DEF SendThrew, Cleanup
    <2>2. Unopened' /\ Unstarted'  BY <1>1, <1>2, <2>1 DEF Unopened, Unstarted
    <2>3. Gate'  BY <1>1, <1>2, <1>3, <1>8, <2>1 DEF Gate
    <2>4. InOrder'  BY <1>1, <1>2, <1>6, <2>1 DEF InOrder
    <2>5. GateHeldWhilePending'  BY <2>1 DEF GateHeldWhilePending
    <2> QED  BY <1>4, <2>2, <2>3, <2>4, <2>5 DEF Rest
  <1>9. (IF mode = "multi" THEN Head(pending) ELSE 1) = 1  BY <1>5
  <1> QED  BY <1>7, <1>8, <1>9 DEF Open

LEMMA AfterEventKeeps == ASSUME IInv, AfterEvent PROVE Rest'
  <1> USE DEF IInv, socket, entry, pump, turns
  <1>1. /\ UNCHANGED <<mode, isOpen, live, queue, out, asked, served>>
        /\ pc = "event" /\ pc' = "run"
    BY DEF AfterEvent
  <1>2. ~AtTurnEnd'  BY <1>1 DEF AtTurnEnd
  <1>3. CASE ~TurnEnded
    <2>1. UNCHANGED <<sock, inFlight, pending, sent>>  BY <1>3 DEF AfterEvent
    <2>2. Unopened' /\ Unstarted'  BY <1>1, <2>1 DEF Unopened, Unstarted
    <2>3. OneBoundary'  BY <1>1, <1>2, <2>1 DEF OneBoundary, FinishInQueue
    <2>4. Gate'  BY <1>1, <1>2, <2>1 DEF Gate
    <2>5. InOrder' /\ GateHeldWhilePending'
      BY <1>1, <2>1 DEF InOrder, GateHeldWhilePending
    <2> QED  BY <2>2, <2>3, <2>4, <2>5 DEF Rest
  <1>4. CASE TurnEnded
    <2>1. served = Len(sent) /\ ~FinishInQueue /\ mode = "multi" /\ Len(sent) \in Nat
      BY <1>1, <1>4 DEF OneBoundary, Gate, AtTurnEnd, TypeOK
    <2>2. ~FinishInQueue'  BY <1>1, <2>1 DEF FinishInQueue
    <2>3. OneBoundary'  BY <1>1, <1>2, <2>2 DEF OneBoundary, FinishInQueue
    <2>4. sock # "none" /\ sock # "connecting"  BY <1>1 DEF Unopened
    <2>5. CASE MayDrain /\ Written(Head(pending)) /\ UNCHANGED sock
      <3>1. sock = "open" /\ pending # <<>> /\ pending' = Tail(pending)
        BY <1>4, <2>5 DEF MayDrain, AfterEvent
      <3>2. /\ Head(pending) = Len(sent) + 1
            /\ Len(pending') = Len(pending) - 1 /\ Len(pending) \in Nat /\ Len(pending) > 0
            /\ \A i \in 1..Len(pending') : pending'[i] = Len(sent) + 1 + i
            /\ asked = Len(sent) + Len(pending)
        BY <2>1, <3>1, PendingTail DEF InOrder
      <3>3. Len(sent') = Len(sent) + 1 /\ \A i \in 1..Len(sent') : sent'[i] = i
        BY <2>5, <3>2, WrittenKeeps
      <3>4. inFlight'  BY <2>1, <2>5 DEF Written
      <3>5. Unopened' /\ Unstarted'
        BY <1>1, <2>4, <2>5 DEF Unopened, Unstarted
      <3>6. Gate'  BY <1>1, <1>2, <2>1, <3>3, <3>4 DEF Gate
      <3>7. InOrder'  BY <1>1, <2>1, <3>2, <3>3 DEF InOrder
      <3>8. GateHeldWhilePending'  BY <3>4 DEF GateHeldWhilePending
      <3> QED  BY <2>3, <3>5, <3>6, <3>7, <3>8 DEF Rest
    <2>6. CASE MayDrain /\ SendThrew
      <3>1. sock' = "closing" /\ sent' = sent  BY <2>6 DEF SendThrew, Cleanup
      <3>2. Unopened' /\ Unstarted'  BY <1>1, <3>1 DEF Unopened, Unstarted
      <3>3. Gate'  BY <1>1, <1>2, <2>1, <3>1 DEF Gate
      <3>4. InOrder' /\ GateHeldWhilePending'
        BY <1>1, <3>1 DEF InOrder, GateHeldWhilePending
      <3> QED  BY <2>3, <3>2, <3>3, <3>4 DEF Rest
    <2>7. CASE ~MayDrain
      <3>1. UNCHANGED <<sock, pending, sent>>  BY <1>4, <2>7 DEF AfterEvent
      <3>2. Unopened' /\ Unstarted'  BY <1>1, <2>4, <3>1 DEF Unopened, Unstarted
      <3>3. Gate'  BY <1>1, <1>2, <2>1, <3>1 DEF Gate
      <3>4. InOrder' /\ GateHeldWhilePending'
        BY <1>1, <2>7, <3>1 DEF InOrder, GateHeldWhilePending, MayDrain
      <3> QED  BY <2>3, <3>2, <3>3, <3>4 DEF Rest
    <2> QED  BY <1>4, <2>5, <2>6, <2>7 DEF AfterEvent
  <1> QED  BY <1>3, <1>4

LEMMA SendMessageKeeps == ASSUME IInv, SendMessage PROVE Rest'
  <1> USE DEF IInv, socket, entry, pump, turns
  <1>1. /\ UNCHANGED <<mode, sock, isOpen, live, queue, pc, out, served>>
        /\ live /\ sock \in {"connecting", "open"} /\ asked' = asked + 1
        /\ mode = "multi"
    BY DEF SendMessage, Gate
  <1>2. asked = Len(sent) + Len(pending) /\ Len(sent) \in Nat /\ Len(pending) \in Nat
        /\ asked \in Nat
    BY <1>1 DEF InOrder, TypeOK
  <1>3. CASE FreeToSend
    <2>1. Written(asked + 1) /\ pending' = pending  BY <1>3 DEF SendMessage
    <2>2. sock = "open" /\ pending = <<>> /\ ~inFlight
      BY <1>1, <1>3 DEF FreeToSend, Unopened, GateHeldWhilePending
    <2>3. asked = Len(sent) /\ served = Len(sent) /\ ~FinishInQueue /\ ~AtTurnEnd
      BY <1>1, <1>2, <2>2 DEF Gate, OneBoundary
    <2>4. Len(sent') = Len(sent) + 1 /\ \A i \in 1..Len(sent') : sent'[i] = i
      BY <2>1, <2>3, WrittenKeeps
    <2>5. inFlight'  BY <1>1, <2>1 DEF Written
    <2>6. ~FinishInQueue' /\ ~AtTurnEnd'
      BY <1>1, <2>3 DEF FinishInQueue, AtTurnEnd, TurnEnded
    <2>7. OneBoundary'  BY <1>1, <2>6 DEF OneBoundary, FinishInQueue
    <2>8. Unopened' /\ Unstarted'  BY <1>1, <2>2 DEF Unopened, Unstarted
    <2>9. Gate'  BY <1>1, <1>2, <2>3, <2>4, <2>5, <2>6 DEF Gate
    <2>10. InOrder'  BY <1>1, <1>2, <2>1, <2>2, <2>3, <2>4 DEF InOrder
    <2>11. GateHeldWhilePending'  BY <2>5 DEF GateHeldWhilePending
    <2> QED  BY <2>7, <2>8, <2>9, <2>10, <2>11 DEF Rest
  <1>4. CASE ~FreeToSend
    <2>1. pending' = Append(pending, asked + 1) /\ UNCHANGED <<sent, inFlight>>
      BY <1>4 DEF SendMessage
    <2>2. asked + 1 \in Nat /\ pending \in Seq(Nat)  BY <1>2 DEF TypeOK
    <2>3. /\ Len(pending') = Len(pending) + 1
          /\ pending'[Len(pending) + 1] = asked + 1
          /\ \A i \in 1..Len(pending) : pending'[i] = pending[i]
      BY <2>1, <2>2, AppendType
    <2>4. \A i \in 1..Len(pending') : i \in 1..Len(pending) \/ i = Len(pending) + 1
      BY <1>2, <2>3
    <2>5. \A i \in 1..Len(pending') : pending'[i] = Len(sent) + i
      <3>1. \A i \in 1..Len(pending) : pending[i] = Len(sent) + i  BY <1>1 DEF InOrder
      <3>2. pending'[Len(pending) + 1] = Len(sent) + (Len(pending) + 1)  BY <1>2, <2>3
      <3> QED  BY <2>3, <2>4, <3>1, <3>2
    <2>6. Unopened' /\ Unstarted'
      BY <1>1, <2>1 DEF Unopened, Unstarted
    <2>7. OneBoundary'
      BY <1>1, <2>1 DEF OneBoundary, FinishInQueue, AtTurnEnd, TurnEnded
    <2>8. Gate'  BY <1>1, <2>1 DEF Gate, AtTurnEnd, TurnEnded
    <2>9. InOrder'
      <3>1. sent' = sent /\ asked' > 0 /\ Len(sent) <= asked'
        BY <1>1, <1>2, <2>1
      <3>2. asked' = Len(sent) + Len(pending')  BY <1>1, <1>2, <2>3
      <3> QED  BY <2>5, <3>1, <3>2 DEF InOrder
    <2>10. GateHeldWhilePending'
      BY <1>1, <1>4, <2>1 DEF GateHeldWhilePending, FreeToSend
    <2> QED  BY <2>6, <2>7, <2>8, <2>9, <2>10 DEF Rest
  <1> QED  BY <1>3, <1>4

(* Every step keeps the inductive invariant. *)
LEMMA IInvNext == ASSUME IInv, [Next]_vars PROVE IInv'
  <1>1. TypeOK' /\ FirstPending'  BY TypeNext, PendingNext DEF IInv
  <1>2. CASE Warn \/ NoSocket \/ Wait \/ AfterWarning \/ Finally \/ AfterFinal
                 \/ Drop \/ Closing \/ Closed \/ Abort \/ UNCHANGED vars
    <2>1. TypeOK /\ Unstarted  BY DEF IInv
    <2>2. Quiet  BY <1>2, <2>1, QuietSteps
    <2> QED  BY <1>1, <2>2, QuietKeeps DEF IInv, Rest
  <1>3. CASE Start  BY <1>1, <1>3, StartKeeps DEF IInv, Rest
  <1>4. CASE Message  BY <1>1, <1>4, MessageKeeps DEF IInv, Rest
  <1>5. CASE TurnFinish  BY <1>1, <1>5, TurnFinishKeeps DEF IInv, Rest
  <1>6. CASE TakeEvent  BY <1>1, <1>6, TakeEventKeeps DEF IInv, Rest
  <1>7. CASE TakeSilent  BY <1>1, <1>7, TakeSilentKeeps DEF IInv, Rest
  <1>8. CASE Open  BY <1>1, <1>8, OpenKeeps DEF IInv, Rest
  <1>9. CASE AfterEvent  BY <1>1, <1>9, AfterEventKeeps DEF IInv, Rest
  <1>10. CASE SendMessage  BY <1>1, <1>10, SendMessageKeeps DEF IInv, Rest
  <1> QED
    BY <1>2, <1>3, <1>4, <1>5, <1>6, <1>7, <1>8, <1>9, <1>10 DEF Next, Generator

LEMMA Invariance == Spec => []IInv
  BY InitIInv, IInvNext, PTL DEF Spec

(* sendMessage and the turn boundary: a message that waits on an open socket  *)
(* always waits for a turn in flight, in either mode and for any bounds.      *)
THEOREM GateCorrect == Spec => []GateHeldWhilePending
  <1>1. IInv => GateHeldWhilePending  BY DEF IInv
  <1> QED  BY Invariance, <1>1, PTL

-------------------------------------------------------------------------------
(* The abstract turn queue *)

(* Every lifed session implements the turn queue of types.ts: messages in the *)
(* order accepted, each once, the next after the FINISH of the last.          *)
LEMMA SerialStep == ASSUME IInv, [Next]_vars PROVE [Queue!Next]_Queue!vars
  <1> USE DEF IInv, socket, entry, pump, turns, Queue!vars
  <1>1. Len(sent) \in Nat /\ served \in Nat /\ asked \in Nat  BY DEF TypeOK
  <1>2. CASE SendMessage
    <2>1. CASE FreeToSend
      <3>1. live /\ mode = "multi" /\ sock \in {"connecting", "open"}
            /\ asked' = asked + 1 /\ served' = served
        BY <1>2 DEF SendMessage, Gate
      <3>2. sock = "open" /\ pending = <<>> /\ ~inFlight
        BY <2>1, <3>1 DEF FreeToSend, Unopened, GateHeldWhilePending
      <3>3. asked = Len(sent) /\ Len(sent) = served
        BY <1>1, <3>1, <3>2 DEF Gate, InOrder
      <3>4. sent' = Append(sent, Len(sent) + 1)
        BY <1>2, <2>1, <3>3 DEF SendMessage, Written
      <3>5. Queue!Write  BY <1>1, <3>1, <3>3, <3>4 DEF Queue!Write
      <3> QED  BY <3>5 DEF Queue!Next
    <2>2. CASE ~FreeToSend
      BY <1>2, <2>2 DEF SendMessage, Queue!Next, Queue!Ask
    <2> QED  BY <2>1, <2>2
  <1>3. CASE TurnFinish
    BY <1>3 DEF TurnFinish, Receive, Running, Queue!Next, Queue!TurnEnd
  <1>4. CASE Open
    <2>1. sent = <<>> /\ served = 0 /\ Len(sent) = 0 /\ UNCHANGED <<asked, served>>
      BY <1>4 DEF Open, Unopened
    <2>2. (IF mode = "multi" THEN Head(pending) ELSE 1) = Len(sent) + 1
      BY <1>4, <2>1, PendingTail DEF Open, FirstPending
    <2>3. CASE sent' = Append(sent, Len(sent) + 1)
      <3>1. Len(sent) < asked  BY <1>1, <2>1 DEF InOrder
      <3>2. Queue!Write  BY <2>1, <2>3, <3>1 DEF Queue!Write
      <3> QED  BY <3>2 DEF Queue!Next
    <2>4. CASE sent' = sent  BY <2>1, <2>4
    <2> QED  BY <1>4, <2>2, <2>3, <2>4 DEF Open, Written, SendThrew
  <1>5. CASE AfterEvent
    <2>1. UNCHANGED <<asked, served>> /\ pc = "event"  BY <1>5 DEF AfterEvent
    <2>2. CASE TurnEnded /\ MayDrain
      <3>1. served = Len(sent) /\ mode = "multi" /\ sock = "open" /\ pending # <<>>
        BY <2>1, <2>2 DEF OneBoundary, Gate, AtTurnEnd, MayDrain
      <3>2. Head(pending) = Len(sent) + 1 /\ Len(pending) > 0 /\ Len(pending) \in Nat
            /\ asked = Len(sent) + Len(pending)
        BY <3>1, PendingTail DEF InOrder
      <3>3. CASE sent' = Append(sent, Len(sent) + 1)
        <4>1. Len(sent) < asked  BY <1>1, <3>2
        <4>2. Queue!Write  BY <2>1, <3>1, <3>3, <4>1 DEF Queue!Write
        <4> QED  BY <4>2 DEF Queue!Next
      <3>4. CASE sent' = sent  BY <2>1, <3>4
      <3> QED
        BY <1>5, <2>2, <3>2, <3>3, <3>4 DEF AfterEvent, Written, SendThrew
    <2>3. CASE ~(TurnEnded /\ MayDrain)
      <3>1. sent' = sent  BY <1>5, <2>3 DEF AfterEvent
      <3> QED  BY <2>1, <3>1
    <2> QED  BY <2>2, <2>3
  <1>6. CASE Start \/ Message \/ TakeEvent \/ TakeSilent
    BY <1>6 DEF Start, Message, Receive, TakeEvent, TakeSilent
  <1>7. CASE Warn \/ NoSocket \/ Wait \/ AfterWarning \/ Finally \/ AfterFinal
                 \/ Drop \/ Closing \/ Closed \/ Abort \/ UNCHANGED vars
    BY <1>7, QuietSteps DEF Quiet
  <1> QED
    BY <1>2, <1>3, <1>4, <1>5, <1>6, <1>7 DEF Next, Generator

(* streamMultiTurn and sendMessage implement the turn queue, in either mode   *)
(* and for any number of messages and frames.                                 *)
THEOREM SerialCorrect == Spec => TurnsSerial
  <1>1. Init => Queue!Init  BY DEF Init, Queue!Init
  <1> QED
    BY <1>1, Invariance, SerialStep, PTL DEF Spec, TurnsSerial, Queue!Spec

-------------------------------------------------------------------------------
(* The single finish *)

LastIs(k) == out # <<>> /\ out[Len(out)].kind = k

HasFinish == \E i \in 1..Len(out) : out[i].kind = "finish"

(* A finish was yielded exactly by the states that lead to the end, and there *)
(* it is the last event.                                                      *)
FinishInv ==
    /\ \A i \in 1..Len(out) : out[i].kind = "finish" => i = Len(out)
    /\ HasFinish => pc \in {"finish", "done"} \/ (pc = "event" /\ finished)
    /\ pc = "finish" \/ finished => LastIs("finish")
    /\ finished => mode = "turn" /\ pc \in {"event", "done"}
    /\ pc = "done" /\ ~dropped => LastIs("finish")

(* Yielding an event before any finish; only a finish makes it the last one. *)
LEMMA YieldFinish ==
    ASSUME TypeOK, ~HasFinish, NEW s \in Nat,
           NEW k \in {"event", "turn_end", "warning", "error", "finish"}, Yield(k, s)
    PROVE  /\ \A i \in 1..Len(out') : out'[i].kind = "finish" => i = Len(out')
           /\ LastIs(k)'
           /\ k # "finish" => ~HasFinish'
  <1> DEFINE e == [kind |-> k, seq |-> s]
  <1>1. e \in Event /\ out \in Seq(Event) /\ Len(out) \in Nat  BY DEF Event, TypeOK
  <1>2. /\ Len(out') = Len(out) + 1 /\ out'[Len(out) + 1] = e
        /\ \A i \in 1..Len(out) : out'[i] = out[i]
    BY <1>1, AppendType DEF Yield
  <1>3. \A i \in 1..Len(out') : i \in 1..Len(out) \/ i = Len(out')
    BY <1>1, <1>2
  <1>4. \A i \in 1..Len(out) : out'[i].kind # "finish"  BY <1>2 DEF HasFinish
  <1>5. out' # <<>>  BY <1>1, <1>2
  <1>6. out'[Len(out')].kind = k  BY <1>2
  <1> QED  BY <1>3, <1>4, <1>5, <1>6 DEF LastIs, HasFinish

LEMMA FinishNext ==
    ASSUME TypeOK, FinishInv, [Next]_vars
    PROVE  FinishInv'
  <1> USE DEF FinishInv, socket, entry, pump, turns
  <1>1. CASE Open \/ SendMessage \/ Closing \/ UNCHANGED vars
    <2>1. UNCHANGED <<out, pc, finished, dropped, mode>>
      BY <1>1 DEF Open, SendMessage, Closing, vars
    <2> QED  BY <2>1 DEF LastIs, HasFinish
  <1>2. CASE Message \/ TurnFinish \/ Closed \/ Abort
    <2>1. UNCHANGED <<out, finished, dropped, mode>>
          /\ (pc' = pc \/ (pc = "parked" /\ pc' = "run"))
      BY <1>2 DEF Message, TurnFinish, Receive, Closed, Abort, OnAbort, Wake
    <2> QED  BY <2>1 DEF LastIs, HasFinish
  <1>3. CASE Start \/ Wait \/ TakeSilent \/ AfterEvent \/ AfterWarning
    <2>1. UNCHANGED <<out, finished, dropped, mode>> /\ pc' \in {"run", "parked"}
          /\ (pc \in {"new", "run", "warning"} \/ (pc = "event" /\ ~finished))
      BY <1>3 DEF Start, Wait, TakeSilent, AfterEvent, AfterWarning
    <2> QED  BY <2>1 DEF LastIs, HasFinish
  <1>4. CASE NoSocket
    <2>1. out' = <<[kind |-> "error", seq |-> 0]>> /\ pc' = "error" /\ ~finished'
      BY <1>4 DEF NoSocket
    <2>2. ~HasFinish'  BY <2>1 DEF HasFinish
    <2> QED  BY <2>1, <2>2 DEF HasFinish
  <1>5. CASE Warn
    <2>1. Yield("warning", lastSeq) /\ pc' = "warning" /\ pc = "run" /\ finished' = finished
      BY <1>5 DEF Warn, YieldWarning
    <2>2. ~HasFinish /\ ~finished /\ lastSeq \in Nat  BY <2>1 DEF TypeOK
    <2> QED  BY <2>1, <2>2, YieldFinish
  <1>6. CASE TakeEvent
    <2> DEFINE f == Head(queue)
    <2>1. /\ Yield(KindOf(f), EventSeq(f)) /\ pc = "run" /\ pc' = "event"
          /\ finished' = (KindOf(f) = "finish") /\ mode' = mode
      BY <1>6 DEF TakeEvent
    <2>2. ~HasFinish  BY <2>1
    <2>3. KindOf(f) \in {"event", "turn_end", "finish"}
          /\ (KindOf(f) = "finish" => mode # "multi")
      BY DEF KindOf
    <2>4. mode \in {"turn", "multi"}  BY ModesAssumption DEF TypeOK
    <2>5. EventSeq(f) \in Nat
      <3>1. f \in Frame  BY <1>6, HeadTailType DEF TakeEvent, TypeOK
      <3> QED  BY <3>1 DEF EventSeq, Frame, TypeOK
    <2>6. PICK k \in {"event", "turn_end", "finish"}, n \in Nat :
              Yield(k, n) /\ finished' = (k = "finish") /\ (k = "finish" => mode # "multi")
      BY <2>1, <2>3, <2>5
    <2>7. /\ \A i \in 1..Len(out') : out'[i].kind = "finish" => i = Len(out')
          /\ LastIs(k)'
          /\ k # "finish" => ~HasFinish'
      BY <2>2, <2>6, YieldFinish
    <2>8. finished' => LastIs("finish")' /\ mode' = "turn"
      BY <2>1, <2>4, <2>6, <2>7 DEF LastIs
    <2>9. HasFinish' => finished'  BY <2>6, <2>7
    <2> QED  BY <2>1, <2>7, <2>8, <2>9
  <1>7. CASE Finally
    <2>1. finished' = finished /\ mode' = mode /\ dropped' = dropped /\ lastSeq + 1 \in Nat
      BY <1>7 DEF Finally, TypeOK
    <2>2. CASE OwesFinish
      <3>1. ~finished /\ ~HasFinish
        BY <1>7, <2>2 DEF Finally, Leaves, OwesFinish
      <3>2. CASE EndsInError
        <4>1. Yield("error", lastSeq + 1) /\ pc' = "error"
          BY <1>7, <2>2, <3>2 DEF Finally, YieldNext
        <4> QED  BY <2>1, <3>1, <4>1, YieldFinish
      <3>3. CASE ~EndsInError
        <4>1. Yield("finish", lastSeq + 1) /\ pc' = "finish"
          BY <1>7, <2>2, <3>3 DEF Finally, YieldNext
        <4> QED  BY <2>1, <3>1, <4>1, YieldFinish
      <3> QED  BY <3>2, <3>3
    <2>3. CASE ~OwesFinish
      <3>1. finished /\ out' = out /\ pc' = "done"
        BY <1>7, <2>3 DEF Finally, OwesFinish
      <3> QED  BY <2>1, <3>1 DEF LastIs, HasFinish
    <2> QED  BY <2>2, <2>3
  <1>8. CASE AfterFinal
    <2>1. finished' = finished /\ mode' = mode /\ dropped' = dropped /\ lastSeq + 1 \in Nat
      BY <1>8 DEF AfterFinal, TypeOK
    <2>2. CASE pc = "error"
      <3>1. Yield("finish", lastSeq + 1) /\ pc' = "finish"
        BY <1>8, <2>2 DEF AfterFinal, YieldNext
      <3>2. ~HasFinish /\ ~finished  BY <2>2
      <3> QED  BY <2>1, <3>1, <3>2, YieldFinish
    <2>3. CASE pc # "error"
      <3>1. pc = "finish" /\ pc' = "done" /\ out' = out  BY <1>8, <2>3 DEF AfterFinal
      <3> QED  BY <2>1, <3>1 DEF LastIs, HasFinish
    <2> QED  BY <2>2, <2>3
  <1>9. CASE Drop
    <2>1. pc' = "done" /\ dropped' /\ UNCHANGED <<out, finished, mode>>
      BY <1>9 DEF Drop
    <2> QED  BY <2>1 DEF LastIs, HasFinish
  <1> QED
    BY <1>1, <1>2, <1>3, <1>4, <1>5, <1>6, <1>7, <1>8, <1>9 DEF Next, Generator

(* A stream yields at most one finish and nothing after it, and always one   *)
(* when it is pulled to its end: the contract of types.ts, in either mode.   *)
THEOREM FinishCorrect == Spec => []FinishOnceAndLast
  <1>1. Init => FinishInv  BY DEF Init, FinishInv, HasFinish, LastIs
  <1>2. FinishInv => FinishOnceAndLast
    BY DEF FinishInv, FinishOnceAndLast, LastIs
  <1>3. TypeOK /\ FinishInv /\ [Next]_vars => FinishInv'  BY FinishNext
  <1> QED  BY TypeCorrect, <1>1, <1>2, <1>3, PTL DEF Spec

-------------------------------------------------------------------------------
(* The release *)

(* Nothing is held before the socket is created, nor from the finally block on. *)
ReleaseInv ==
    /\ pc = "new" => ~live /\ sock = "none"
    /\ pc \in {"error", "finish", "done"} => ~live /\ sock \notin {"connecting", "open"}

LEMMA ReleaseNext == ASSUME ReleaseInv, [Next]_vars PROVE ReleaseInv'
  <1> USE DEF ReleaseInv, Cleanup, socket, entry, pump, turns
  <1>1. CASE Start  BY <1>1 DEF Start
  <1>2. CASE NoSocket  BY <1>2 DEF NoSocket
  <1>3. CASE Open
    <2>1. pc' = pc /\ live' = live /\ sock = "connecting"  BY <1>3 DEF Open
    <2> QED  BY <2>1
  <1>4. CASE Message \/ TurnFinish
    <2>1. /\ UNCHANGED <<live, sock>> /\ sock = "open"
          /\ pc' = pc \/ (pc = "parked" /\ pc' = "run")
      BY <1>4 DEF Message, TurnFinish, Receive, Wake
    <2> QED  BY <2>1
  <1>5. CASE Closing  BY <1>5 DEF Closing
  <1>6. CASE Closed \/ Abort
    <2>1. /\ live' = live /\ (sock' = sock \/ (sock = "closing" /\ sock' = "closed"))
          /\ pc' = pc \/ (pc = "parked" /\ pc' = "run")
      BY <1>6 DEF Closed, Abort, OnAbort, Wake
    <2> QED  BY <2>1
  <1>7. CASE SendMessage
    <2>1. live /\ UNCHANGED <<pc, live, sock>>  BY <1>7 DEF SendMessage
    <2> QED  BY <2>1
  <1>8. CASE Warn \/ TakeEvent \/ TakeSilent \/ Wait \/ AfterEvent \/ AfterWarning
    <2>1. pc' \in {"run", "parked", "event", "warning"}
      BY <1>8 DEF Warn, TakeEvent, TakeSilent, Wait, AfterEvent, AfterWarning
    <2> QED  BY <2>1
  <1>9. CASE Finally
    <2>1. /\ ~live' /\ sock' = Cleanup(sock)
          /\ pc' \in {"error", "finish", "done"}
      BY <1>9 DEF Finally
    <2> QED  BY <2>1
  <1>10. CASE AfterFinal  BY <1>10 DEF AfterFinal
  <1>11. CASE Drop
    <2>1. ~live' /\ sock' = Cleanup(sock) /\ pc' = "done"  BY <1>11 DEF Drop
    <2> QED  BY <2>1
  <1>12. CASE UNCHANGED vars  BY <1>12 DEF vars
  <1> QED
    BY <1>1, <1>2, <1>3, <1>4, <1>5, <1>6, <1>7, <1>8, <1>9, <1>10, <1>11, <1>12
    DEF Next, Generator

(* The finally blocks: a stream that ended, however it did, has neither left *)
(* its sid registered nor its socket open.                                   *)
THEOREM ReleaseCorrect == Spec => []Released
  <1>1. Init => ReleaseInv  BY DEF Init, ReleaseInv
  <1>2. ReleaseInv => Released  BY DEF ReleaseInv, Released
  <1> QED  BY <1>1, <1>2, ReleaseNext, PTL DEF Spec

-------------------------------------------------------------------------------
(* The in-process session: what its lists hold at the start. *)
USE DEF InProc!calls, InProc!turns, InProc!list, InProc!Waiter, InProc!Closed

(* The lists the actions start from. *)
LEMMA EmptyType == <<>> \in Seq(Nat) /\ <<0>> \in Seq(Nat)
/\ <<"error">> \in Seq(InProc!Kinds)
                   /\ <<>> \in Seq(InProc!Kinds)
  BY DEF InProc!Kinds

-------------------------------------------------------------------------------
(* The types of an in-process session *)

(* A parked generator has left its waiter, and nothing else, in the list.    *)
Parked == gen = "parked" => entries = <<InProc!Waiter>>

TypeInv == InProc!TypeOK /\ Parked

(* Yielding one of the kinds keeps the types of what it writes. *)
LEMMA ServerYieldType ==
    ASSUME InProc!TypeOK, NEW k \in InProc!Kinds, InProc!Yield(k)
    PROVE  /\ shown' \in Seq(InProc!Kinds) /\ gen' \in InProc!Kinds /\ gen' = k
           /\ shown' = Append(shown, k)
  BY AppendType DEF InProc!TypeOK, InProc!Yield

(* The finally block of a multi-turn stream keeps the types, and ends the    *)
(* registration.                                                             *)
LEMMA MultiFinallyType ==
    ASSUME InProc!TypeOK, NEW w \in {"stop", "aborted", "error"}, InProc!MultiFinally(w)
    PROVE  /\ shown' \in Seq(InProc!Kinds) /\ gen' \in {"warning", "finish"}
           /\ shown' = Append(shown, gen')
           /\ entries' = <<>> /\ registered' = FALSE /\ hand' = InProc!Closed
           /\ exit' \in {"stop", "aborted", "error"}
           /\ vm' = vm
  BY ServerYieldType DEF InProc!MultiFinally, InProc!Kinds

(* Starting a runner keeps the types. *)
LEMMA RunsType ==
    ASSUME InProc!TypeOK, NEW m \in Nat, InProc!Runs(m)
    PROVE  sent' \in Seq(Nat) /\ gen' = "runner"
  BY AppendType DEF InProc!TypeOK, InProc!Runs

(* What TypeInv says after a step, variable by variable. *)
LEMMA TypesAfter ==
    ASSUME mode' \in Modes, aborted' \in BOOLEAN, dropped' \in BOOLEAN,
           asked' \in Nat, served' \in Nat, sent' \in Seq(Nat),
           gen' \in {"new", "refused", "handed", "runner", "over", "done"} \union InProc!Kinds,
           entries' \in Seq(Nat), hand' \in Nat, registered' \in BOOLEAN,
           shown' \in Seq(InProc!Kinds), exit' \in {"stop", "aborted", "error"},
           vm' \in {"none", "made", "destroyed"}
    PROVE  TypeInv'
  BY DEF TypeInv, InProc!TypeOK, Parked, InProc!Kinds

(* A step into the finally block of a multi-turn stream. *)
LEMMA TypeFinally ==
    ASSUME InProc!TypeOK, NEW w \in {"stop", "aborted", "error"}, InProc!MultiFinally(w),
           UNCHANGED <<InProc!calls, InProc!turns>>
    PROVE  TypeInv'
  <1>1. /\ shown' \in Seq(InProc!Kinds) /\ gen' \in {"warning", "finish"}
        /\ entries' = <<>> /\ registered' = FALSE /\ hand' = InProc!Closed
        /\ exit' \in {"stop", "aborted", "error"}
        /\ vm' = vm
    BY MultiFinallyType
  <1> QED  BY <1>1, TypesAfter, EmptyType DEF InProc!TypeOK, InProc!Kinds

(* A step that yields one of the kinds and leaves the list alone. *)
LEMMA TypeYields ==
    ASSUME InProc!TypeOK, NEW k \in InProc!Kinds, InProc!Yield(k),
           UNCHANGED <<InProc!calls, asked, sent, InProc!list>>,
           served' \in Nat, exit' \in {"stop", "aborted", "error"},
           vm' \in {"none", "made", "destroyed"}
    PROVE  TypeInv'
  <1>1. shown' \in Seq(InProc!Kinds) /\ gen' \in InProc!Kinds  BY ServerYieldType
  <1> QED  BY <1>1, TypesAfter DEF InProc!TypeOK, InProc!Kinds

(* A step that only moves the generator on, and may destroy the VM. *)
LEMMA TypeMoves ==
    ASSUME InProc!TypeOK, gen' \in {"runner", "over", "done"},
           UNCHANGED <<InProc!calls, asked, sent, InProc!list>>,
           UNCHANGED <<shown, exit>>, served' \in Nat, vm' \in {"none", "made", "destroyed"}
    PROVE  TypeInv'
  BY TypesAfter DEF InProc!TypeOK

(* Every step keeps the types. *)
LEMMA TypeStep == TypeInv /\ [InProc!Next]_InProc!vars => TypeInv'
  <1> SUFFICES ASSUME TypeInv, [InProc!Next]_InProc!vars PROVE TypeInv'  OBVIOUS
  <1>0. InProc!TypeOK /\ Parked  BY DEF TypeInv
  <1>1. CASE InProc!Start
    <2>1. CASE shown' = <<"error">> /\ gen' = "refused" /\ UNCHANGED vm
      <3>1. UNCHANGED <<InProc!calls, InProc!turns, InProc!list, exit>>
        BY <1>1 DEF InProc!Start
      <3> QED  BY <1>0, <2>1, <3>1, EmptyType, TypesAfter DEF InProc!TypeOK
    <2>2. CASE gen' = "done" /\ UNCHANGED <<shown, vm>>
      <3>1. UNCHANGED <<InProc!calls, InProc!turns, InProc!list, exit>>
        BY <1>1 DEF InProc!Start
      <3> QED  BY <1>0, <2>2, <3>1, TypeMoves DEF InProc!TypeOK
    <2>3. CASE InProc!Yield("open") /\ vm' = "made"
      <3>1. UNCHANGED <<InProc!calls, InProc!turns, InProc!list, exit>>
        BY <1>1 DEF InProc!Start
      <3> QED  BY <1>0, <2>3, <3>1, TypeYields DEF InProc!TypeOK, InProc!Kinds
    <2> QED  BY <1>1, <2>1, <2>2, <2>3 DEF InProc!Start
  <1>2. CASE InProc!AfterRefusal
    <2>1. InProc!Yield("finish")
          /\ UNCHANGED <<InProc!calls, InProc!turns, InProc!list, exit, vm>>
      BY <1>2 DEF InProc!AfterRefusal
    <2> QED  BY <1>0, <2>1, TypeYields DEF InProc!TypeOK, InProc!Kinds
  <1>3. CASE InProc!AfterOpen
    <2>1. UNCHANGED <<InProc!calls, asked, served>>  BY <1>3 DEF InProc!AfterOpen
    <2>2. CASE InProc!MultiFinally("aborted") /\ UNCHANGED sent
      BY <1>0, <2>1, <2>2, TypeFinally
    <2>3. CASE /\ InProc!Runs(1) /\ UNCHANGED <<hand, shown, exit, vm>>
               /\ \/ entries' = <<>> /\ registered' = TRUE
                  \/ UNCHANGED <<entries, registered>>
      <3>1. sent' \in Seq(Nat) /\ gen' = "runner"  BY <1>0, <2>3, RunsType
      <3>2. entries' \in Seq(Nat) /\ registered' \in BOOLEAN
        BY <1>0, <2>3, EmptyType DEF InProc!TypeOK
      <3> QED  BY <1>0, <2>1, <2>3, <3>1, <3>2, TypesAfter DEF InProc!TypeOK
    <2> QED  BY <1>3, <2>2, <2>3 DEF InProc!AfterOpen
  <1>4. CASE InProc!AfterTurnEnd
    <2>1. UNCHANGED <<InProc!calls, InProc!turns>>  BY <1>4 DEF InProc!AfterTurnEnd
    <2>2. CASE InProc!MultiFinally("aborted")  BY <1>0, <2>1, <2>2, TypeFinally
    <2>3. CASE /\ entries # <<>> /\ UNCHANGED <<registered, shown, exit, vm>>
               /\ hand' = Head(entries) /\ entries' = Tail(entries) /\ gen' = "handed"
      <3>1. Head(entries) \in Nat /\ Tail(entries) \in Seq(Nat)
        BY <1>0, <2>3, HeadTailType DEF InProc!TypeOK
      <3> QED  BY <1>0, <2>1, <2>3, <3>1, TypesAfter DEF InProc!TypeOK
    <2>4. CASE entries' = <<InProc!Waiter>> /\ gen' = "parked"
               /\ UNCHANGED <<hand, registered, shown, exit, vm>>
      BY <1>0, <2>1, <2>4, EmptyType DEF InProc!TypeOK, TypeInv, Parked
    <2> QED  BY <1>4, <2>2, <2>3, <2>4 DEF InProc!AfterTurnEnd, InProc!TakeOldest
  <1>5. CASE InProc!Handed
    <2>1. UNCHANGED <<InProc!calls, asked, served>>  BY <1>5 DEF InProc!Handed
    <2>2. CASE InProc!MultiFinally(IF aborted THEN "aborted" ELSE "stop") /\ UNCHANGED sent
      BY <1>0, <2>1, <2>2, TypeFinally
    <2>3. CASE InProc!Runs(hand) /\ hand' = InProc!Closed
               /\ UNCHANGED <<entries, registered, shown, exit, vm>>
      <3>1. sent' \in Seq(Nat) /\ gen' = "runner"  BY <1>0, <2>3, RunsType DEF InProc!TypeOK
      <3> QED  BY <1>0, <2>1, <2>3, <3>1, TypesAfter DEF InProc!TypeOK
    <2> QED  BY <1>5, <2>2, <2>3 DEF InProc!Handed
  <1>6. CASE InProc!StopsAtAbort
    <2>1. UNCHANGED <<InProc!calls, InProc!turns>>  BY <1>6 DEF InProc!StopsAtAbort
    <2>2. CASE InProc!MultiFinally("aborted")  BY <1>0, <2>1, <2>2, TypeFinally
    <2>3. CASE InProc!Yield("warning") /\ UNCHANGED <<InProc!list, exit, vm>>
      BY <1>0, <2>1, <2>3, TypeYields DEF InProc!TypeOK, InProc!Kinds
    <2> QED  BY <1>6, <2>2, <2>3 DEF InProc!StopsAtAbort
  <1>7. CASE InProc!RunnerYields
    <2>1. InProc!Yield("event")
          /\ UNCHANGED <<InProc!calls, InProc!turns, InProc!list, exit, vm>>
      BY <1>7 DEF InProc!RunnerYields
    <2> QED  BY <1>0, <2>1, TypeYields DEF InProc!TypeOK, InProc!Kinds
  <1>8. CASE InProc!RunnerDone
    <2>1. UNCHANGED <<InProc!calls, asked, sent, InProc!list, exit, vm>> /\ served' \in Nat
      BY <1>0, <1>8 DEF InProc!RunnerDone, InProc!TypeOK
    <2>2. CASE InProc!Swallow
      BY <1>0, <2>1, <2>2, TypeMoves DEF InProc!Swallow, InProc!TypeOK
    <2>3. CASE InProc!Yield("finish")
      BY <1>0, <2>1, <2>3, TypeYields DEF InProc!TypeOK, InProc!Kinds
    <2> QED  BY <1>8, <2>2, <2>3 DEF InProc!RunnerDone
  <1>9. CASE InProc!TurnOver
    <2>1. InProc!Yield("turn_end")
          /\ UNCHANGED <<InProc!calls, InProc!turns, InProc!list, exit, vm>>
      BY <1>9 DEF InProc!TurnOver
    <2> QED  BY <1>0, <2>1, TypeYields DEF InProc!TypeOK, InProc!Kinds
  <1>10. CASE InProc!RunnerThrows
    <2>1. UNCHANGED <<InProc!calls, InProc!turns, InProc!list>>
      BY <1>10 DEF InProc!RunnerThrows
    <2>2. CASE InProc!Yield("error") /\ exit' = "error" /\ UNCHANGED vm
      BY <1>0, <2>1, <2>2, TypeYields DEF InProc!TypeOK, InProc!Kinds
    <2>3. CASE InProc!TurnFinally /\ UNCHANGED exit
      BY <1>0, <2>1, <2>3, TypeYields, TypeMoves
      DEF InProc!TypeOK, InProc!Kinds, InProc!TurnFinally
    <2> QED  BY <1>10, <2>2, <2>3 DEF InProc!RunnerThrows
  <1>11. CASE InProc!AfterWarning
    <2>1. UNCHANGED <<InProc!calls, InProc!turns, InProc!list, exit>>
      BY <1>11 DEF InProc!AfterWarning
    <2>2. CASE InProc!Yield("finish") /\ UNCHANGED vm
      BY <1>0, <2>1, <2>2, TypeYields DEF InProc!TypeOK, InProc!Kinds
    <2>3. CASE InProc!TurnFinally
      BY <1>0, <2>1, <2>3, TypeYields, TypeMoves
      DEF InProc!TypeOK, InProc!Kinds, InProc!TurnFinally
    <2> QED  BY <1>11, <2>2, <2>3 DEF InProc!AfterWarning
  <1>12. CASE InProc!AfterFinish
    BY <1>0, <1>12, TypeMoves DEF InProc!AfterFinish, InProc!VmDestroyed, InProc!TypeOK
  <1>13. CASE InProc!AfterEvent
    BY <1>0, <1>13, TypeMoves DEF InProc!AfterEvent, InProc!TypeOK
  <1>14. CASE InProc!AfterError
    BY <1>0, <1>14, TypeFinally DEF InProc!AfterError
  <1>15. CASE InProc!Drop
    <2>1. /\ gen' = "done" /\ dropped' = TRUE /\ registered' = FALSE /\ entries' = <<>>
          /\ vm' \in {"destroyed", vm}
             /\ UNCHANGED <<mode, aborted, InProc!turns, hand, shown, exit>>
      BY <1>15 DEF InProc!Drop
    <2> QED  BY <1>0, <2>1, EmptyType, TypesAfter DEF InProc!TypeOK
  <1>16. CASE InProc!SendMessage
    <2>1. UNCHANGED <<InProc!calls, sent, served, registered, shown, exit, vm>>
          /\ asked' = asked + 1
      BY <1>16 DEF InProc!SendMessage
    <2>2. CASE /\ entries # <<>> /\ entries' = Tail(entries)
               /\ hand' = asked + 1 /\ gen' = "handed"
      <3>1. Tail(entries) \in Seq(Nat)  BY <1>0, <2>2, HeadTailType DEF InProc!TypeOK
      <3> QED  BY <1>0, <2>1, <2>2, <3>1, TypesAfter DEF InProc!TypeOK
    <2>3. CASE /\ ~(entries # <<>> /\ Head(entries) = InProc!Waiter)
               /\ entries' = Append(entries, asked + 1) /\ UNCHANGED <<hand, gen>>
      <3>1. Append(entries, asked + 1) \in Seq(Nat)  BY <1>0, AppendType DEF InProc!TypeOK
      <3>2. gen # "parked"  BY <1>0, <2>3 DEF Parked
      <3> QED  BY <1>0, <2>1, <2>3, <3>1, <3>2, TypesAfter DEF InProc!TypeOK
    <2> QED  BY <1>16, <2>2, <2>3 DEF InProc!SendMessage, InProc!LosesWaiter
  <1>17. CASE InProc!Abort
    <2>1. UNCHANGED <<mode, dropped, InProc!turns, registered, shown, exit, vm>>
          /\ aborted' = TRUE
      BY <1>17 DEF InProc!Abort
    <2>2. CASE gen = "parked" /\ entries' = Tail(entries) /\ hand' = InProc!Closed
               /\ gen' = "handed"
      <3>1. Tail(entries) \in Seq(Nat)
        <4>1. entries # <<>>  BY <1>0, <2>2 DEF Parked
        <4> QED  BY <1>0, <4>1, HeadTailType DEF InProc!TypeOK
      <3> QED  BY <1>0, <2>1, <2>2, <3>1, TypesAfter DEF InProc!TypeOK
    <2>3. CASE gen # "parked" /\ UNCHANGED <<entries, hand, gen>>
      BY <1>0, <2>1, <2>3, TypesAfter DEF InProc!TypeOK
    <2> QED  BY <1>17, <2>2, <2>3 DEF InProc!Abort, InProc!LosesWaiter
  <1>18. CASE UNCHANGED InProc!vars
    BY <1>0, <1>18 DEF InProc!vars, InProc!TypeOK, TypeInv, Parked
  <1> QED
    BY <1>1, <1>2, <1>3, <1>4, <1>5, <1>6, <1>7, <1>8, <1>9, <1>10, <1>11, <1>12, <1>13,
       <1>14, <1>15, <1>16, <1>17, <1>18 DEF InProc!Next, InProc!Resumed, InProc!Runner

(* The types hold at first. *)
LEMMA ServerTypeInit == InProc!Init => TypeInv
  <1> SUFFICES ASSUME InProc!Init PROVE TypeInv  OBVIOUS
  <1>1. sent \in Seq(Nat) /\ entries \in Seq(Nat) /\ shown \in Seq(InProc!Kinds)
    BY EmptyType DEF InProc!Init
  <1>2. gen = "new" /\ asked \in Nat /\ served \in Nat /\ hand \in Nat  BY DEF InProc!Init
  <1>3. /\ mode \in Modes /\ aborted \in BOOLEAN /\ dropped \in BOOLEAN
           /\ registered \in BOOLEAN
        /\ exit \in {"stop", "aborted", "error"} /\ vm \in {"none", "made", "destroyed"}
    BY DEF InProc!Init
  <1> QED  BY <1>1, <1>2, <1>3 DEF TypeInv, InProc!TypeOK, Parked

(* Type correctness, for any constants. *)
THEOREM ServerTypeCorrect == InProc!Spec => []InProc!TypeOK
  <1>1. TypeInv => InProc!TypeOK  BY DEF TypeInv
  <1> QED  BY <1>1, ServerTypeInit, TypeStep, PTL DEF InProc!Spec

-------------------------------------------------------------------------------
(* The list *)

(* Where the generator is, what it has handed over and who is registered.    *)
Stages ==
    /\ gen \in {"new", "refused", "open"} => sent = <<>> /\ asked = 1 /\ served = 0
    /\ gen \in {"parked", "handed", "over", "turn_end"} => registered /\ Len(sent) = served
    /\ gen \in {"runner", "event"} => Len(sent) = served + 1
    /\ gen \in {"new", "refused", "open", "finish", "done"} => ~registered
    /\ (mode = "multi" /\ gen = "warning") => ~registered
    /\ (mode = "multi" /\ gen \in {"runner", "event"}) => registered
    /\ mode # "multi" => ~registered /\ gen # "error"
    /\ hand # InProc!Closed => gen = "handed"

(* The messages accepted: with a runner, in hand, in the list, in order.     *)
HandLen == IF hand = InProc!Closed THEN 0 ELSE 1
PendingLen == IF gen = "parked" THEN 0 ELSE Len(entries)

Counted ==
    registered =>
        /\ asked = Len(sent) + HandLen + PendingLen
        /\ \A i \in 1..Len(sent) : sent[i] = i
        /\ hand # InProc!Closed => hand = Len(sent) + 1
        /\ \A j \in 1..PendingLen : entries[j] = Len(sent) + HandLen + j

ListInv == TypeInv /\ Stages /\ Counted

(* A step that leaves the calls and the list alone and keeps the generator   *)
(* on the same side of its turn.                                             *)
LEMMA ListMoves ==
    ASSUME ListInv, UNCHANGED <<mode, asked, sent, InProc!list>>, Stages', gen # "parked",
           gen' # "parked"
    PROVE  Stages' /\ Counted'
  BY DEF ListInv, Counted, HandLen, PendingLen

(* A step that ends the registration, or makes none. *)
LEMMA ListEnds ==
    ASSUME ~registered', Stages'
    PROVE  Stages' /\ Counted'
  BY DEF Counted

(* The finally block of a multi-turn stream. *)
LEMMA ListFinally ==
    ASSUME ListInv, NEW w \in {"stop", "aborted", "error"}, InProc!MultiFinally(w),
           UNCHANGED <<InProc!calls, InProc!turns>>
    PROVE  Stages' /\ Counted'
  <1>1. InProc!TypeOK /\ gen' \in {"warning", "finish"} /\ registered' = FALSE
        /\ hand' = InProc!Closed
    BY MultiFinallyType DEF ListInv, TypeInv
  <1>2. Stages'  BY <1>1 DEF Stages
  <1> QED  BY <1>1, <1>2, ListEnds

(* sendMessage with a waiter: the message is in hand; without, in the list.  *)
LEMMA ListSend == ListInv /\ InProc!SendMessage => Stages' /\ Counted'
  <1> SUFFICES ASSUME ListInv, InProc!SendMessage PROVE Stages' /\ Counted'  OBVIOUS
  <1>0. /\ registered /\ asked \in Nat /\ Len(sent) \in Nat /\ entries \in Seq(Nat)
        /\ Len(entries) \in Nat /\ hand \in Nat /\ Stages /\ Counted /\ Parked
    BY DEF ListInv, TypeInv, InProc!TypeOK, InProc!SendMessage
  <1>1. UNCHANGED <<mode, sent, served, registered>> /\ asked' = asked + 1
    BY DEF InProc!SendMessage
  <1>2. CASE /\ entries # <<>> /\ Head(entries) = InProc!Waiter /\ entries' = Tail(entries)
             /\ hand' = asked + 1 /\ gen' = "handed"
    <2>1. gen = "parked"
      <3>1. Len(entries) > 0 /\ entries[1] = 0  BY <1>0, <1>2, HeadTailType
      <3> QED  BY <1>0, <3>1 DEF Counted, HandLen, PendingLen
    <2>2. hand = InProc!Closed /\ entries = <<InProc!Waiter>>
      BY <1>0, <2>1 DEF Stages, Parked
    <2>3. Len(entries') = 0  BY <1>2, <2>2
    <2>4. asked = Len(sent)  BY <1>0, <2>1, <2>2 DEF Counted, HandLen, PendingLen
    <2>5. Stages'  BY <1>0, <1>1, <1>2, <2>1 DEF Stages
    <2>6. PendingLen' = 0 /\ HandLen' = 1  BY <1>0, <1>2, <2>3 DEF HandLen, PendingLen
    <2>7. \A i \in 1..Len(sent) : sent[i] = i  BY <1>0 DEF Counted
    <2>8. Counted'
      BY <1>0, <1>1, <1>2, <2>4, <2>6, <2>7 DEF Counted
    <2> QED  BY <2>5, <2>8
  <1>3. CASE /\ ~(entries # <<>> /\ Head(entries) = InProc!Waiter)
             /\ entries' = Append(entries, asked + 1) /\ UNCHANGED <<hand, gen>>
    <2>1. gen # "parked"  BY <1>0, <1>3 DEF Parked
    <2>2. /\ Len(entries') = Len(entries) + 1 /\ entries'[Len(entries) + 1] = asked + 1
          /\ \A j \in 1..Len(entries) : entries'[j] = entries[j]
      BY <1>0, <1>3, AppendType
    <2>3. Stages'  BY <1>0, <1>1, <1>3 DEF Stages
    <2>4. /\ asked = Len(sent) + HandLen + Len(entries)
          /\ \A j \in 1..Len(entries) : entries[j] = Len(sent) + HandLen + j
      BY <1>0, <2>1 DEF Counted, PendingLen
    <2>5. HandLen' = HandLen /\ PendingLen' = Len(entries) + 1 /\ HandLen \in Nat
      BY <1>3, <2>1, <2>2 DEF HandLen, PendingLen
    <2>6. Counted'
      BY <1>0, <1>1, <1>3, <2>2, <2>4, <2>5 DEF Counted
    <2> QED  BY <2>3, <2>6
  <1> QED  BY <1>2, <1>3 DEF InProc!SendMessage, InProc!LosesWaiter

(* The abort listener takes the waiter out; nothing accepted is lost.        *)
LEMMA ListAbort == ListInv /\ InProc!Abort => Stages' /\ Counted'
  <1> SUFFICES ASSUME ListInv, InProc!Abort PROVE Stages' /\ Counted'  OBVIOUS
  <1>1. UNCHANGED <<mode, asked, sent, served, registered>> /\ Stages /\ Counted /\ Parked
    BY DEF ListInv, TypeInv, InProc!Abort
  <1>2. CASE gen = "parked" /\ entries' = Tail(entries) /\ hand' = InProc!Closed
             /\ gen' = "handed"
    <2>1. entries = <<InProc!Waiter>> /\ hand = InProc!Closed
      BY <1>1, <1>2 DEF Parked, Stages
    <2>2. Len(entries') = 0  BY <1>2, <2>1
    <2>3. Stages'  BY <1>1, <1>2 DEF Stages
    <2>4. Counted'  BY <1>1, <1>2, <2>1, <2>2 DEF Counted, HandLen, PendingLen
    <2> QED  BY <2>3, <2>4
  <1>3. CASE UNCHANGED <<entries, hand, gen>>
    BY <1>1, <1>3 DEF Stages, Counted, HandLen, PendingLen
  <1> QED  BY <1>2, <1>3 DEF InProc!Abort, InProc!LosesWaiter

(* After a turn: the oldest message is taken in hand, or a waiter left.      *)
LEMMA ListTurnEnd == ListInv /\ InProc!AfterTurnEnd => Stages' /\ Counted'
  <1> SUFFICES ASSUME ListInv, InProc!AfterTurnEnd PROVE Stages' /\ Counted'  OBVIOUS
  <1>0. /\ gen = "turn_end" /\ UNCHANGED <<InProc!calls, InProc!turns>>
        /\ Len(sent) \in Nat /\ entries \in Seq(Nat) /\ Len(entries) \in Nat
        /\ Stages /\ Counted /\ hand = InProc!Closed /\ registered
    BY DEF ListInv, TypeInv, InProc!TypeOK, InProc!AfterTurnEnd, Stages
  <1>1. CASE InProc!MultiFinally("aborted")  BY <1>0, <1>1, ListFinally
  <1>2. CASE /\ entries # <<>> /\ UNCHANGED registered
             /\ hand' = Head(entries) /\ entries' = Tail(entries) /\ gen' = "handed"
    <2>1. /\ Len(entries) > 0 /\ Len(entries') = Len(entries) - 1 /\ hand' = entries[1]
          /\ \A j \in 1..Len(entries') : entries'[j] = entries[j + 1]
      BY <1>0, <1>2, HeadTailType
    <2>2. /\ asked = Len(sent) + Len(entries)
          /\ \A j \in 1..Len(entries) : entries[j] = Len(sent) + j
          /\ \A i \in 1..Len(sent) : sent[i] = i
      BY <1>0 DEF Counted, HandLen, PendingLen
    <2>3. hand' = Len(sent) + 1  BY <1>0, <2>1, <2>2
    <2>4. Stages'  BY <1>0, <1>2 DEF Stages
    <2>5. HandLen' = 1 /\ PendingLen' = Len(entries')
      BY <1>0, <1>2, <2>3 DEF HandLen, PendingLen
    <2>6. \A j \in 1..Len(entries') : entries'[j] = Len(sent) + 1 + j
      BY <1>0, <2>1, <2>2
    <2>7. Counted'  BY <1>0, <2>1, <2>2, <2>3, <2>5, <2>6 DEF Counted
    <2> QED  BY <2>4, <2>7
  <1>3. CASE /\ entries = <<>> /\ UNCHANGED <<hand, registered>>
             /\ entries' = <<InProc!Waiter>> /\ gen' = "parked"
    <2>1. Stages'  BY <1>0, <1>3 DEF Stages
    <2>2. Counted'  BY <1>0, <1>3 DEF Counted, HandLen, PendingLen
    <2> QED  BY <2>1, <2>2
  <1> QED  BY <1>1, <1>2, <1>3 DEF InProc!AfterTurnEnd, InProc!TakeOldest

(* What is in hand is the next message, and goes to a runner.                *)
LEMMA ListHanded == ListInv /\ InProc!Handed => Stages' /\ Counted'
  <1> SUFFICES ASSUME ListInv, InProc!Handed PROVE Stages' /\ Counted'  OBVIOUS
  <1>0. /\ gen = "handed" /\ UNCHANGED <<InProc!calls, asked, served>> /\ hand \in Nat
        /\ sent \in Seq(Nat) /\ Len(sent) \in Nat /\ entries \in Seq(Nat)
           /\ Len(entries) \in Nat
        /\ Stages /\ Counted /\ registered /\ Len(sent) = served
    BY DEF ListInv, TypeInv, InProc!TypeOK, InProc!Handed, Stages
  <1>1. CASE InProc!MultiFinally(IF aborted THEN "aborted" ELSE "stop") /\ UNCHANGED sent
    BY <1>0, <1>1, ListFinally
  <1>2. CASE /\ hand # InProc!Closed /\ InProc!Runs(hand) /\ hand' = InProc!Closed
                /\ UNCHANGED <<entries, registered>>
    <2>1. /\ Len(sent') = Len(sent) + 1 /\ sent'[Len(sent) + 1] = hand /\ gen' = "runner"
          /\ \A i \in 1..Len(sent) : sent'[i] = sent[i]
      BY <1>0, <1>2, AppendType DEF InProc!Runs
    <2>2. /\ asked = Len(sent) + 1 + Len(entries) /\ hand = Len(sent) + 1
          /\ \A j \in 1..Len(entries) : entries[j] = Len(sent) + 1 + j
          /\ \A i \in 1..Len(sent) : sent[i] = i
      BY <1>0, <1>2 DEF Counted, HandLen, PendingLen
    <2>3. Stages'  BY <1>0, <1>2, <2>1 DEF Stages
    <2>4. HandLen' = 0 /\ PendingLen' = Len(entries)
      BY <1>2, <2>1 DEF HandLen, PendingLen
    <2>5. \A i \in 1..Len(sent') : sent'[i] = i  BY <1>0, <2>1, <2>2
    <2>6. Counted'
      BY <1>0, <1>2, <2>1, <2>2, <2>4, <2>5 DEF Counted
    <2> QED  BY <2>3, <2>6
  <1> QED  BY <1>1, <1>2 DEF InProc!Handed

(* The first message goes to a runner; a multi-turn stream registers first.  *)
LEMMA ListOpen == ListInv /\ InProc!AfterOpen => Stages' /\ Counted'
  <1> SUFFICES ASSUME ListInv, InProc!AfterOpen PROVE Stages' /\ Counted'  OBVIOUS
  <1>0. /\ gen = "open" /\ UNCHANGED <<InProc!calls, asked, served>>
        /\ sent = <<>> /\ asked = 1 /\ served = 0 /\ Stages /\ hand = InProc!Closed
           /\ ~registered
    BY DEF ListInv, TypeInv, InProc!TypeOK, InProc!AfterOpen, Stages
  <1>1. CASE InProc!MultiFinally("aborted") /\ UNCHANGED sent  BY <1>0, <1>1, ListFinally
  <1>2. CASE mode = "multi" /\ registered' = TRUE /\ entries' = <<>> /\ InProc!Runs(1)
             /\ UNCHANGED hand
    <2>1. Len(sent') = 1 /\ sent'[1] = 1 /\ gen' = "runner"  BY <1>0, <1>2 DEF InProc!Runs
    <2>2. Stages'  BY <1>0, <1>2, <2>1 DEF Stages
    <2>3. Counted'  BY <1>0, <1>2, <2>1 DEF Counted, HandLen, PendingLen
    <2> QED  BY <2>2, <2>3
  <1>3. CASE mode # "multi" /\ InProc!Runs(1) /\ UNCHANGED InProc!list
    <2>1. Len(sent') = 1 /\ gen' = "runner"  BY <1>0, <1>3 DEF InProc!Runs
    <2>2. Stages'  BY <1>0, <1>3, <2>1 DEF Stages
    <2> QED  BY <1>0, <1>3, <2>2, ListEnds
  <1> QED  BY <1>1, <1>2, <1>3 DEF InProc!AfterOpen

(* Every step keeps what is said of the list. *)
LEMMA ListStep == ListInv /\ [InProc!Next]_InProc!vars => Stages' /\ Counted'
  <1> SUFFICES ASSUME ListInv, [InProc!Next]_InProc!vars PROVE Stages' /\ Counted'  OBVIOUS
  <1>0. Stages /\ Counted /\ InProc!TypeOK  BY DEF ListInv, TypeInv
  <1>1. CASE InProc!Start
    <2>1. /\ gen = "new" /\ gen' \in {"refused", "done", "open"}
          /\ UNCHANGED <<InProc!calls, InProc!turns, InProc!list>>
      BY <1>1 DEF InProc!Start, InProc!Yield
    <2>2. Stages'  BY <1>0, <2>1 DEF Stages
    <2> QED  BY <1>0, <2>1, <2>2, ListEnds DEF Stages
  <1>2. CASE InProc!AfterRefusal
    <2>1. gen = "refused" /\ gen' = "finish"
          /\ UNCHANGED <<InProc!calls, InProc!turns, InProc!list>>
      BY <1>2 DEF InProc!AfterRefusal, InProc!Yield
    <2>2. Stages'  BY <1>0, <2>1 DEF Stages
    <2> QED  BY <1>0, <2>1, <2>2, ListEnds DEF Stages
  <1>3. CASE InProc!AfterOpen  BY <1>3, ListOpen
  <1>4. CASE InProc!AfterTurnEnd  BY <1>4, ListTurnEnd
  <1>5. CASE InProc!Handed  BY <1>5, ListHanded
  <1>6. CASE InProc!StopsAtAbort
    <2>1. CASE InProc!MultiFinally("aborted")
      BY <1>6, <2>1, ListFinally DEF InProc!StopsAtAbort
    <2>2. CASE mode # "multi" /\ InProc!Yield("warning")
               /\ UNCHANGED <<InProc!list, exit, vm>>
      <3>1. gen' = "warning" /\ gen = "runner" /\ UNCHANGED <<InProc!calls, InProc!turns>>
        BY <1>6, <2>2 DEF InProc!StopsAtAbort, InProc!Yield
      <3>2. Stages'  BY <1>0, <2>2, <3>1 DEF Stages
      <3> QED  BY <1>0, <2>2, <3>2, ListEnds DEF Stages
    <2> QED  BY <1>6, <2>1, <2>2 DEF InProc!StopsAtAbort
  <1>7. CASE InProc!RunnerYields \/ InProc!AfterEvent
    <2>1. gen \in {"runner", "event"} /\ gen' \in {"runner", "event"}
          /\ UNCHANGED <<InProc!calls, InProc!turns, InProc!list>>
      BY <1>7 DEF InProc!RunnerYields, InProc!AfterEvent, InProc!Yield
    <2>2. Stages'  BY <1>0, <2>1 DEF Stages
    <2> QED  BY <2>1, <2>2, ListMoves
  <1>8. CASE InProc!RunnerDone
    <2>1. /\ gen = "runner" /\ UNCHANGED <<InProc!calls, asked, sent, InProc!list>>
             /\ served' = served + 1
          /\ gen' = IF mode = "multi" THEN "over" ELSE "finish"
      BY <1>8 DEF InProc!RunnerDone, InProc!Swallow, InProc!Yield
    <2>2. Stages'  BY <1>0, <2>1 DEF Stages
    <2> QED  BY <2>1, <2>2, ListMoves
  <1>9. CASE InProc!TurnOver
    <2>1. gen = "over" /\ gen' = "turn_end"
          /\ UNCHANGED <<InProc!calls, InProc!turns, InProc!list>>
      BY <1>9 DEF InProc!TurnOver, InProc!Yield
    <2>2. Stages'  BY <1>0, <2>1 DEF Stages
    <2> QED  BY <2>1, <2>2, ListMoves
  <1>10. CASE InProc!RunnerThrows
    <2>1. /\ gen = "runner" /\ UNCHANGED <<InProc!calls, InProc!turns, InProc!list>>
          /\ \/ mode = "multi" /\ gen' = "error"
             \/ mode # "multi" /\ gen' \in {"finish", "done"}
      BY <1>10 DEF InProc!RunnerThrows, InProc!TurnFinally, InProc!Yield
    <2>2. Stages'  BY <1>0, <2>1 DEF Stages
    <2> QED  BY <2>1, <2>2, ListMoves
  <1>11. CASE InProc!AfterWarning
    <2>1. gen = "warning" /\ gen' \in {"finish", "done"}
          /\ UNCHANGED <<InProc!calls, InProc!turns, InProc!list>>
      BY <1>11 DEF InProc!AfterWarning, InProc!TurnFinally, InProc!Yield
    <2>2. Stages'  BY <1>0, <2>1 DEF Stages
    <2> QED  BY <1>0, <2>1, <2>2, ListMoves
  <1>12. CASE InProc!AfterFinish
    <2>1. gen = "finish" /\ gen' = "done"
          /\ UNCHANGED <<InProc!calls, InProc!turns, InProc!list>>
      BY <1>12 DEF InProc!AfterFinish
    <2>2. Stages'  BY <1>0, <2>1 DEF Stages
    <2> QED  BY <2>1, <2>2, ListMoves
  <1>13. CASE InProc!AfterError  BY <1>13, ListFinally DEF InProc!AfterError
  <1>14. CASE InProc!Drop
    <2>1. /\ gen \in InProc!Kinds \union {"refused"} /\ gen' = "done" /\ registered' = FALSE
          /\ UNCHANGED <<mode, InProc!turns, hand>>
      BY <1>14 DEF InProc!Drop
    <2>2. Stages'  BY <1>0, <2>1 DEF Stages, InProc!Kinds
    <2> QED  BY <2>1, <2>2, ListEnds
  <1>15. CASE InProc!SendMessage  BY <1>15, ListSend
  <1>16. CASE InProc!Abort  BY <1>16, ListAbort
  <1>17. CASE UNCHANGED InProc!vars
    BY <1>0, <1>17 DEF InProc!vars, Stages, Counted, HandLen, PendingLen
  <1> QED
    BY <1>1, <1>2, <1>3, <1>4, <1>5, <1>6, <1>7, <1>8, <1>9, <1>10, <1>11, <1>12, <1>13,
       <1>14, <1>15, <1>16, <1>17 DEF InProc!Next, InProc!Resumed, InProc!Runner

(* The list is empty and unregistered at first. *)
LEMMA ListInit == InProc!Init => ListInv
  BY ServerTypeInit DEF InProc!Init, ListInv, Stages, Counted

(* Counting the messages says that none is dropped. *)
LEMMA CountedKeeps == ListInv => InProc!NoMessageDropped
  <1> SUFFICES ASSUME ListInv, registered
               PROVE  /\ gen = "parked" => entries = <<InProc!Waiter>>
                      /\ sent \o InProc!InHand \o InProc!Pending = [i \in 1..asked |-> i]
    BY DEF InProc!NoMessageDropped
  <1>1. /\ sent \in Seq(Nat) /\ Len(sent) \in Nat /\ entries \in Seq(Nat)
           /\ Len(entries) \in Nat
        /\ hand \in Nat /\ asked \in Nat /\ Counted /\ Parked
    BY DEF ListInv, TypeInv, InProc!TypeOK
  <1>2. InProc!InHand \in Seq(Nat) /\ Len(InProc!InHand) = HandLen /\ HandLen \in {0, 1}
        /\ (HandLen = 1 => InProc!InHand[1] = hand /\ hand # InProc!Closed)
    BY <1>1, EmptyType DEF InProc!InHand, HandLen
  <1>3. /\ InProc!Pending \in Seq(Nat) /\ Len(InProc!Pending) = PendingLen
           /\ PendingLen \in Nat
        /\ \A j \in 1..PendingLen : InProc!Pending[j] = entries[j]
    BY <1>1, EmptyType DEF InProc!Pending, PendingLen
  <1> DEFINE whole == sent \o InProc!InHand \o InProc!Pending
  <1>4. /\ whole \in Seq(Nat) /\ Len(whole) = Len(sent) + HandLen + PendingLen
        /\ \A i \in 1..Len(whole) :
              whole[i] = IF i <= Len(sent) THEN sent[i]
                       ELSE IF i <= Len(sent) + HandLen THEN InProc!InHand[i - Len(sent)]
                       ELSE InProc!Pending[i - Len(sent) - HandLen]
    <2> DEFINE two == sent \o InProc!InHand
    <2>1. /\ two \in Seq(Nat) /\ Len(two) = Len(sent) + HandLen
          /\ \A i \in 1..Len(two) :
                two[i] = IF i <= Len(sent) THEN sent[i] ELSE InProc!InHand[i - Len(sent)]
      BY <1>1, <1>2, ConcatType
    <2> HIDE DEF two
    <2>2. /\ two \o InProc!Pending \in Seq(Nat)
             /\ Len(two \o InProc!Pending) = Len(two) + PendingLen
          /\ \A i \in 1..(Len(two) + PendingLen) :
                (two \o InProc!Pending)[i] =
                   IF i <= Len(two) THEN two[i] ELSE InProc!Pending[i - Len(two)]
      BY <1>3, <2>1, ConcatType
    <2>3. whole = two \o InProc!Pending  BY DEF two
    <2> HIDE DEF whole
    <2>4. Len(whole) = Len(sent) + HandLen + PendingLen  BY <2>1, <2>2, <2>3
    <2>5. ASSUME NEW i \in 1..Len(whole)
          PROVE  whole[i] = IF i <= Len(sent) THEN sent[i]
                          ELSE IF i <= Len(sent) + HandLen THEN InProc!InHand[i - Len(sent)]
                          ELSE InProc!Pending[i - Len(sent) - HandLen]
      <3>1. /\ i \in 1..(Len(two) + PendingLen) /\ Len(sent) \in Nat /\ HandLen \in Nat
            /\ PendingLen \in Nat /\ i \in Nat /\ i >= 1 /\ Len(two) = Len(sent) + HandLen
        BY <1>1, <1>2, <1>3, <2>1, <2>4
      <3>2. whole[i] = IF i <= Len(two) THEN two[i] ELSE InProc!Pending[i - Len(two)]
        BY <2>2, <2>3, <3>1
      <3>3. CASE i <= Len(two)
        <4>1. two[i] = IF i <= Len(sent) THEN sent[i] ELSE InProc!InHand[i - Len(sent)]
          BY <2>1, <3>1, <3>3
        <4> QED  BY <3>1, <3>2, <3>3, <4>1
      <3>4. CASE ~(i <= Len(two))
        <4>1. i - Len(two) = i - Len(sent) - HandLen  BY <3>1
        <4> QED  BY <3>1, <3>2, <3>4, <4>1
      <3> QED  BY <3>3, <3>4
    <2> QED  BY <2>2, <2>3, <2>4, <2>5
  <1>5. Len(whole) = asked  BY <1>4, <1>1 DEF Counted
  <1>6. \A i \in 1..asked : whole[i] = i
    <2> HIDE DEF whole
    <2> SUFFICES ASSUME NEW i \in 1..asked PROVE whole[i] = i  OBVIOUS
    <2>0. i \in Nat /\ i >= 1
      <3>1. asked \in Nat  BY <1>1
      <3> QED  BY <3>1
    <2>1. CASE i <= Len(sent)
      <3>1. whole[i] = sent[i]  BY <1>4, <1>5, <2>1
      <3>2. sent[i] = i
        <4>1. Len(sent) \in Nat /\ Counted  BY <1>1
        <4>2. \A k \in 1..Len(sent) : sent[k] = k  BY <4>1 DEF Counted
        <4> QED  BY <4>1, <4>2, <2>0, <2>1
      <3> QED  BY <3>1, <3>2
    <2>2. CASE i > Len(sent) /\ i <= Len(sent) + HandLen
      <3>0. Len(sent) \in Nat  BY <1>1
      <3>1. HandLen = 1 /\ i = Len(sent) + 1 /\ i - Len(sent) = 1 /\ ~(i <= Len(sent))
        BY <1>2, <2>0, <2>2, <3>0
      <3>2. whole[i] = InProc!InHand[1]  BY <1>4, <1>5, <2>2, <3>1
      <3>3. InProc!InHand[1] = Len(sent) + 1  BY <1>1, <1>2, <3>1 DEF Counted
      <3> QED  BY <3>1, <3>2, <3>3
    <2>3. CASE i > Len(sent) + HandLen
      <3> DEFINE j == i - Len(sent) - HandLen
      <3>1. j \in 1..PendingLen  BY <1>1, <1>2, <1>3, <1>4, <1>5, <2>0, <2>3
      <3>2. whole[i] = InProc!Pending[j]
        <4>1. ~(i <= Len(sent)) /\ ~(i <= Len(sent) + HandLen)  BY <1>1, <1>2, <2>0, <2>3
        <4> QED  BY <1>4, <1>5, <4>1
      <3>3. InProc!Pending[j] = Len(sent) + HandLen + j  BY <1>1, <1>3, <3>1 DEF Counted
      <3>4. Len(sent) + HandLen + j = i  BY <1>1, <1>2, <2>0
      <3> QED  BY <3>2, <3>3, <3>4
    <2>4. \/ i <= Len(sent) \/ (i > Len(sent) /\ i <= Len(sent) + HandLen)
             \/ i > Len(sent) + HandLen
      BY <1>1, <1>2, <2>0
    <2> QED  BY <2>1, <2>2, <2>3, <2>4
  <1>7. whole = [i \in 1..asked |-> i]
    <2> HIDE DEF whole
    <2>1. DOMAIN whole = 1..asked  BY <1>4, <1>5
    <2> QED  BY <1>4, <1>5, <1>6, <2>1
  <1> QED  BY <1>1, <1>7 DEF Parked

(* What is said of the list holds throughout. *)
LEMMA ListInvariant == InProc!Spec => []ListInv
  <1>1. ListInv /\ [InProc!Next]_InProc!vars => ListInv'  BY TypeStep, ListStep DEF ListInv
  <1> QED  BY <1>1, ListInit, PTL DEF InProc!Spec

(* For any number of messages, and however sendMessage, the abort signal and *)
(* the generator interleave, no accepted message is dropped or overtaken     *)
(* while the stream is registered.                                           *)
THEOREM MessagesKept == InProc!Spec => []InProc!NoMessageDropped
  <1> QED  BY ListInvariant, CountedKeeps, PTL

-------------------------------------------------------------------------------
(* The abstract turn queue *)

(* A message goes to a runner only when it is the next and the turn before   *)
(* it is over; every other step leaves the turns alone, or ends one.         *)
LEMMA ServerSerialStep == ListInv
/\ [InProc!Next]_InProc!vars => [InProc!Queue!Next]_(InProc!Queue!vars)
  <1> SUFFICES ASSUME ListInv, [InProc!Next]_InProc!vars
               PROVE  [InProc!Queue!Next]_(InProc!Queue!vars)
    OBVIOUS
  <1> USE DEF InProc!Queue!vars
  <1>0. Stages /\ Counted /\ Len(sent) \in Nat /\ served \in Nat /\ asked \in Nat
        /\ Len(entries) \in Nat
    BY DEF ListInv, TypeInv, InProc!TypeOK
  <1>1. CASE InProc!AfterOpen
    <2>1. sent = <<>> /\ asked = 1 /\ served = 0 /\ UNCHANGED <<asked, served>>
      BY <1>0, <1>1 DEF InProc!AfterOpen, Stages
    <2>2. CASE UNCHANGED sent  BY <2>1, <2>2
    <2>3. CASE InProc!Runs(1)
      <3>1. Len(sent) = 0 /\ sent' = Append(sent, Len(sent) + 1)
        BY <2>1, <2>3 DEF InProc!Runs
      <3> QED  BY <2>1, <3>1 DEF InProc!Queue!Next, InProc!Queue!Write
    <2> QED  BY <1>1, <2>2, <2>3 DEF InProc!AfterOpen
  <1>2. CASE InProc!Handed
    <2>1. gen = "handed" /\ registered /\ Len(sent) = served /\ UNCHANGED <<asked, served>>
      BY <1>0, <1>2 DEF InProc!Handed, Stages
    <2>2. CASE UNCHANGED sent  BY <2>1, <2>2
    <2>3. CASE hand # InProc!Closed /\ InProc!Runs(hand)
      <3>1. hand = Len(sent) + 1 /\ asked = Len(sent) + 1 + Len(entries)
        BY <1>0, <2>1, <2>3 DEF Counted, HandLen, PendingLen
      <3>2. sent' = Append(sent, Len(sent) + 1) /\ Len(sent) < asked
        BY <1>0, <2>3, <3>1 DEF InProc!Runs
      <3> QED  BY <2>1, <3>2 DEF InProc!Queue!Next, InProc!Queue!Write
    <2> QED  BY <1>2, <2>2, <2>3 DEF InProc!Handed
  <1>3. CASE InProc!RunnerDone
    <2>1. /\ gen = "runner" /\ served' = served + 1 /\ UNCHANGED <<asked, sent>>
          /\ Len(sent) = served + 1
      BY <1>0, <1>3 DEF InProc!RunnerDone, Stages
    <2> QED  BY <1>0, <2>1 DEF InProc!Queue!Next, InProc!Queue!TurnEnd
  <1>4. CASE InProc!SendMessage
    BY <1>4 DEF InProc!SendMessage, InProc!Queue!Next, InProc!Queue!Ask
  <1>5. CASE InProc!Start \/ InProc!AfterRefusal \/ InProc!AfterTurnEnd \/ InProc!AfterEvent
             \/ InProc!TurnOver
             \/ InProc!AfterError \/ InProc!AfterWarning \/ InProc!AfterFinish
    BY <1>5
    DEF InProc!Start, InProc!AfterRefusal, InProc!AfterTurnEnd, InProc!AfterEvent,
        InProc!TurnOver, InProc!AfterError,
                InProc!AfterWarning, InProc!AfterFinish
  <1>6. CASE InProc!StopsAtAbort \/ InProc!RunnerYields \/ InProc!RunnerThrows
             \/ InProc!Drop \/ InProc!Abort
    BY <1>6
    DEF InProc!StopsAtAbort, InProc!RunnerYields, InProc!RunnerThrows, InProc!Drop,
        InProc!Abort
  <1>7. CASE UNCHANGED InProc!vars  BY <1>7 DEF InProc!vars
  <1> QED
    BY <1>1, <1>2, <1>3, <1>4, <1>5, <1>6, <1>7
    DEF InProc!Next, InProc!Resumed, InProc!Runner

(* The in-process session implements the turn queue of types.ts, whatever    *)
(* aborts, leaves or throws: messages in the order accepted, each once, the  *)
(* next after the end of the turn before.                                    *)
THEOREM InProcessSerial == InProc!Spec => InProc!TurnsSerial
  <1>1. InProc!Init => InProc!Queue!Init  BY DEF InProc!Init, InProc!Queue!Init
  <1> QED
    BY <1>1, ListInvariant, ServerSerialStep, PTL
    DEF InProc!Spec, InProc!TurnsSerial, InProc!Queue!Spec

-------------------------------------------------------------------------------
(* The ends *)

(* A finish is the last thing yielded, and only before the end; at the end a *)
(* multi-turn stream that was opened and not left has said it, and a VM that *)
(* was made is destroyed unless the consumer left.                           *)
Ends ==
    /\ gen \notin {"finish", "done"} => \A i \in 1..Len(shown) : shown[i] # "finish"
    /\ \A i \in 1..Len(shown) : shown[i] = "finish" => i = Len(shown)
    /\ gen = "finish" => shown[Len(shown)] = "finish"
    /\ gen = "new" => vm = "none"
    /\ (gen = "done" /\ ~dropped) =>
          /\ vm # "made"
          /\ (mode = "multi" /\ vm # "none") => shown[Len(shown)] = "finish"

(* Yielding before the end. *)
LEMMA EndsYields ==
    ASSUME InProc!TypeOK, Ends, NEW k \in InProc!Kinds, InProc!Yield(k),
           gen \notin {"finish", "done"}
    PROVE  Ends'
  <1>1. /\ gen' = k /\ shown' = Append(shown, k) /\ gen' \notin {"done", "new"}
        /\ shown \in Seq(InProc!Kinds) /\ Len(shown) \in Nat
    BY DEF InProc!Yield, InProc!TypeOK, InProc!Kinds
  <1>2. /\ Len(shown') = Len(shown) + 1 /\ shown'[Len(shown) + 1] = k
        /\ \A i \in 1..Len(shown) : shown'[i] = shown[i]
    BY <1>1, AppendType
  <1>3. \A i \in 1..Len(shown) : shown'[i] # "finish"  BY <1>2 DEF Ends
  <1>4. \A i \in 1..Len(shown') : i \in 1..Len(shown) \/ i = Len(shown')  BY <1>1, <1>2
  <1> QED  BY <1>1, <1>2, <1>3, <1>4 DEF Ends

(* Going on before the end without yielding. *)
LEMMA EndsMoves ==
    ASSUME Ends, UNCHANGED shown, gen \notin {"finish", "done"},
           gen' \notin {"finish", "done", "new"}
    PROVE  Ends'
  BY DEF Ends

(* Nothing is yielded and the generator stays where it is. *)
LEMMA EndsStays ==
    ASSUME Ends, UNCHANGED <<gen, shown, mode, dropped, vm>>
    PROVE  Ends'
  BY DEF Ends

(* Every step keeps the ends. *)
LEMMA EndsStep == ListInv /\ Ends /\ [InProc!Next]_InProc!vars => Ends'
  <1> SUFFICES ASSUME ListInv, Ends, [InProc!Next]_InProc!vars PROVE Ends'  OBVIOUS
  <1>0. InProc!TypeOK  BY DEF ListInv, TypeInv
  <1>1. CASE InProc!Start
    <2>1. gen = "new" /\ UNCHANGED <<mode, dropped>> /\ vm = "none"
      BY <1>1 DEF InProc!Start, Ends
    <2>2. CASE shown' = <<"error">> /\ gen' = "refused"  BY <2>1, <2>2 DEF Ends
    <2>3. CASE gen' = "done" /\ UNCHANGED <<shown, vm>>  BY <2>1, <2>3 DEF Ends
    <2>4. CASE InProc!Yield("open")  BY <1>0, <2>1, <2>4, EndsYields DEF InProc!Kinds
    <2> QED  BY <1>1, <2>2, <2>3, <2>4 DEF InProc!Start
  <1>2. CASE InProc!AfterRefusal
    BY <1>0, <1>2, EndsYields DEF InProc!AfterRefusal, InProc!Kinds
  <1>3. ASSUME NEW w \in {"stop", "aborted", "error"}, InProc!MultiFinally(w),
               gen \notin {"finish", "done"}
        PROVE  Ends'
    BY <1>0, <1>3, EndsYields DEF InProc!MultiFinally, InProc!Kinds
  <1>4. CASE InProc!AfterOpen
    BY <1>3, <1>4, EndsMoves DEF InProc!AfterOpen, InProc!Runs
  <1>5. CASE InProc!AfterTurnEnd
    BY <1>3, <1>5, EndsMoves DEF InProc!AfterTurnEnd
  <1>6. CASE InProc!Handed
    BY <1>3, <1>6, EndsMoves DEF InProc!Handed, InProc!Runs
  <1>7. CASE InProc!StopsAtAbort
    BY <1>0, <1>3, <1>7, EndsYields DEF InProc!StopsAtAbort, InProc!Kinds
  <1>8. CASE InProc!RunnerYields
    BY <1>0, <1>8, EndsYields DEF InProc!RunnerYields, InProc!Kinds
  <1>9. CASE InProc!RunnerDone
    BY <1>0, <1>9, EndsYields, EndsMoves DEF InProc!RunnerDone, InProc!Swallow, InProc!Kinds
  <1>10. CASE InProc!TurnOver
    BY <1>0, <1>10, EndsYields DEF InProc!TurnOver, InProc!Kinds
  <1>11. CASE InProc!AfterEvent
    BY <1>11, EndsMoves DEF InProc!AfterEvent
  <1>12. CASE InProc!AfterError
    BY <1>3, <1>12 DEF InProc!AfterError
  <1>13. ASSUME InProc!TurnFinally, mode # "multi", UNCHANGED InProc!calls,
                gen \notin {"finish", "done"}
         PROVE  Ends'
    <2>1. CASE InProc!Yield("finish")  BY <1>0, <1>13, <2>1, EndsYields DEF InProc!Kinds
    <2>2. CASE gen' = "done" /\ vm' = "destroyed" /\ UNCHANGED shown
      BY <1>13, <2>2 DEF Ends
    <2> QED  BY <1>13, <2>1, <2>2 DEF InProc!TurnFinally
  <1>14. CASE InProc!RunnerThrows
    BY <1>0, <1>13, <1>14, EndsYields DEF InProc!RunnerThrows, InProc!Kinds
  <1>15. CASE InProc!AfterWarning
    BY <1>0, <1>13, <1>15, EndsYields DEF InProc!AfterWarning, InProc!Kinds
  <1>16. CASE InProc!AfterFinish
    BY <1>16 DEF InProc!AfterFinish, InProc!VmDestroyed, Ends
  <1>17. CASE InProc!Drop
    BY <1>17 DEF InProc!Drop, Ends
  <1>18. CASE InProc!SendMessage
    <2>1. UNCHANGED <<mode, dropped, shown, vm>>  BY <1>18 DEF InProc!SendMessage
    <2>2. CASE UNCHANGED gen  BY <2>1, <2>2, EndsStays
    <2>3. CASE gen' = "handed"
      <3>1. gen \notin {"finish", "done"}  BY <1>18 DEF InProc!SendMessage, ListInv, Stages
      <3> QED  BY <2>1, <2>3, <3>1, EndsMoves
    <2> QED  BY <1>18, <2>2, <2>3 DEF InProc!SendMessage
  <1>19. CASE InProc!Abort
    <2>1. UNCHANGED <<mode, dropped, shown, vm>>  BY <1>19 DEF InProc!Abort
    <2>2. CASE UNCHANGED gen  BY <2>1, <2>2, EndsStays
    <2>3. CASE gen = "parked" /\ gen' = "handed"  BY <2>1, <2>3, EndsMoves
    <2> QED  BY <1>19, <2>2, <2>3 DEF InProc!Abort
  <1>20. CASE UNCHANGED InProc!vars  BY <1>20, EndsStays DEF InProc!vars
  <1> QED
    BY <1>1, <1>2, <1>4, <1>5, <1>6, <1>7, <1>8, <1>9, <1>10, <1>11, <1>12, <1>14, <1>15,
       <1>16, <1>17, <1>18, <1>19, <1>20 DEF InProc!Next, InProc!Resumed, InProc!Runner

(* The ends hold throughout, with the list. *)
LEMMA EndsInvariant == InProc!Spec => []Ends
  <1>1. InProc!Init => Ends  BY DEF InProc!Init, Ends
  <1> QED  BY <1>1, EndsStep, ListInvariant, PTL DEF InProc!Spec

(* types.ts: finish comes at most once and last, in either mode, and a       *)
(* multi-turn stream that was opened and pulled to its end has said it.      *)
THEOREM ServerFinishCorrect == InProc!Spec => []InProc!FinishOnceAndLast
  <1>1. Ends => InProc!FinishOnceAndLast  BY DEF Ends, InProc!FinishOnceAndLast, InProc!Last
  <1> QED  BY <1>1, EndsInvariant, PTL

(* The finally blocks release the sid and, unless the consumer left, the VM. *)
THEOREM ServerReleaseCorrect == InProc!Spec => []InProc!Released
  <1>1. ListInv /\ Ends => InProc!Released  BY DEF Ends, ListInv, Stages, InProc!Released
  <1> QED  BY <1>1, EndsInvariant, ListInvariant, PTL

-------------------------------------------------------------------------------
(* The session as its caller gets it: either client behind the factory.      *)

InServerInv == ListInv /\ Ends

LEMMA InServerInit == InProc!Init => InServerInv
  BY ListInit DEF InServerInv, Ends, InProc!Init

LEMMA InServerStep ==
    ASSUME InServerInv, [InProc!Next]_InProc!vars
    PROVE  InServerInv'
  BY TypeStep, ListStep, EndsStep DEF InServerInv, ListInv

(* While one client serves the session, what the other one keeps for itself  *)
(* stays as it was at first.                                                 *)
LifedIdle ==
    /\ sock = "none" /\ closed = FALSE /\ isOpen = FALSE /\ inFlight = FALSE
    /\ pending = <<>> /\ live = FALSE /\ queue = <<>> /\ pc = "new" /\ out = <<>>
    /\ lastSeq = 0 /\ warned = FALSE /\ finished = FALSE /\ err = FALSE /\ wire = 0

InServerIdle == gen = "new" /\ registered = FALSE /\ shown = <<>>

AgentInv ==
    /\ backend \in {"lifed-ws", "in-process"}
    /\ backend = "lifed-ws" => IInv /\ FinishInv /\ ReleaseInv /\ InServerIdle
    /\ backend = "in-process" => InServerInv /\ LifedIdle

LEMMA AgentInit0 == AgentInit => AgentInv
  <1> SUFFICES ASSUME AgentInit PROVE AgentInv
    OBVIOUS
  <1>1. Init /\ InProc!Init /\ backend \in {"lifed-ws", "in-process"}
    BY DEF AgentInit, Backend
  <1>2. IInv  BY <1>1, InitIInv
  <1>3. FinishInv /\ ReleaseInv
    BY <1>1 DEF Init, FinishInv, ReleaseInv, HasFinish, LastIs
  <1>4. InServerInv  BY <1>1, InServerInit
  <1>5. InServerIdle  BY <1>1 DEF InProc!Init, InServerIdle
  <1>6. LifedIdle  BY <1>1 DEF Init, LifedIdle
  <1> QED  BY <1>1, <1>2, <1>3, <1>4, <1>5, <1>6 DEF AgentInv

(* A step of the session is a step of the client the factory chose.          *)
LEMMA AgentStep ==
    ASSUME AgentInv, [AgentNext]_all
    PROVE  /\ backend' = backend
           /\ backend = "lifed-ws" => [Next]_vars /\ UNCHANGED inProcess
           /\ backend = "in-process" => [InProc!Next]_InProc!vars /\ UNCHANGED lifed
  <1>1. CASE Lifed(Next)  BY <1>1 DEF Lifed
  <1>2. CASE InServer(InProc!Next)  BY <1>2 DEF InServer
  <1>3. CASE UNCHANGED all
    BY <1>3 DEF all, vars, lifed, inProcess, socket, entry, pump, turns, InProc!vars,
                InProc!calls, InProc!turns, InProc!list
  <1> QED  BY <1>1, <1>2, <1>3 DEF AgentNext

LEMMA AgentKeeps == ASSUME AgentInv, [AgentNext]_all PROVE AgentInv'
  <1>1. /\ backend' = backend
        /\ backend = "lifed-ws" => [Next]_vars /\ UNCHANGED inProcess
        /\ backend = "in-process" => [InProc!Next]_InProc!vars /\ UNCHANGED lifed
    BY AgentStep
  <1>2. CASE backend = "lifed-ws"
    <2>1. IInv /\ FinishInv /\ ReleaseInv /\ InServerIdle /\ TypeOK
      BY <1>2 DEF AgentInv, IInv
    <2>2. IInv' /\ FinishInv' /\ ReleaseInv'
      BY <1>1, <1>2, <2>1, IInvNext, FinishNext, ReleaseNext
    <2>3. InServerIdle'  BY <1>1, <1>2, <2>1 DEF InServerIdle, inProcess
    <2> QED  BY <1>1, <1>2, <2>2, <2>3 DEF AgentInv
  <1>3. CASE backend = "in-process"
    <2>1. InServerInv /\ LifedIdle  BY <1>3 DEF AgentInv
    <2>2. InServerInv'  BY <1>1, <1>3, <2>1, InServerStep
    <2>3. LifedIdle'  BY <1>1, <1>3, <2>1 DEF LifedIdle, lifed, socket, entry, pump
    <2> QED  BY <1>1, <1>3, <2>2, <2>3 DEF AgentInv
  <1> QED  BY <1>2, <1>3 DEF AgentInv

LEMMA AgentInvariance == AgentSpec => []AgentInv
  BY AgentInit0, AgentKeeps, PTL DEF AgentSpec

LEMMA InServerSays ==
    ASSUME InServerInv
    PROVE  InProcessKeepsMessages /\ InProcessEnds
  <1>1. InProc!NoMessageDropped  BY CountedKeeps DEF InServerInv
  <1>2. InProc!FinishOnceAndLast
    BY DEF InServerInv, Ends, InProc!FinishOnceAndLast, InProc!Last
  <1>3. InProc!Released
    BY DEF InServerInv, Ends, ListInv, Stages, InProc!Released
  <1> QED  BY <1>1, <1>2, <1>3 DEF InProcessKeepsMessages, InProcessEnds

(* Whichever client the factory chose, what sendMessage accepts is not        *)
(* dropped or overtaken while the in-process stream is registered.           *)
THEOREM AgentKeepsMessages == AgentSpec => []InProcessKeepsMessages
  <1>1. AgentInv => InProcessKeepsMessages
    <2> SUFFICES ASSUME AgentInv PROVE InProcessKeepsMessages
      OBVIOUS
    <2>1. CASE backend = "lifed-ws"
      BY <2>1 DEF AgentInv, InServerIdle, InProcessKeepsMessages, InProc!NoMessageDropped
    <2>2. CASE backend = "in-process"  BY <2>2, InServerSays DEF AgentInv
    <2> QED  BY <2>1, <2>2 DEF AgentInv
  <1> QED  BY <1>1, AgentInvariance, PTL

(* An in-process stream that ended is unregistered, has destroyed its VM     *)
(* unless its consumer left, and in multi-turn mode said finish once, last.  *)
THEOREM AgentEnds == AgentSpec => []InProcessEnds
  <1>1. AgentInv => InProcessEnds
    <2> SUFFICES ASSUME AgentInv PROVE InProcessEnds
      OBVIOUS
    <2>1. CASE backend = "lifed-ws"
      BY <2>1
      DEF AgentInv, InServerIdle, InProcessEnds, InProc!FinishOnceAndLast, InProc!Released
    <2>2. CASE backend = "in-process"  BY <2>2, InServerSays DEF AgentInv
    <2> QED  BY <2>1, <2>2 DEF AgentInv
  <1> QED  BY <1>1, AgentInvariance, PTL

(* Of a lifed session, whichever client the factory may choose: the types,   *)
(* the turn gate, the single finish and the release.                         *)
THEOREM AgentHoldsLifed ==
    AgentSpec => [](TypeOK /\ GateHeldWhilePending /\ FinishOnceAndLast /\ Released)
  <1>1. AgentInv => TypeOK /\ GateHeldWhilePending /\ FinishOnceAndLast /\ Released
    <2> SUFFICES ASSUME AgentInv
                 PROVE  TypeOK /\ GateHeldWhilePending /\ FinishOnceAndLast /\ Released
      OBVIOUS
    <2>1. CASE backend = "lifed-ws"
      BY <2>1 DEF AgentInv, IInv, FinishInv, LastIs, FinishOnceAndLast, ReleaseInv, Released
    <2>2. CASE backend = "in-process"
      <3>1. LifedIdle /\ InProc!TypeOK
        BY <2>2 DEF AgentInv, InServerInv, ListInv, TypeInv
      <3>2. /\ mode \in Modes /\ aborted \in BOOLEAN /\ dropped \in BOOLEAN
            /\ asked \in Nat /\ served \in Nat /\ sent \in Seq(Nat)
        BY <3>1 DEF InProc!TypeOK
      <3>3. pending \in Seq(Nat) /\ queue \in Seq(Frame) /\ out \in Seq(Event)
        BY <3>1, EmptySeq DEF LifedIdle
      <3>4. TypeOK  BY <3>1, <3>2, <3>3 DEF LifedIdle, TypeOK
      <3>5. GateHeldWhilePending /\ FinishOnceAndLast /\ Released
        BY <3>1 DEF LifedIdle, GateHeldWhilePending, FinishOnceAndLast, Released
      <3> QED  BY <3>4, <3>5
    <2> QED  BY <2>1, <2>2 DEF AgentInv
  <1> QED  BY <1>1, AgentInvariance, PTL

(* What a turn of the in-process client does to the turns, as the caller's    *)
(* turn queue.                                                               *)
LEMMA InServerSerial ==
    ASSUME InServerInv, [InProc!Next]_InProc!vars
    PROVE  [Queue!Next]_Queue!vars
  BY ServerSerialStep
  DEF InServerInv, InProc!Queue!Next, InProc!Queue!vars, InProc!Queue!Ask,
      InProc!Queue!Write, InProc!Queue!TurnEnd,
      Queue!Next, Queue!vars, Queue!Ask, Queue!Write, Queue!TurnEnd

(* types.ts, createAgentSessionClient: whichever client the factory hands     *)
(* out, it implements the turn queue, messages in the order accepted, each   *)
(* once, the next after the end of the turn before, whatever aborts, leaves, *)
(* closes or throws.                                                         *)
THEOREM AgentSerial == AgentSpec => TurnsSerial
  <1>1. AgentInit => Queue!Init  BY DEF AgentInit, Init, Queue!Init
  <1>2. AgentInv /\ [AgentNext]_all => [Queue!Next]_Queue!vars
    <2> SUFFICES ASSUME AgentInv, [AgentNext]_all PROVE [Queue!Next]_Queue!vars
      OBVIOUS
    <2>1. CASE backend = "lifed-ws"  BY <2>1, AgentStep, SerialStep DEF AgentInv
    <2>2. CASE backend = "in-process"  BY <2>2, AgentStep, InServerSerial DEF AgentInv
    <2> QED  BY <2>1, <2>2 DEF AgentInv
  <1> QED
    BY <1>1, <1>2, AgentInvariance, PTL DEF AgentSpec, TurnsSerial, Queue!Spec
===============================================================================

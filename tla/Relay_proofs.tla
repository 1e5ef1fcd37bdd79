----------------------------- MODULE Relay_proofs -----------------------------
(***************************************************************************)
(* Theorems about Relay, for any browsers, kinds, list size and bounds:    *)
(* types, what the replay list holds, and the order of one connection; and *)
(* about RelayFeed: what is shown and the turn being built.                *)
(***************************************************************************)
EXTENDS Relay, RelayFeed, TLAPS

USE SizeAssumption

(* Append keeps the elements and adds one. *)
LEMMA AppendType ==
    ASSUME NEW S, NEW s \in Seq(S), NEW e \in S
    PROVE  /\ Append(s, e) \in Seq(S)
           /\ Len(s) \in Nat
           /\ Len(Append(s, e)) = Len(s) + 1
           /\ Append(s, e)[Len(s) + 1] = e
           /\ \A i \in 1..Len(s) : Append(s, e)[i] = s[i]
           /\ \A i \in 1..Len(s) : s[i] \in S
  OBVIOUS

(* A concatenation is the one list and then the other. *)
LEMMA ConcatType ==
    ASSUME NEW S, NEW s \in Seq(S), NEW t \in Seq(S)
    PROVE  /\ s \o t \in Seq(S)
           /\ Len(s) \in Nat /\ Len(t) \in Nat
           /\ Len(s \o t) = Len(s) + Len(t)
           /\ \A i \in 1..Len(s \o t) :
                 (s \o t)[i] = IF i <= Len(s) THEN s[i] ELSE t[i - Len(s)]
  OBVIOUS

(* LTRIM keeps a sequence of the same elements, the last of the old one. *)
LEMMA KeepLastType ==
    ASSUME NEW s \in Seq(Nat)
    PROVE  /\ KeepLast(s) \in Seq(Nat)
           /\ Len(KeepLast(s)) = IF Len(s) <= ReplaySize THEN Len(s) ELSE ReplaySize
           /\ \A i \in 1..Len(KeepLast(s)) :
                 KeepLast(s)[i] = s[Len(s) - Len(KeepLast(s)) + i]
  <1>1. CASE Len(s) <= ReplaySize  BY <1>1 DEF KeepLast
  <1>2. CASE Len(s) > ReplaySize
    <2> DEFINE m == Len(s) - ReplaySize + 1
    <2>1. Len(s) \in Nat /\ m \in 1..Len(s)  BY <1>2
    <2>2. KeepLast(s) = SubSeq(s, m, Len(s))  BY <1>2 DEF KeepLast
    <2>3. /\ SubSeq(s, m, Len(s)) \in Seq(Nat)
          /\ Len(SubSeq(s, m, Len(s))) = ReplaySize
          /\ \A i \in 1..ReplaySize : SubSeq(s, m, Len(s))[i] = s[m + i - 1]
      BY <2>1
    <2> QED  BY <2>1, <2>2, <2>3, <1>2
  <1> QED  BY <1>1, <1>2

-------------------------------------------------------------------------------
(* Types *)

(* A publication keeps the types of what it writes. *)
LEMMA PublishType ==
    ASSUME TypeOK, NEW k \in Kinds \union {"user"}, Publish(k)
    PROVE  log' \in Seq(Kinds \union {"user"}) /\ sent' \in [Browsers -> Seq(Nat)]
  <1>1. log' \in Seq(Kinds \union {"user"})  BY AppendType DEF TypeOK, Publish
  <1>2. \A b \in Browsers : Append(sent[b], Len(log) + 1) \in Seq(Nat)
    BY AppendType DEF TypeOK
  <1> QED  BY <1>1, <1>2 DEF TypeOK, Publish

(* Every step keeps the types. *)
LEMMA TypeStep == TypeOK /\ [Next]_vars => TypeOK'
  <1> SUFFICES ASSUME TypeOK, [Next]_vars PROVE TypeOK'  OBVIOUS
  <1>1. ASSUME NEW k \in Kinds, Event(k) PROVE TypeOK'
    <2>1. log' \in Seq(Kinds \union {"user"}) /\ sent' \in [Browsers -> Seq(Nat)]
      BY <1>1, PublishType DEF Event
    <2> QED  BY <1>1, <2>1 DEF Event, TypeOK, Idle
  <1>2. CASE PushEvent
    BY <1>2, AppendType DEF PushEvent, TypeOK, streams
  <1>3. CASE TrimReplay
    BY <1>3, KeepLastType DEF TrimReplay, TypeOK, streams, Idle
  <1>4. CASE CompleteSession  BY <1>4 DEF CompleteSession, TypeOK, streams, Idle
  <1>5. CASE FailPost  BY <1>5 DEF FailPost, TypeOK, streams, Idle
  <1>6. CASE PublishInput
    <2>1. log' \in Seq(Kinds \union {"user"}) /\ sent' \in [Browsers -> Seq(Nat)]
      BY <1>6, PublishType DEF PublishInput
    <2> QED  BY <1>6, <2>1 DEF PublishInput, TypeOK
  <1>7. ASSUME NEW b \in Browsers, OpenStream(b) PROVE TypeOK'
    BY <1>7 DEF OpenStream, TypeOK
  <1>8. ASSUME NEW b \in Browsers, ReadReplay(b) PROVE TypeOK'
    <2>1. sent[b] \o replay \in Seq(Nat)  BY ConcatType DEF TypeOK
    <2> QED  BY <1>8, <2>1 DEF ReadReplay, TypeOK
  <1>9. ASSUME NEW b \in Browsers, Subscribe(b) PROVE TypeOK'
    BY <1>9 DEF Subscribe, TypeOK
  <1>10. ASSUME NEW b \in Browsers, FailStream(b) PROVE TypeOK'
    <2>1. Append(sent[b], ErrorFrame) \in Seq(Nat)  BY AppendType DEF TypeOK, ErrorFrame
    <2> QED  BY <1>10, <2>1 DEF FailStream, TypeOK
  <1>11. ASSUME NEW b \in Browsers, Disconnect(b) PROVE TypeOK'
    BY <1>11 DEF Disconnect, TypeOK
  <1>12. CASE UNCHANGED vars  BY <1>12 DEF vars, TypeOK
  <1> QED  BY <1>1, <1>2, <1>3, <1>4, <1>5, <1>6, <1>7, <1>8, <1>9, <1>10, <1>11, <1>12 DEF Next

(* Type correctness, for any constants. *)
THEOREM TypeCorrect == Spec => []TypeOK
  <1>1. Init => TypeOK  BY DEF Init, TypeOK, Idle
  <1> QED  BY <1>1, TypeStep, PTL DEF Spec

-------------------------------------------------------------------------------
(* The replay list *)

(* The event being posted is one of the log's; what was pushed before it is  *)
(* older, and it has been pushed itself once the code is past the push.      *)
PostKnown ==
    /\ Len(log) <= MaxEvents
    /\ \A i \in 1..Len(pushed) : pushed[i] \in 1..Len(log)
    /\ Increasing(pushed)
    /\ post.stage # "idle" => post.id \in 1..Len(log)
    /\ post.stage = "published" => \A i \in 1..Len(pushed) : pushed[i] < post.id
    /\ post.stage \in {"pushed", "trimmed"} => \E i \in 1..Len(pushed) : pushed[i] = post.id
    /\ post.stage = "trimmed" => log[post.id] = "ended"

ListInv == PostKnown /\ ReplayKeepsLast /\ CompletedIsReplayed

(* Publishing: the log grows by one event, newer than every other. *)
LEMMA ListPublish ==
    ASSUME TypeOK, ListInv, NEW k \in Kinds \union {"user"}, Publish(k),
           pushed' = pushed, replay' = replay, status' = status,
           \/ post' = post
           \/ post' = Idle
           \/ post = Idle /\ post' = [stage |-> "published", id |-> Len(log) + 1]
    PROVE  ListInv'
  <1>1. /\ Len(log) \in Nat /\ Len(log') = Len(log) + 1 /\ Len(log') <= MaxEvents
        /\ \A i \in 1..Len(log) : log'[i] = log[i]
    BY AppendType DEF TypeOK, Publish
  <1>2. PostKnown'
    <2>1. \A i \in 1..Len(pushed) : pushed[i] \in 1..Len(log)  BY DEF ListInv, PostKnown
    <2>2. Increasing(pushed)'  BY DEF ListInv, PostKnown, Increasing
    <2>3. CASE post' = post
      BY <1>1, <2>1, <2>2, <2>3 DEF ListInv, PostKnown
    <2>4. CASE post' = Idle
      BY <1>1, <2>1, <2>2, <2>4 DEF PostKnown, Idle
    <2>5. CASE post' = [stage |-> "published", id |-> Len(log) + 1]
      BY <1>1, <2>1, <2>2, <2>5 DEF PostKnown
    <2> QED  BY <2>3, <2>4, <2>5
  <1>3. ReplayKeepsLast'  BY DEF ListInv, ReplayKeepsLast
  <1>4. CompletedIsReplayed'
    BY <1>1 DEF ListInv, PostKnown, CompletedIsReplayed
  <1> QED  BY <1>2, <1>3, <1>4 DEF ListInv

(* A list that grows by a larger number stays increasing. *)
LEMMA IncreasingAppend ==
    ASSUME NEW s \in Seq(Nat), NEW n \in Nat, Increasing(s), \A i \in 1..Len(s) : s[i] < n
    PROVE  Increasing(Append(s, n))
  <1>1. /\ Len(s) \in Nat /\ Len(Append(s, n)) = Len(s) + 1 /\ Append(s, n)[Len(s) + 1] = n
        /\ \A i \in 1..Len(s) : Append(s, n)[i] = s[i]
    BY AppendType
  <1> SUFFICES ASSUME NEW i \in 1..(Len(s) + 1), NEW j \in 1..(Len(s) + 1), i < j
               PROVE  Append(s, n)[i] < Append(s, n)[j]
    BY <1>1 DEF Increasing
  <1>2. CASE j = Len(s) + 1  BY <1>1, <1>2
  <1>3. CASE j \in 1..Len(s)  BY <1>1, <1>3 DEF Increasing
  <1> QED  BY <1>1, <1>2, <1>3

(* The push: both lists grow by the event being posted. *)
LEMMA ListPush == TypeOK /\ ListInv /\ PushEvent => ListInv'
  <1> SUFFICES ASSUME TypeOK, ListInv, PushEvent PROVE ListInv'  OBVIOUS
  <1>0. post.id \in Nat  BY DEF TypeOK
  <1>1. /\ Len(pushed) \in Nat /\ Len(pushed') = Len(pushed) + 1
        /\ pushed'[Len(pushed) + 1] = post.id
        /\ \A i \in 1..Len(pushed) : pushed'[i] = pushed[i] /\ pushed[i] \in Nat
    BY <1>0, AppendType DEF TypeOK, PushEvent
  <1>2. /\ Len(replay) \in Nat /\ Len(replay') = Len(replay) + 1
        /\ replay'[Len(replay) + 1] = post.id
        /\ \A i \in 1..Len(replay) : replay'[i] = replay[i]
    BY <1>0, AppendType DEF TypeOK, PushEvent
  <1>3. /\ log' = log /\ status' = status
        /\ post'.stage = "pushed" /\ post'.id = post.id /\ post.stage = "published"
    BY DEF PushEvent, TypeOK
  <1>4. PostKnown'
    <2>1. Increasing(pushed)'
      <3>1. \A i \in 1..Len(pushed) : pushed[i] < post.id  BY <1>3 DEF ListInv, PostKnown
      <3>2. pushed \in Seq(Nat) /\ pushed' = Append(pushed, post.id)
        BY DEF TypeOK, PushEvent
      <3>3. Increasing(pushed)  BY DEF ListInv, PostKnown
      <3>4. Increasing(Append(pushed, post.id))  BY <1>0, <3>1, <3>2, <3>3, IncreasingAppend
      <3> QED  BY <3>2, <3>4 DEF Increasing
    <2>2. post.id \in 1..Len(log) /\ Len(log) <= MaxEvents
          /\ \A i \in 1..Len(pushed) : pushed[i] \in 1..Len(log)
      BY <1>3 DEF ListInv, PostKnown
    <2>3. \A i \in 1..Len(pushed') : pushed'[i] \in 1..Len(log)
      BY <1>1, <2>2
    <2>4. Len(pushed) + 1 \in 1..Len(pushed')  BY <1>1
    <2> QED  BY <1>1, <1>3, <2>1, <2>2, <2>3, <2>4 DEF PostKnown
  <1>5. ReplayKeepsLast'
    <2>1. ASSUME NEW i \in 1..Len(replay')
          PROVE  replay'[i] = pushed'[Len(pushed') - Len(replay') + i]
      <3>1. CASE i = Len(replay) + 1  BY <1>1, <1>2, <3>1
      <3>2. CASE i \in 1..Len(replay)
        <4>1. replay[i] = pushed[Len(pushed) - Len(replay) + i]
          BY <3>2 DEF ListInv, ReplayKeepsLast
        <4>2. Len(pushed) - Len(replay) + i \in 1..Len(pushed)
          BY <3>2, <1>1, <1>2 DEF ListInv, ReplayKeepsLast
        <4> QED  BY <4>1, <4>2, <3>2, <1>1, <1>2
      <3> QED  BY <3>1, <3>2, <1>2
    <2> QED  BY <2>1, <1>1, <1>2 DEF ListInv, ReplayKeepsLast
  <1>6. CompletedIsReplayed'
    BY <1>1, <1>3 DEF ListInv, PostKnown, CompletedIsReplayed
  <1> QED  BY <1>4, <1>5, <1>6 DEF ListInv

(* The trim: the list stays the end of what was pushed. *)
LEMMA ListTrim == TypeOK /\ ListInv /\ TrimReplay => ListInv'
  <1> SUFFICES ASSUME TypeOK, ListInv, TrimReplay PROVE ListInv'  OBVIOUS
  <1>0. log' = log /\ pushed' = pushed /\ status' = status /\ replay' = KeepLast(replay)
    BY DEF TrimReplay
  <1>1. PostKnown'
    BY <1>0 DEF TrimReplay, ListInv, PostKnown, TypeOK, Idle, Increasing
  <1>2. ReplayKeepsLast'
    <2>0. replay \in Seq(Nat) /\ Len(replay) \in Nat /\ Len(pushed) \in Nat  BY DEF TypeOK
    <2>1. /\ Len(replay') = IF Len(replay) <= ReplaySize THEN Len(replay) ELSE ReplaySize
          /\ \A i \in 1..Len(replay') : replay'[i] = replay[Len(replay) - Len(replay') + i]
      BY <1>0, <2>0, KeepLastType
    <2>2. ASSUME NEW i \in 1..Len(replay')
          PROVE  replay'[i] = pushed[Len(pushed) - Len(replay') + i]
      <3> DEFINE j == Len(replay) - Len(replay') + i
      <3>1. j \in 1..Len(replay)  BY <2>0, <2>1
      <3>2. replay[j] = pushed[Len(pushed) - Len(replay) + j]
        BY <3>1 DEF ListInv, ReplayKeepsLast
      <3>3. Len(pushed) - Len(replay) + j = Len(pushed) - Len(replay') + i  BY <2>0, <2>1
      <3> QED  BY <2>1, <3>2, <3>3
    <2>3. Len(replay) <= Len(pushed) /\ (Len(replay) >= ReplaySize \/ Len(replay) = Len(pushed))
      BY DEF ListInv, ReplayKeepsLast
    <2>4. /\ Len(replay') <= Len(pushed)
          /\ Len(replay') >= ReplaySize \/ Len(replay') = Len(pushed)
      BY <2>0, <2>1, <2>3
    <2> QED  BY <1>0, <2>2, <2>4 DEF ReplayKeepsLast
  <1>3. CompletedIsReplayed'  BY <1>0 DEF ListInv, CompletedIsReplayed
  <1> QED  BY <1>1, <1>2, <1>3 DEF ListInv

(* A step that leaves the log, the lists and the row alone, and is past the *)
(* post or does not touch it.                                               *)
LEMMA ListKept ==
    ASSUME ListInv, log' = log, replay' = replay, pushed' = pushed, status' = status,
           post' = post \/ post' = Idle
    PROVE  ListInv'
  <1>1. PostKnown'  BY DEF ListInv, PostKnown, Idle, Increasing
  <1> QED  BY <1>1 DEF ListInv, ReplayKeepsLast, CompletedIsReplayed

(* Every step keeps what is said of the lists. *)
LEMMA ListStep == TypeOK /\ ListInv /\ [Next]_vars => ListInv'
  <1> SUFFICES ASSUME TypeOK, ListInv, [Next]_vars PROVE ListInv'  OBVIOUS
  <1>1. ASSUME NEW k \in Kinds, Event(k) PROVE ListInv'
    BY <1>1, ListPublish DEF Event
  <1>2. CASE PushEvent  BY <1>2, ListPush
  <1>3. CASE TrimReplay  BY <1>3, ListTrim
  <1>4. CASE CompleteSession
    <2>1. PostKnown'
      BY <1>4 DEF CompleteSession, ListInv, PostKnown, Idle, Increasing
    <2>2. CompletedIsReplayed'
      BY <1>4 DEF CompleteSession, ListInv, PostKnown, CompletedIsReplayed
    <2> QED  BY <1>4, <2>1, <2>2 DEF CompleteSession, ListInv, ReplayKeepsLast
  <1>5. CASE FailPost  BY <1>5, ListKept DEF FailPost
  <1>6. CASE PublishInput  BY <1>6, ListPublish DEF PublishInput
  <1>7. ASSUME NEW b \in Browsers,
               OpenStream(b) \/ ReadReplay(b) \/ Subscribe(b) \/ FailStream(b) \/ Disconnect(b)
        PROVE  ListInv'
    BY <1>7, ListKept DEF OpenStream, ReadReplay, Subscribe, FailStream, Disconnect
  <1>8. CASE UNCHANGED vars  BY <1>8, ListKept DEF vars
  <1> QED  BY <1>1, <1>2, <1>3, <1>4, <1>5, <1>6, <1>7, <1>8 DEF Next

(* The lists are empty at first. *)
LEMMA ListInit == Init => ListInv
  BY DEF Init, ListInv, PostKnown, ReplayKeepsLast, CompletedIsReplayed, Idle, Increasing

(* For any list size and any failures between the push and the trim, the    *)
(* replay list is the end of what was pushed, and nothing short of its size *)
(* is missing from it.                                                      *)
THEOREM ReplayHoldsTheLast == Spec => []ReplayKeepsLast
  <1>1. ListInv => ReplayKeepsLast  BY DEF ListInv
  <1> QED  BY <1>1, TypeCorrect, ListInit, ListStep, PTL DEF Spec

(* A session marked completed has pushed its end, for any interleaving.     *)
THEOREM CompletedWasPushed == Spec => []CompletedIsReplayed
  <1>1. ListInv => CompletedIsReplayed  BY DEF ListInv
  <1> QED  BY <1>1, TypeCorrect, ListInit, ListStep, PTL DEF Spec

-------------------------------------------------------------------------------
(* The order of one connection *)

(* What a response holds is older than the next event to be published, or   *)
(* is the last frame of a response that has ended; before the list is       *)
(* written it is the head alone.                                            *)
StreamInv ==
    \A b \in Browsers :
        /\ Increasing(sent[b])
        /\ conn[b] # "closed" => \A i \in 1..Len(sent[b]) : sent[b][i] \in 0..Len(log)
        /\ conn[b] = "open" => sent[b] = <<0>>

(* The replay list is increasing, and of events of the log. *)
LEMMA ReplayIncreasing ==
    ASSUME TypeOK, ListInv
    PROVE  Increasing(replay) /\ \A i \in 1..Len(replay) : replay[i] \in 1..Len(log)
  <1> DEFINE off == Len(pushed) - Len(replay)
  <1>1. /\ Len(replay) \in Nat /\ Len(pushed) \in Nat /\ off \in Nat
        /\ \A i \in 1..Len(replay) : replay[i] = pushed[off + i]
    BY DEF TypeOK, ListInv, ReplayKeepsLast
  <1>2. \A i \in 1..Len(replay) : off + i \in 1..Len(pushed)  BY <1>1
  <1>3. Increasing(replay)
    <2> SUFFICES ASSUME NEW i \in 1..Len(replay), NEW j \in 1..Len(replay), i < j
                 PROVE  replay[i] < replay[j]
      BY DEF Increasing
    <2>1. off + i < off + j  BY <1>1
    <2> HIDE DEF off
    <2>2. pushed[off + i] < pushed[off + j]
      BY <1>2, <2>1 DEF ListInv, PostKnown, Increasing
    <2> QED  BY <1>1, <2>2
  <1> HIDE DEF off
  <1> QED  BY <1>1, <1>2, <1>3 DEF ListInv, PostKnown

(* Publishing writes to live responses an event newer than all they hold. *)
LEMMA StreamPublish ==
    ASSUME TypeOK, StreamInv, NEW k \in Kinds \union {"user"}, Publish(k), conn' = conn
    PROVE  StreamInv'
  <1>1. Len(log) \in Nat /\ Len(log') = Len(log) + 1  BY AppendType DEF TypeOK, Publish
  <1> SUFFICES ASSUME NEW b \in Browsers
               PROVE  /\ Increasing(sent'[b])
                      /\ conn[b] # "closed" =>
                            \A i \in 1..Len(sent'[b]) : sent'[b][i] \in 0..Len(log')
                      /\ conn[b] = "open" => sent'[b] = <<0>>
    BY DEF StreamInv
  <1>2. sent[b] \in Seq(Nat) /\ Increasing(sent[b])  BY DEF TypeOK, StreamInv
  <1>3. CASE conn[b] = "live"
    <2>1. sent'[b] = Append(sent[b], Len(log) + 1)  BY <1>3 DEF Publish, TypeOK
    <2>2. \A i \in 1..Len(sent[b]) : sent[b][i] \in 0..Len(log)  BY <1>3 DEF StreamInv
    <2>3. Increasing(sent'[b])
      <3>1. Len(log) + 1 \in Nat /\ \A i \in 1..Len(sent[b]) : sent[b][i] < Len(log) + 1
        BY <1>1, <2>2
      <3>2. Increasing(Append(sent[b], Len(log) + 1))
        BY <1>2, <3>1, IncreasingAppend
      <3> QED  BY <2>1, <3>2
    <2>4. /\ Len(sent'[b]) = Len(sent[b]) + 1 /\ Len(sent[b]) \in Nat
          /\ sent'[b][Len(sent[b]) + 1] = Len(log) + 1
          /\ \A i \in 1..Len(sent[b]) : sent'[b][i] = sent[b][i]
      BY <1>1, <1>2, <2>1, AppendType
    <2> QED  BY <1>1, <1>3, <2>2, <2>3, <2>4
  <1>4. CASE conn[b] # "live"
    <2>1. sent'[b] = sent[b]  BY <1>4 DEF Publish, TypeOK
    <2> QED  BY <1>1, <1>2, <2>1 DEF StreamInv
  <1> QED  BY <1>3, <1>4

(* The list is written after the head: in order, and of published events. *)
LEMMA StreamRead ==
    ASSUME TypeOK, ListInv, StreamInv, NEW b \in Browsers, ReadReplay(b)
    PROVE  StreamInv'
  <1>1. sent[b] = <<0>> /\ replay \in Seq(Nat) /\ Len(replay) \in Nat /\ Len(log) \in Nat
    BY DEF TypeOK, ReadReplay, StreamInv
  <1>2. /\ Len(<<0>> \o replay) = Len(replay) + 1
        /\ \A i \in 1..(Len(replay) + 1) :
              (<<0>> \o replay)[i] = IF i = 1 THEN 0 ELSE replay[i - 1]
    BY <1>1
  <1>3. Increasing(<<0>> \o replay)
    <2> SUFFICES ASSUME NEW i \in 1..(Len(replay) + 1), NEW j \in 1..(Len(replay) + 1), i < j
                 PROVE  (<<0>> \o replay)[i] < (<<0>> \o replay)[j]
      BY <1>2 DEF Increasing
    <2>1. j - 1 \in 1..Len(replay) /\ (<<0>> \o replay)[j] = replay[j - 1]
      BY <1>1, <1>2
    <2>2. CASE i = 1  BY <1>1, <1>2, <2>1, <2>2, ReplayIncreasing
    <2>3. CASE i # 1
      <3>1. i - 1 \in 1..Len(replay) /\ i - 1 < j - 1 /\ (<<0>> \o replay)[i] = replay[i - 1]
        BY <1>1, <1>2, <2>3
      <3> QED  BY <2>1, <3>1, ReplayIncreasing DEF Increasing
    <2> QED  BY <2>2, <2>3
  <1>4. \A i \in 1..Len(<<0>> \o replay) : (<<0>> \o replay)[i] \in 0..Len(log)
    <2> SUFFICES ASSUME NEW i \in 1..(Len(replay) + 1)
                 PROVE  (<<0>> \o replay)[i] \in 0..Len(log)
      BY <1>2
    <2>1. CASE i = 1  BY <1>1, <1>2, <2>1
    <2>2. CASE i # 1
      <3>1. i - 1 \in 1..Len(replay) /\ (<<0>> \o replay)[i] = replay[i - 1]
        BY <1>1, <1>2, <2>2
      <3> QED  BY <1>1, <3>1, ReplayIncreasing
    <2> QED  BY <2>1, <2>2
  <1>5. sent' = [sent EXCEPT ![b] = <<0>> \o replay] /\ conn' = [conn EXCEPT ![b] = "replayed"]
        /\ log' = log
    BY <1>1 DEF ReadReplay, TypeOK
  <1>6. sent'[b] = <<0>> \o replay /\ conn'[b] = "replayed"  BY <1>5 DEF TypeOK
  <1>7. \A c \in Browsers \ {b} : sent'[c] = sent[c] /\ conn'[c] = conn[c]
    BY <1>5 DEF TypeOK
  <1> SUFFICES ASSUME NEW c \in Browsers
               PROVE  /\ Increasing(sent'[c])
                      /\ conn'[c] # "closed" =>
                            \A i \in 1..Len(sent'[c]) : sent'[c][i] \in 0..Len(log)
                      /\ conn'[c] = "open" => sent'[c] = <<0>>
    BY <1>5 DEF StreamInv
  <1>8. CASE c = b  BY <1>3, <1>4, <1>6, <1>8
  <1>9. CASE c # b  BY <1>7, <1>9 DEF StreamInv
  <1> QED  BY <1>8, <1>9

(* The error frame is the last of its response, above every event. *)
LEMMA StreamFail ==
    ASSUME TypeOK, ListInv, StreamInv, NEW b \in Browsers, FailStream(b)
    PROVE  StreamInv'
  <1>0. sent[b] \in Seq(Nat) /\ Len(log) \in Nat /\ Len(log) <= MaxEvents
    BY DEF TypeOK, ListInv, PostKnown
  <1>1. ErrorFrame \in Nat /\ Len(log) < ErrorFrame  BY <1>0 DEF ErrorFrame
  <1>2. Increasing(Append(sent[b], ErrorFrame))
    <2>1. Increasing(sent[b]) /\ \A i \in 1..Len(sent[b]) : sent[b][i] \in 0..Len(log)
      BY DEF StreamInv, FailStream
    <2>2. \A i \in 1..Len(sent[b]) : sent[b][i] < ErrorFrame  BY <1>0, <1>1, <2>1
    <2> QED  BY <1>0, <1>1, <2>1, <2>2, IncreasingAppend
  <1>3. sent'[b] = Append(sent[b], ErrorFrame) /\ conn'[b] = "closed"
    BY DEF FailStream, TypeOK
  <1>4. \A c \in Browsers \ {b} : sent'[c] = sent[c] /\ conn'[c] = conn[c]
    BY DEF FailStream, TypeOK
  <1>5. log' = log  BY DEF FailStream
  <1> QED  BY <1>2, <1>3, <1>4, <1>5 DEF StreamInv

(* Every step keeps what is said of the responses. *)
LEMMA StreamStep == TypeOK /\ ListInv /\ StreamInv /\ [Next]_vars => StreamInv'
  <1> SUFFICES ASSUME TypeOK, ListInv, StreamInv, [Next]_vars PROVE StreamInv'  OBVIOUS
  <1>1. ASSUME NEW k \in Kinds, Event(k) PROVE StreamInv'
    BY <1>1, StreamPublish DEF Event
  <1>2. CASE PushEvent \/ TrimReplay \/ CompleteSession \/ FailPost \/ UNCHANGED vars
    BY <1>2 DEF PushEvent, TrimReplay, CompleteSession, FailPost, vars, streams, StreamInv
  <1>3. CASE PublishInput  BY <1>3, StreamPublish DEF PublishInput
  <1>4. ASSUME NEW b \in Browsers, OpenStream(b) PROVE StreamInv'
    <2>1. sent'[b] = <<0>> /\ conn'[b] = "open" /\ log' = log /\ Len(log) \in Nat
      BY <1>4 DEF OpenStream, TypeOK
    <2>2. \A c \in Browsers \ {b} : sent'[c] = sent[c] /\ conn'[c] = conn[c]
      BY <1>4 DEF OpenStream, TypeOK
    <2>3. Increasing(<<0>>) /\ \A i \in 1..Len(<<0>>) : <<0>>[i] \in 0..Len(log)
      BY <2>1 DEF Increasing
    <2> QED  BY <2>1, <2>2, <2>3 DEF StreamInv
  <1>5. ASSUME NEW b \in Browsers, ReadReplay(b) PROVE StreamInv'  BY <1>5, StreamRead
  <1>6. ASSUME NEW b \in Browsers, Subscribe(b) PROVE StreamInv'
    BY <1>6 DEF Subscribe, StreamInv, TypeOK
  <1>7. ASSUME NEW b \in Browsers, FailStream(b) PROVE StreamInv'  BY <1>7, StreamFail
  <1>8. ASSUME NEW b \in Browsers, Disconnect(b) PROVE StreamInv'
    <2>1. sent'[b] = <<>> /\ conn'[b] = "off" /\ log' = log
      BY <1>8 DEF Disconnect, TypeOK
    <2>2. \A c \in Browsers \ {b} : sent'[c] = sent[c] /\ conn'[c] = conn[c]
      BY <1>8 DEF Disconnect, TypeOK
    <2>3. Increasing(<<>>)  BY DEF Increasing
    <2> QED  BY <2>1, <2>2, <2>3 DEF StreamInv
  <1> QED  BY <1>1, <1>2, <1>3, <1>4, <1>5, <1>6, <1>7, <1>8 DEF Next

(* For any number of browsers and events, and however a browser's reading   *)
(* and subscribing fall between publishing and pushing, one connection      *)
(* delivers events in their order and each at most once.                    *)
THEOREM OneConnectionInOrder == Spec => []DeliveredInOrder
  <1>1. Init => StreamInv  BY DEF Init, StreamInv, Increasing
  <1>2. StreamInv => DeliveredInOrder  BY DEF StreamInv, DeliveredInOrder
  <1> QED  BY <1>1, <1>2, TypeCorrect, ListInit, ListStep, StreamStep, PTL DEF Spec

-------------------------------------------------------------------------------
(* The browser's feed *)

Message == [id : Nat, text : Seq(Nat), tools : Seq(Nat)]

FeedTypeOK ==
    /\ published \in Seq(Shapes)
    /\ handled \in Seq(Nat)
    /\ feed \in Seq(Message)
    /\ cur \in Message \union {None}
    /\ lag \in Message \union {None}
    /\ made \in Nat

(* Ids name one message, and are not used before they are made.              *)
IdsUnique ==
    /\ \A k \in 1..Len(feed) : feed[k].id <= made
    /\ \A k, l \in 1..Len(feed) : feed[k].id = feed[l].id => k = l
    /\ lag # None => lag.id <= made
    /\ cur # None => cur.id <= made

(* m is what became of n: each section has grown at its end. *)
Grown(n, m) == IsPrefix(n.text, m.text) /\ IsPrefix(n.tools, m.tools)

(* The message a frame will replace, and the one being built, hold at least  *)
(* what is shown under their id; the one being built is the longest.         *)
Covers(m) == \A k \in 1..Len(feed) : feed[k].id = m.id => Grown(feed[k], m)

UpdatesCover ==
    /\ lag # None => Covers(lag)
    /\ cur # None => Covers(cur)
    /\ (lag # None /\ cur # None) => (lag.id = cur.id => Grown(lag, cur))

ShownInv == FeedTypeOK /\ IdsUnique /\ UpdatesCover

LEMMA PrefixReflexive == \A s \in Seq(Nat) : IsPrefix(s, s)
  BY DEF IsPrefix

LEMMA PrefixTransitive ==
    ASSUME NEW s \in Seq(Nat), NEW t \in Seq(Nat), NEW u \in Seq(Nat),
           IsPrefix(s, t), IsPrefix(t, u)
    PROVE  IsPrefix(s, u)
  <1>1. /\ Len(s) \in Nat /\ Len(t) \in Nat /\ Len(u) \in Nat
        /\ Len(s) <= Len(t) /\ Len(t) <= Len(u)
    BY DEF IsPrefix
  <1>2. \A i \in 1..Len(s) : s[i] = t[i]
    BY <1>1 DEF IsPrefix
  <1>3. \A i \in 1..Len(t) : t[i] = u[i]
    BY <1>1 DEF IsPrefix
  <1> QED  BY <1>1, <1>2, <1>3 DEF IsPrefix

LEMMA PrefixConcat ==
    ASSUME NEW s \in Seq(Nat), NEW t \in Seq(Nat)
    PROVE  IsPrefix(s, s \o t) /\ s \o t \in Seq(Nat)
  BY DEF IsPrefix

LEMMA GrownReflexive == \A m \in Message : Grown(m, m)
  BY PrefixReflexive DEF Message, Grown

LEMMA GrownTransitive ==
    ASSUME NEW l \in Message, NEW m \in Message, NEW n \in Message, Grown(l, m), Grown(m, n)
    PROVE  Grown(l, n)
  BY PrefixTransitive DEF Message, Grown

(* What an event adds to a section. *)
LEMMA OnlyType ==
    ASSUME NEW i \in Nat, NEW kinds
    PROVE  Only(i, kinds) \in Seq(Nat)
  BY DEF Only

LEMMA NewTurnType ==
    ASSUME made \in Nat, NEW i \in Nat
    PROVE  NewTurn(i) \in Message /\ NewTurn(i).id = made + 1
  BY OnlyType DEF NewTurn, Message

(* What ShownStays says of one step. *)
Keeps ==
    loading' = loading =>
        \A k \in 1..Len(feed) : /\ k <= Len(feed')
                                /\ feed'[k].id = feed[k].id
                                /\ Grown(feed[k], feed'[k])

LEMMA FeedElements ==
    ASSUME FeedTypeOK
    PROVE  /\ Len(feed) \in Nat
           /\ \A k \in 1..Len(feed) : feed[k] \in Message /\ feed[k].id \in Nat
           /\ lag # None => lag \in Message /\ lag.id \in Nat
           /\ cur # None => cur \in Message /\ cur.id \in Nat
  <1>1. Len(feed) \in Nat /\ \A k \in 1..Len(feed) : feed[k] \in Message
    BY DEF FeedTypeOK
  <1>2. \A m \in Message : m.id \in Nat
    BY DEF Message
  <1> QED  BY <1>1, <1>2 DEF FeedTypeOK

(* A step that leaves the shown messages as they are. *)
LEMMA UntouchedKeeps ==
    ASSUME FeedTypeOK, feed' = feed
    PROVE  Keeps
  BY FeedElements, GrownReflexive DEF Keeps

(* A new message has an id of its own. *)
LEMMA PushStep ==
    ASSUME ShownInv, NEW m \in Message, m.id = made + 1, PushMessage(m), lag' = lag,
           cur' = None \/ cur' = m
    PROVE  IdsUnique' /\ UpdatesCover' /\ Keeps /\ feed' \in Seq(Message) /\ made' \in Nat
  <1> USE DEF ShownInv
  <1>1. made \in Nat /\ made' = made + 1 /\ feed' = Append(feed, m)
    BY DEF PushMessage, FeedTypeOK
  <1>2. m \in Message /\ m.id = made + 1
    OBVIOUS
  <1>4. /\ Len(feed) \in Nat /\ Len(feed') = Len(feed) + 1 /\ feed' \in Seq(Message)
        /\ feed'[Len(feed) + 1] = m
        /\ \A k \in 1..Len(feed) : feed'[k] = feed[k]
    BY <1>1, <1>2, AppendType DEF FeedTypeOK
  <1>5. \A k \in 1..Len(feed') : k \in 1..Len(feed) \/ k = Len(feed) + 1
    BY <1>4
  <1>6. \A k \in 1..Len(feed) : feed[k].id \in Nat /\ feed[k].id <= made
    BY FeedElements DEF IdsUnique
  <1>7. \A k \in 1..Len(feed') :
            \/ k \in 1..Len(feed) /\ feed'[k].id = feed[k].id /\ feed'[k].id < made + 1
            \/ k = Len(feed) + 1 /\ feed'[k].id = made + 1
    BY <1>1, <1>2, <1>4, <1>5, <1>6
  <1>8. lag # None => lag.id \in Nat /\ lag.id <= made
    BY FeedElements DEF IdsUnique
  <1>9. cur' # None => cur' = m
    OBVIOUS
  <1>10. IdsUnique'
    <2>1. \A k \in 1..Len(feed') : feed'[k].id <= made'
      BY <1>1, <1>6, <1>7
    <2>2. \A k, l \in 1..Len(feed') : feed'[k].id = feed'[l].id => k = l
      BY <1>1, <1>6, <1>7 DEF IdsUnique
    <2>3. (lag' # None => lag'.id <= made') /\ (cur' # None => cur'.id <= made')
      BY <1>1, <1>2, <1>8, <1>9
    <2> QED  BY <2>1, <2>2, <2>3 DEF IdsUnique
  <1>11. UpdatesCover'
    <2>1. lag # None => Covers(lag)'
      <3> SUFFICES ASSUME lag # None, NEW k \in 1..Len(feed'), feed'[k].id = lag.id
                   PROVE  Grown(feed'[k], lag)
        BY DEF Covers
      <3>1. k \in 1..Len(feed)
        BY <1>1, <1>7, <1>8
      <3> QED  BY <1>4, <3>1 DEF UpdatesCover, Covers
    <2>2. cur' # None => Covers(cur)'
      <3> SUFFICES ASSUME cur' # None, NEW k \in 1..Len(feed'), feed'[k].id = cur'.id
                   PROVE  Grown(feed'[k], cur')
        BY DEF Covers
      <3>1. k = Len(feed) + 1
        BY <1>1, <1>2, <1>7, <1>9
      <3>2. feed'[k] = cur'
        BY <1>4, <1>9, <3>1
      <3> QED  BY <1>2, <1>9, <3>2, GrownReflexive
    <2>3. (lag' # None /\ cur' # None) => lag'.id # cur'.id
      BY <1>1, <1>2, <1>8, <1>9
    <2> QED  BY <2>1, <2>2, <2>3 DEF UpdatesCover
  <1>12. Keeps
    <2>1. \A k \in 1..Len(feed) : k <= Len(feed') /\ Grown(feed[k], feed'[k])
      BY <1>4, FeedElements, GrownReflexive
    <2> QED  BY <1>4, <2>1 DEF Keeps
  <1> QED  BY <1>1, <1>4, <1>10, <1>11, <1>12

(* The message being built grows at its end. *)
LEMMA ExtendStep ==
    ASSUME ShownInv, NEW i \in Nat, cur # None, cur' = Extended(i), lag' = Extended(i),
           UNCHANGED <<feed, made>>
    PROVE  IdsUnique' /\ UpdatesCover' /\ Keeps /\ cur' \in Message
  <1> USE DEF ShownInv
  <1>1. cur \in Message /\ cur.id \in Nat /\ cur.text \in Seq(Nat) /\ cur.tools \in Seq(Nat)
    BY FeedElements DEF Message
  <1>2. /\ cur' = [cur EXCEPT !.text = @ \o Only(i, Texts), !.tools = @ \o Only(i, Tools)]
        /\ lag' = cur'
    BY DEF Extended
  <1>3. /\ cur.text \o Only(i, Texts) \in Seq(Nat) /\ IsPrefix(cur.text, cur.text \o Only(i, Texts))
        /\ cur.tools \o Only(i, Tools) \in Seq(Nat)
        /\ IsPrefix(cur.tools, cur.tools \o Only(i, Tools))
    BY <1>1, OnlyType, PrefixConcat
  <1>4. /\ cur' \in Message /\ cur'.id = cur.id
        /\ cur'.text = cur.text \o Only(i, Texts) /\ cur'.tools = cur.tools \o Only(i, Tools)
    BY <1>1, <1>2, <1>3 DEF Message
  <1>5. Grown(cur, cur')
    BY <1>3, <1>4 DEF Grown
  <1>6. Covers(cur)'
    <2> SUFFICES ASSUME NEW k \in 1..Len(feed), feed[k].id = cur.id
                 PROVE  Grown(feed[k], cur')
      BY <1>4 DEF Covers
    <2>1. feed[k] \in Message /\ Grown(feed[k], cur)
      BY FeedElements DEF UpdatesCover, Covers
    <2> QED  BY <1>1, <1>4, <1>5, <2>1, GrownTransitive
  <1>7. Covers(lag)'
    BY <1>2, <1>6 DEF Covers
  <1>8. Grown(lag', cur')
    BY <1>2, <1>4, GrownReflexive
  <1>9. UpdatesCover'
    BY <1>6, <1>7, <1>8 DEF UpdatesCover
  <1>10. IdsUnique'
    BY <1>2, <1>4 DEF IdsUnique
  <1>11. Keeps
    BY UntouchedKeeps
  <1> QED  BY <1>4, <1>9, <1>10, <1>11

(* A frame replaces the one message that has the update's id. *)
LEMMA FrameStep ==
    ASSUME ShownInv, AnimationFrame
    PROVE  ShownInv' /\ Keeps
  <1> USE DEF ShownInv
  <1>1. /\ lag # None /\ lag' = None /\ UNCHANGED <<published, handled, cur, made>>
        /\ feed' = [k \in DOMAIN feed |-> IF feed[k].id = lag.id THEN lag ELSE feed[k]]
    BY DEF AnimationFrame, ReplaceById
  <1>2. /\ Len(feed) \in Nat /\ DOMAIN feed = 1..Len(feed)
        /\ lag \in Message /\ lag.id \in Nat
        /\ \A k \in 1..Len(feed) : feed[k] \in Message
    BY <1>1, FeedElements DEF FeedTypeOK
  <1>3. /\ feed' \in Seq(Message) /\ Len(feed') = Len(feed)
        /\ \A k \in 1..Len(feed) : feed'[k] = IF feed[k].id = lag.id THEN lag ELSE feed[k]
    BY <1>1, <1>2
  <1>4. \A k \in 1..Len(feed) : feed'[k].id = feed[k].id
    BY <1>3
  <1>5. FeedTypeOK'
    BY <1>1, <1>3 DEF FeedTypeOK
  <1>6. IdsUnique'
    BY <1>1, <1>3, <1>4 DEF IdsUnique
  <1>7. UpdatesCover'
    <2> SUFFICES ASSUME cur # None, NEW k \in 1..Len(feed), feed[k].id = cur.id
                 PROVE  Grown(feed'[k], cur)
      BY <1>1, <1>3, <1>4 DEF UpdatesCover, Covers
    <2>1. CASE feed[k].id = lag.id
      BY <1>1, <1>3, <2>1 DEF UpdatesCover
    <2>2. CASE feed[k].id # lag.id
      BY <1>3, <2>2 DEF UpdatesCover, Covers
    <2> QED  BY <2>1, <2>2
  <1>8. ASSUME NEW k \in 1..Len(feed) PROVE Grown(feed[k], feed'[k])
    <2>1. CASE feed[k].id = lag.id
      BY <1>1, <1>3, <2>1 DEF UpdatesCover, Covers
    <2>2. CASE feed[k].id # lag.id
      BY <1>2, <1>3, <2>2, GrownReflexive
    <2> QED  BY <2>1, <2>2
  <1>9. Keeps
    BY <1>2, <1>3, <1>4, <1>8 DEF Keeps
  <1> QED  BY <1>5, <1>6, <1>7, <1>9

(* The history is one message with an id of its own. *)
LEMMA HistoryStep ==
    ASSUME ShownInv, LoadHistory
    PROVE  ShownInv' /\ Keeps
  <1> USE DEF ShownInv
  <1>1. loading' # loading /\ UNCHANGED <<published, handled, cur, lag>>
    BY DEF LoadHistory
  <1>2. Keeps
    BY <1>1 DEF Keeps
  <1>3. CASE UNCHANGED <<feed, made>>
    BY <1>1, <1>2, <1>3 DEF FeedTypeOK, IdsUnique, UpdatesCover, Covers
  <1>4. CASE /\ feed' = <<[id |-> made + 1, text |-> <<Len(published)>>, tools |-> <<>>]>>
             /\ made' = made + 1
    <2> DEFINE m == [id |-> made + 1, text |-> <<Len(published)>>, tools |-> <<>>]
    <2>1. made \in Nat /\ Len(published) \in Nat
      BY DEF FeedTypeOK
    <2>2. m \in Message /\ m.id = made + 1
      BY <2>1 DEF Message
    <2> HIDE DEF m
    <2>3. /\ feed' = <<m>> /\ Len(feed') = 1 /\ feed'[1] = m /\ feed' \in Seq(Message)
          /\ \A k \in 1..Len(feed') : k = 1
      BY <1>4, <2>2 DEF m
    <2>4. /\ lag # None => lag.id \in Nat /\ lag.id <= made
          /\ cur # None => cur.id \in Nat /\ cur.id <= made
      BY FeedElements DEF IdsUnique
    <2>5. FeedTypeOK'
      BY <1>1, <1>4, <2>1, <2>3 DEF FeedTypeOK
    <2>6. IdsUnique'
      BY <1>1, <1>4, <2>1, <2>2, <2>3, <2>4 DEF IdsUnique
    <2>7. (lag # None => Covers(lag)') /\ (cur # None => Covers(cur)')
      BY <1>1, <2>1, <2>2, <2>3, <2>4 DEF Covers
    <2>8. UpdatesCover'
      BY <1>1, <2>7 DEF UpdatesCover
    <2> QED  BY <1>2, <2>5, <2>6, <2>8
  <1> QED  BY <1>3, <1>4 DEF LoadHistory

LEMMA FeedInitShown == FeedInit => ShownInv
  BY DEF FeedInit, ShownInv, FeedTypeOK, IdsUnique, UpdatesCover, Covers

LEMMA ArrivesType ==
    ASSUME FeedTypeOK, NEW i \in 1..Len(published), NEW kinds, Arrives(i, kinds)
    PROVE  /\ i \in Nat /\ handled' \in Seq(Nat) /\ published' = published
           /\ handled' = Append(handled, i)
  BY DEF FeedTypeOK, Arrives

LEMMA FeedNextShown ==
    ASSUME ShownInv, [FeedNext]_feedVars
    PROVE  ShownInv' /\ Keeps
  <1> USE DEF ShownInv
  <1>1. ASSUME NEW k \in Shapes, EventPublished(k) PROVE ShownInv' /\ Keeps
    <2>1. UNCHANGED <<handled, feed, cur, lag, made>> /\ published' \in Seq(Shapes)
      BY <1>1, AppendType DEF EventPublished, FeedTypeOK
    <2> QED  BY <2>1, UntouchedKeeps DEF FeedTypeOK, IdsUnique, UpdatesCover, Covers
  <1>2. ASSUME NEW i \in 1..Len(published), StartTurn(i) \/ StandAlone(i)
        PROVE  ShownInv' /\ Keeps
    <2>1. i \in Nat /\ handled' \in Seq(Nat) /\ published' = published /\ lag' = lag
      BY <1>2, ArrivesType DEF StartTurn, StandAlone
    <2>2. made \in Nat
      BY DEF FeedTypeOK
    <2>3. PICK m \in Message : m.id = made + 1 /\ PushMessage(m) /\ (cur' = None \/ cur' = m)
      <3>1. CASE StartTurn(i)
        BY <2>1, <2>2, <3>1, NewTurnType DEF StartTurn
      <3>2. CASE StandAlone(i)
        <4> DEFINE m == [id |-> made + 1, text |-> <<i>>, tools |-> <<>>]
        <4>1. <<i>> \in Seq(Nat) /\ <<>> \in Seq(Nat) /\ made + 1 \in Nat
          BY <2>1, <2>2
        <4>2. m \in Message /\ m.id = made + 1
          BY <4>1 DEF Message
        <4>3. PushMessage(m) /\ cur' = None
          BY <3>2 DEF StandAlone, Flushed
        <4> QED  BY <4>2, <4>3
      <3> QED  BY <1>2, <3>1, <3>2
    <2>4. IdsUnique' /\ UpdatesCover' /\ Keeps /\ feed' \in Seq(Message) /\ made' \in Nat
      BY <2>1, <2>3, PushStep
    <2> QED  BY <2>1, <2>3, <2>4 DEF FeedTypeOK
  <1>3. ASSUME NEW i \in 1..Len(published), ExtendTurn(i) PROVE ShownInv' /\ Keeps
    <2>1. /\ i \in Nat /\ handled' \in Seq(Nat) /\ published' = published
          /\ cur # None /\ cur' = Extended(i) /\ lag' = Extended(i)
          /\ UNCHANGED <<feed, made>>
      BY <1>3, ArrivesType DEF ExtendTurn
    <2>2. IdsUnique' /\ UpdatesCover' /\ Keeps /\ cur' \in Message
      BY <2>1, ExtendStep
    <2> QED  BY <2>1, <2>2 DEF FeedTypeOK
  <1>4. ASSUME NEW i \in 1..Len(published), ShowNothing(i) PROVE ShownInv' /\ Keeps
    <2>1. UNCHANGED <<published, feed, cur, lag, made>> /\ handled' \in Seq(Nat)
      BY <1>4, ArrivesType DEF ShowNothing
    <2> QED  BY <2>1, UntouchedKeeps DEF FeedTypeOK, IdsUnique, UpdatesCover, Covers
  <1>5. ASSUME OnOpen PROVE ShownInv' /\ Keeps
    <2>1. /\ UNCHANGED <<published, feed, made>> /\ handled' = <<>>
          /\ cur' = None /\ lag' = None
      BY <1>5 DEF OnOpen
    <2> QED  BY <2>1, UntouchedKeeps DEF FeedTypeOK, IdsUnique, UpdatesCover, Covers
  <1>6. CASE UNCHANGED feedVars
    BY <1>6, UntouchedKeeps DEF feedVars, FeedTypeOK, IdsUnique, UpdatesCover, Covers
  <1> QED  BY <1>1, <1>2, <1>3, <1>4, <1>5, <1>6, FrameStep, HistoryStep DEF FeedNext

(* Late updates: for any events, connections and frames, what an animation   *)
(* frame applies extends the message it was made for, and every other        *)
(* message stays as it is (RelayChatSync).                                   *)
THEOREM ShownCorrect == FeedSpec => ShownStays
  <1>1. ShownInv /\ [FeedNext]_feedVars => ShownInv'
    BY FeedNextShown
  <1>2. ShownInv /\ [FeedNext]_feedVars =>
            [loading' = loading =>
                \A k \in 1..Len(feed) : /\ k <= Len(feed')
                                        /\ feed'[k].id = feed[k].id
                                        /\ IsPrefix(feed[k].text, feed'[k].text)
                                        /\ IsPrefix(feed[k].tools, feed'[k].tools)]_feedVars
    BY FeedNextShown DEF Keeps, Grown
  <1> QED  BY FeedInitShown, <1>1, <1>2, PTL DEF FeedSpec, ShownStays

-------------------------------------------------------------------------------
(* The turn being built *)

Opened == \E i \in SinceBoundary : published[i] \in Opening

(* Events are handled in the order of their numbers. *)
TurnInv ==
    /\ FeedTypeOK
    /\ InOrder(handled)
    /\ Range(handled) \subseteq 1..Len(published)
    /\ TurnIsWhole

LEMMA RangeAppend ==
    ASSUME NEW s \in Seq(Nat), NEW e \in Nat
    PROVE  Range(Append(s, e)) = Range(s) \union {e}
  <1>1. /\ Len(s) \in Nat /\ Len(Append(s, e)) = Len(s) + 1
        /\ DOMAIN s = 1..Len(s) /\ DOMAIN Append(s, e) = 1..(Len(s) + 1)
        /\ Append(s, e)[Len(s) + 1] = e
        /\ \A i \in 1..Len(s) : Append(s, e)[i] = s[i]
    OBVIOUS
  <1>2. \A i \in 1..(Len(s) + 1) : i \in 1..Len(s) \/ i = Len(s) + 1
    BY <1>1
  <1>3. \A i \in 1..Len(s) : i \in 1..(Len(s) + 1)
    BY <1>1
  <1>4. Len(s) + 1 \in 1..(Len(s) + 1)
    BY <1>1
  <1>5. \A x : x \in Range(Append(s, e)) => x \in Range(s) \union {e}
    BY <1>1, <1>2 DEF Range
  <1>6. \A x : x \in Range(s) \union {e} => x \in Range(Append(s, e))
    BY <1>1, <1>3, <1>4 DEF Range
  <1> QED  BY <1>5, <1>6

LEMMA RangeElements ==
    ASSUME NEW s \in Seq(Nat)
    PROVE  /\ \A k \in 1..Len(s) : s[k] \in Range(s)
           /\ Range(s) \subseteq Nat
           /\ \A x \in Range(s) : \E k \in 1..Len(s) : s[k] = x
  BY DEF Range

(* An event that arrives is above those before it. *)
LEMMA ArrivesLast ==
    ASSUME TurnInv, NEW i \in 1..Len(published), NEW kinds, Arrives(i, kinds)
    PROVE  /\ i \in Nat /\ published' = published /\ published[i] \in kinds
           /\ handled' \in Seq(Nat) /\ InOrder(handled')
           /\ Range(handled') = Range(handled) \union {i}
           /\ Range(handled') \subseteq 1..Len(published)
           /\ \A j \in Range(handled) : j \in Nat /\ j < i
  <1>1. i \in Nat /\ handled \in Seq(Nat) /\ Len(handled) \in Nat
    BY DEF TurnInv, FeedTypeOK
  <1>2. /\ handled' = Append(handled, i) /\ published' = published /\ published[i] \in kinds
        /\ \A k \in 1..Len(handled) : handled[k] < i
    BY DEF Arrives
  <1>3. /\ handled' \in Seq(Nat) /\ Len(handled') = Len(handled) + 1
        /\ handled'[Len(handled) + 1] = i
        /\ \A k \in 1..Len(handled) : handled'[k] = handled[k]
    BY <1>1, <1>2, AppendType
  <1>4. InOrder(handled')
    <2> SUFFICES ASSUME NEW k \in 1..Len(handled'), NEW l \in 1..Len(handled'), k < l
                 PROVE  handled'[k] < handled'[l]
      BY DEF InOrder
    <2>1. k \in 1..Len(handled) /\ (l \in 1..Len(handled) \/ l = Len(handled) + 1)
      BY <1>1, <1>3
    <2> QED  BY <1>2, <1>3, <2>1 DEF TurnInv, InOrder
  <1>5. \A j \in Range(handled) : j \in Nat /\ j < i
    BY <1>1, <1>2, RangeElements
  <1>6. Range(handled') = Range(handled) \union {i}
    BY <1>1, <1>2, RangeAppend
  <1> QED  BY <1>1, <1>2, <1>3, <1>4, <1>5, <1>6 DEF TurnInv

(* A boundary empties the turn; anything else joins it at its end. *)
LEMMA TurnJoins ==
    ASSUME TurnInv, NEW i \in 1..Len(published), NEW kinds, Arrives(i, kinds)
    PROVE  /\ published[i] \in Boundary => SinceBoundary' = {}
           /\ published[i] \notin Boundary =>
                 /\ Opened' <=> Opened \/ published[i] \in Opening
                 /\ TextsOfTurn' = TextsOfTurn \union {j \in {i} : published[i] \in Texts}
                 /\ ToolsOfTurn' = ToolsOfTurn \union
                       {j \in {i} : published[i] = "call" \/ (published[i] = "tool" /\ Opened)}
           /\ \A j \in TextsOfTurn \union ToolsOfTurn : j \in Nat /\ j < i
  <1>1. /\ published' = published /\ Range(handled') = Range(handled) \union {i}
        /\ \A j \in Range(handled) : j \in Nat /\ j < i
        /\ i \in Nat
    BY ArrivesLast
  <1>2. \A j \in SinceBoundary : j \in Range(handled) /\ j < i /\ j \in Nat /\ j # i
    BY <1>1 DEF SinceBoundary
  <1>3. ASSUME published[i] \in Boundary PROVE SinceBoundary' = {}
    <2> SUFFICES ASSUME NEW j \in Range(handled'), published[i] \in Boundary => i < j
                 PROVE  FALSE
      BY <1>1 DEF SinceBoundary
    <2> QED  BY <1>1, <1>3
  <1>4. ASSUME published[i] \notin Boundary
        PROVE  /\ Opened' <=> Opened \/ published[i] \in Opening
               /\ TextsOfTurn' = TextsOfTurn \union {j \in {i} : published[i] \in Texts}
               /\ ToolsOfTurn' = ToolsOfTurn \union
                     {j \in {i} : published[i] = "call" \/ (published[i] = "tool" /\ Opened)}
    <2>1. SinceBoundary' = SinceBoundary \union {i}
      BY <1>1, <1>4 DEF SinceBoundary
    <2>2. \A j \in SinceBoundary : OpenedBefore(j)' <=> OpenedBefore(j)
      BY <1>1, <1>2, <2>1 DEF OpenedBefore
    <2>3. OpenedBefore(i)' <=> Opened
      BY <1>1, <1>2, <2>1 DEF OpenedBefore, Opened
    <2>4. Opened' <=> Opened \/ published[i] \in Opening
      BY <1>1, <2>1 DEF Opened
    <2>5. TextsOfTurn' = TextsOfTurn \union {j \in {i} : published[i] \in Texts}
      BY <1>1, <2>1 DEF TextsOfTurn
    <2>6. \A j \in SinceBoundary : j \in ToolsOfTurn' <=> j \in ToolsOfTurn
      BY <1>1, <2>1, <2>2 DEF ToolsOfTurn
    <2>7. i \in ToolsOfTurn' <=> published[i] = "call" \/ (published[i] = "tool" /\ Opened)
      BY <1>1, <2>1, <2>3 DEF ToolsOfTurn
    <2>8. ToolsOfTurn \subseteq SinceBoundary /\ ToolsOfTurn' \subseteq SinceBoundary \union {i}
      BY <2>1 DEF ToolsOfTurn
    <2>9. ToolsOfTurn' = ToolsOfTurn \union
             {j \in {i} : published[i] = "call" \/ (published[i] = "tool" /\ Opened)}
      BY <1>2, <2>6, <2>7, <2>8
    <2> QED  BY <2>4, <2>5, <2>9
  <1>5. \A j \in TextsOfTurn \union ToolsOfTurn : j \in Nat /\ j < i
    BY <1>2 DEF TextsOfTurn, ToolsOfTurn
  <1> QED  BY <1>3, <1>4, <1>5

(* The turn of a step that handles nothing. *)
LEMMA TurnKept ==
    ASSUME TurnInv, UNCHANGED <<handled, cur>>, FeedTypeOK',
           Len(published) <= Len(published'),
           \A i \in 1..Len(published) : published'[i] = published[i]
    PROVE  TurnInv'
  <1>1. Len(published) \in Nat /\ Len(published') \in Nat
    BY DEF TurnInv, FeedTypeOK
  <1>2. Range(handled) \subseteq 1..Len(published) /\ Range(handled') = Range(handled)
    BY DEF TurnInv
  <1>3. \A j \in Range(handled) : published'[j] = published[j] /\ j \in 1..Len(published')
    BY <1>1, <1>2
  <1>4. SinceBoundary' = SinceBoundary
    BY <1>2, <1>3 DEF SinceBoundary
  <1>5. \A j \in SinceBoundary : published'[j] = published[j]
    BY <1>3 DEF SinceBoundary
  <1>6. (Opened' <=> Opened) /\ \A j : OpenedBefore(j)' <=> OpenedBefore(j)
    BY <1>4, <1>5 DEF Opened, OpenedBefore
  <1>7. TextsOfTurn' = TextsOfTurn /\ ToolsOfTurn' = ToolsOfTurn
    BY <1>4, <1>5, <1>6 DEF TextsOfTurn, ToolsOfTurn
  <1>8. TurnIsWhole'
    BY <1>6, <1>7 DEF TurnInv, TurnIsWhole, Opened
  <1> QED  BY <1>2, <1>3, <1>8 DEF TurnInv

(* A section takes an event of its kinds at its end, and no other. *)
LEMMA SectionGrows ==
    ASSUME NEW s \in Seq(Nat), InOrder(s), NEW i \in Nat, NEW kinds,
           \A x \in Range(s) : x < i
    PROVE  /\ Range(s \o Only(i, kinds)) = Range(s) \union {j \in {i} : published[i] \in kinds}
           /\ InOrder(s \o Only(i, kinds))
  <1>1. CASE published[i] \in kinds
    <2>1. s \o Only(i, kinds) = Append(s, i)
      BY <1>1 DEF Only
    <2>2. /\ Len(s) \in Nat /\ Len(Append(s, i)) = Len(s) + 1 /\ Append(s, i)[Len(s) + 1] = i
          /\ \A k \in 1..Len(s) : Append(s, i)[k] = s[k]
      BY AppendType
    <2>3. \A k \in 1..Len(s) : s[k] \in Nat /\ s[k] < i
      BY RangeElements
    <2>4. InOrder(Append(s, i))
      <3> SUFFICES ASSUME NEW k \in 1..Len(Append(s, i)), NEW l \in 1..Len(Append(s, i)), k < l
                   PROVE  Append(s, i)[k] < Append(s, i)[l]
        BY DEF InOrder
      <3>1. k \in 1..Len(s) /\ (l \in 1..Len(s) \/ l = Len(s) + 1)
        BY <2>2
      <3> QED  BY <2>2, <2>3, <3>1 DEF InOrder
    <2>5. {j \in {i} : published[i] \in kinds} = {i}
      BY <1>1
    <2> QED  BY <2>1, <2>4, <2>5, RangeAppend
  <1>2. CASE published[i] \notin kinds
    <2>1. s \o Only(i, kinds) = s
      BY <1>2 DEF Only
    <2>2. {j \in {i} : published[i] \in kinds} = {}
      BY <1>2
    <2> QED  BY <2>1, <2>2
  <1> QED  BY <1>1, <1>2

LEMMA EmptySection == InOrder(<<>>) /\ Range(<<>>) = {} /\ <<>> \in Seq(Nat)
  <1>1. Len(<<>>) = 0 /\ DOMAIN <<>> = {}
    OBVIOUS
  <1> QED  BY <1>1 DEF InOrder, Range

(* The content that joins the two sections when one event joins the turn. *)
LEMMA SectionsJoin ==
    ASSUME TurnInv, NEW i \in 1..Len(published), NEW kinds, Arrives(i, kinds),
           published[i] \notin Boundary, NEW m \in Message,
           Range(m.text) = TextsOfTurn, InOrder(m.text),
           Range(m.tools) = ToolsOfTurn, InOrder(m.tools),
           published[i] = "tool" => Opened
    PROVE  /\ Range(m.text \o Only(i, Texts)) = TextsOfTurn'
           /\ InOrder(m.text \o Only(i, Texts))
           /\ Range(m.tools \o Only(i, Tools)) = ToolsOfTurn'
           /\ InOrder(m.tools \o Only(i, Tools))
  <1>1. i \in Nat /\ m.text \in Seq(Nat) /\ m.tools \in Seq(Nat)
    BY ArrivesLast DEF Message
  <1>2. \A x \in TextsOfTurn \union ToolsOfTurn : x < i
    BY TurnJoins
  <1>3. TextsOfTurn' = TextsOfTurn \union {j \in {i} : published[i] \in Texts}
    BY TurnJoins
  <1>4. ToolsOfTurn' = ToolsOfTurn \union {j \in {i} : published[i] \in Tools}
    <2>1. published[i] \in Tools <=> published[i] = "call" \/ (published[i] = "tool" /\ Opened)
      BY DEF Tools
    <2> QED  BY <2>1, TurnJoins
  <1>5. /\ Range(m.text \o Only(i, Texts)) = Range(m.text) \union {j \in {i} : published[i] \in Texts}
        /\ InOrder(m.text \o Only(i, Texts))
    BY <1>1, <1>2, SectionGrows
  <1>6. /\ Range(m.tools \o Only(i, Tools)) = Range(m.tools) \union {j \in {i} : published[i] \in Tools}
        /\ InOrder(m.tools \o Only(i, Tools))
    BY <1>1, <1>2, SectionGrows
  <1> QED  BY <1>3, <1>4, <1>5, <1>6

LEMMA StartTurnStep ==
    ASSUME TurnInv, NEW i \in 1..Len(published), StartTurn(i), FeedTypeOK'
    PROVE  TurnInv'
  <1>1. /\ Arrives(i, Opening) /\ cur = None /\ cur' = NewTurn(i) /\ published[i] \in Opening
        /\ published[i] \notin Boundary /\ published[i] # "tool"
    BY DEF StartTurn, Arrives, Opening, Boundary
  <1>2. /\ i \in Nat /\ published' = published /\ InOrder(handled')
        /\ Range(handled') \subseteq 1..Len(published) /\ made \in Nat
    BY <1>1, ArrivesLast DEF TurnInv, FeedTypeOK
  <1>3. ~Opened
    BY <1>1 DEF TurnInv, TurnIsWhole, Opened
  <1>4. TextsOfTurn = {} /\ ToolsOfTurn = {}
    <2>1. \A j \in SinceBoundary : published[j] \notin Opening /\ ~OpenedBefore(j)
      BY <1>3 DEF Opened, OpenedBefore
    <2>2. Texts \subseteq Opening /\ "call" \in Opening
      BY DEF Texts, Opening
    <2> QED  BY <2>1, <2>2 DEF TextsOfTurn, ToolsOfTurn
  <1>5. Opened'
    BY <1>1, TurnJoins
  <1>6. cur' # None
    <2>1. cur' \in Message
      BY <1>1, <1>2, NewTurnType
    <2> QED  BY <2>1, NoneAssumption DEF Message
  <1>7. /\ Range(cur'.text) = TextsOfTurn' /\ InOrder(cur'.text)
        /\ Range(cur'.tools) = ToolsOfTurn' /\ InOrder(cur'.tools)
    <2> DEFINE m == [id |-> made, text |-> <<>>, tools |-> <<>>]
    <2>1. /\ m \in Message /\ m.text = <<>> /\ m.tools = <<>>
      BY <1>2, EmptySection DEF Message
    <2>2. cur'.text = m.text \o Only(i, Texts) /\ cur'.tools = m.tools \o Only(i, Tools)
      <3>1. Only(i, Texts) \in Seq(Nat) /\ Only(i, Tools) \in Seq(Nat)
        BY <1>2, OnlyType
      <3> QED  BY <1>1, <2>1, <3>1 DEF NewTurn
    <2> HIDE DEF m
    <2>3. /\ Range(m.text) = TextsOfTurn /\ InOrder(m.text)
          /\ Range(m.tools) = ToolsOfTurn /\ InOrder(m.tools)
      BY <1>4, <2>1, EmptySection
    <2> QED  BY <1>1, <2>1, <2>2, <2>3, SectionsJoin
  <1>8. TurnIsWhole'
    BY <1>5, <1>6, <1>7 DEF TurnIsWhole, Opened
  <1> QED  BY <1>2, <1>8 DEF TurnInv

LEMMA ExtendTurnStep ==
    ASSUME TurnInv, NEW i \in 1..Len(published), ExtendTurn(i), FeedTypeOK'
    PROVE  TurnInv'
  <1>1. /\ Arrives(i, Texts \union Tools) /\ cur # None /\ cur' = Extended(i)
        /\ published[i] \in Texts \union Tools /\ published[i] \notin Boundary
    BY DEF ExtendTurn, Arrives, Texts, Tools, Boundary
  <1>2. /\ i \in Nat /\ published' = published /\ InOrder(handled')
        /\ Range(handled') \subseteq 1..Len(published)
    BY <1>1, ArrivesLast
  <1>3. /\ Opened /\ cur \in Message
        /\ Range(cur.text) = TextsOfTurn /\ InOrder(cur.text)
        /\ Range(cur.tools) = ToolsOfTurn /\ InOrder(cur.tools)
    BY <1>1, FeedElements DEF TurnInv, TurnIsWhole, Opened
  <1>4. Opened'
    BY <1>1, <1>3, TurnJoins
  <1>5. /\ cur'.text = cur.text \o Only(i, Texts) /\ cur'.tools = cur.tools \o Only(i, Tools)
        /\ cur' # None
    <2>1. /\ cur.text \o Only(i, Texts) \in Seq(Nat) /\ cur.tools \o Only(i, Tools) \in Seq(Nat)
      BY <1>2, <1>3, OnlyType, PrefixConcat DEF Message
    <2>2. /\ cur' \in Message
          /\ cur'.text = cur.text \o Only(i, Texts) /\ cur'.tools = cur.tools \o Only(i, Tools)
      BY <1>1, <1>3, <2>1 DEF Message, Extended
    <2> QED  BY <2>2, NoneAssumption DEF Message
  <1>6. /\ Range(cur'.text) = TextsOfTurn' /\ InOrder(cur'.text)
        /\ Range(cur'.tools) = ToolsOfTurn' /\ InOrder(cur'.tools)
    BY <1>1, <1>3, <1>5, SectionsJoin
  <1>7. TurnIsWhole'
    BY <1>4, <1>5, <1>6 DEF TurnIsWhole, Opened
  <1> QED  BY <1>2, <1>7 DEF TurnInv

LEMMA StandAloneStep ==
    ASSUME TurnInv, NEW i \in 1..Len(published), StandAlone(i), FeedTypeOK'
    PROVE  TurnInv'
  <1>1. Arrives(i, Boundary) /\ cur' = None /\ published[i] \in Boundary
    BY DEF StandAlone, Flushed, Arrives
  <1>2. /\ published' = published /\ InOrder(handled')
        /\ Range(handled') \subseteq 1..Len(published) /\ SinceBoundary' = {}
    BY <1>1, ArrivesLast, TurnJoins
  <1> QED  BY <1>1, <1>2 DEF TurnInv, TurnIsWhole

LEMMA ShowNothingStep ==
    ASSUME TurnInv, NEW i \in 1..Len(published), ShowNothing(i), FeedTypeOK'
    PROVE  TurnInv'
  <1> DEFINE kinds == {"done", "silent"} \union IF cur = None THEN {"tool"} ELSE {"start"}
  <1>1. Arrives(i, kinds) /\ cur' = cur
    BY DEF ShowNothing
  <1>2. /\ published' = published /\ InOrder(handled') /\ published[i] \in kinds
        /\ Range(handled') \subseteq 1..Len(published)
    BY <1>1, ArrivesLast
  <1>3. published[i] \notin Boundary /\ published[i] \notin Texts /\ published[i] # "call"
    BY <1>2 DEF Boundary, Texts
  <1>4. cur # None <=> Opened
    BY DEF TurnInv, TurnIsWhole, Opened
  <1>5. published[i] = "tool" => ~Opened
    BY <1>2, <1>4
  <1>6. published[i] \in Opening => Opened
    BY <1>2, <1>4 DEF Opening
  <1>7. (Opened' <=> Opened) /\ TextsOfTurn' = TextsOfTurn /\ ToolsOfTurn' = ToolsOfTurn
    <2>1. {j \in {i} : published[i] \in Texts} = {}
      BY <1>3
    <2>2. {j \in {i} : published[i] = "call" \/ (published[i] = "tool" /\ Opened)} = {}
      BY <1>3, <1>5
    <2> QED  BY <1>1, <1>3, <1>6, <2>1, <2>2, TurnJoins
  <1>8. TurnIsWhole'
    BY <1>1, <1>7 DEF TurnInv, TurnIsWhole, Opened
  <1> QED  BY <1>2, <1>8 DEF TurnInv

LEMMA FeedNextTurn ==
    ASSUME TurnInv, FeedTypeOK', [FeedNext]_feedVars
    PROVE  TurnInv'
  <1>0. Len(published) \in Nat
    BY DEF TurnInv, FeedTypeOK
  <1>1. ASSUME NEW k \in Shapes, EventPublished(k) PROVE TurnInv'
    <2>1. /\ UNCHANGED <<handled, cur>> /\ Len(published) <= Len(published')
          /\ \A i \in 1..Len(published) : published'[i] = published[i]
      BY <1>1, AppendType DEF EventPublished, TurnInv, FeedTypeOK
    <2> QED  BY <2>1, TurnKept
  <1>2. ASSUME OnOpen PROVE TurnInv'
    <2>1. handled' = <<>> /\ cur' = None /\ published' = published
      BY <1>2 DEF OnOpen
    <2>2. Range(handled') = {} /\ InOrder(handled')
      BY <2>1 DEF Range, InOrder
    <2>3. SinceBoundary' = {}
      BY <2>2 DEF SinceBoundary
    <2> QED  BY <2>1, <2>2, <2>3 DEF TurnInv, TurnIsWhole
  <1>3. CASE AnimationFrame \/ LoadHistory \/ UNCHANGED feedVars
    <2>1. UNCHANGED <<handled, cur, published>>
      BY <1>3 DEF AnimationFrame, LoadHistory, feedVars
    <2> QED  BY <1>0, <2>1, TurnKept
  <1> QED  BY <1>1, <1>2, <1>3, StartTurnStep, ExtendTurnStep, StandAloneStep,
              ShowNothingStep DEF FeedNext

LEMMA FeedInitTurn == FeedInit => TurnInv
  <1> SUFFICES ASSUME FeedInit PROVE TurnInv
    OBVIOUS
  <1>1. FeedTypeOK
    BY FeedInitShown DEF ShownInv
  <1>2. handled = <<>> /\ cur = None
    BY DEF FeedInit
  <1>3. Range(handled) = {} /\ InOrder(handled)
    BY <1>2 DEF Range, InOrder
  <1>4. SinceBoundary = {}
    BY <1>3 DEF SinceBoundary
  <1> QED  BY <1>1, <1>2, <1>3, <1>4 DEF TurnInv, TurnIsWhole

(* Turns: for any events, connections and kinds, a message is being built    *)
(* exactly when one was opened since the last boundary, and its two sections *)
(* are all the text and all the tools since, each in the stream's order      *)
(* (RelayTurnAccumulator).                                                   *)
THEOREM TurnCorrect == FeedSpec => []TurnIsWhole
  <1>1. ShownInv /\ [FeedNext]_feedVars => ShownInv' /\ FeedTypeOK'
    BY FeedNextShown DEF ShownInv
  <1>2. TurnInv /\ FeedTypeOK' /\ [FeedNext]_feedVars => TurnInv'
    BY FeedNextTurn
  <1>3. TurnInv => TurnIsWhole
    BY DEF TurnInv
  <1> QED  BY FeedInitShown, FeedInitTurn, <1>1, <1>2, <1>3, PTL DEF FeedSpec
===============================================================================

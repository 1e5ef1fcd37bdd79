-------------------------------- MODULE Relay --------------------------------
(***************************************************************************)
(* The output side of one relay session: the daemon's events, posted to    *)
(* app/api/relay/events/route.ts, go to a Redis channel and to a capped    *)
(* replay list; app/api/relay/sessions/[id]/stream/route.ts replays the    *)
(* list to a browser and then follows the channel.  RelayFeed models what  *)
(* the browser makes of it.                                                *)
(*                                                                         *)
(* An event is the number of its PUBLISH; log[i] is its kind. Each Redis   *)
(* command is one step. The daemon (not in this repository) posts one      *)
(* batch at a time; a batch is served event by event, so its boundaries    *)
(* matter only when it fails, and then the rest of it is never published.  *)
(***************************************************************************)
EXTENDS Naturals, Sequences, SequencesExt

CONSTANTS
    Browsers,
    Kinds,        \* the kinds of event the daemon sends
    ReplaySize,   \* REPLAY_BUFFER_SIZE
    MaxEvents,    \* bound: events published
    MaxOpens      \* bound: connections one browser makes

(* "delta" is content_delta, "user" the user's own input; "event" stands  *)
(* for every other session event but the session's end.                   *)
ASSUME KindsAssumption == Kinds \subseteq {"event", "delta", "ended"}
ASSUME SizeAssumption ==
    ReplaySize \in Nat \ {0} /\ MaxEvents \in Nat /\ MaxOpens \in Nat

VARIABLES
    log,      \* history: kinds of the events published, in Redis's order
    post,     \* the event the events route is busy with, and how far it is
    replay,   \* the list relay:session:{id}:replay
    pushed,   \* history: events pushed to that list
    status,   \* relaySession.status
    conn,     \* how far each browser's stream request is
    sent,     \* events written to that response
    opens     \* connections made

vars == <<log, post, replay, pushed, status, conn, sent, opens>>
streams == <<conn, sent, opens>>

ErrorFrame == MaxEvents + 1
Idle == [stage |-> "idle", id |-> 0]

TypeOK ==
    /\ log \in Seq(Kinds \union {"user"})
    /\ post \in [stage : {"idle", "published", "pushed", "trimmed"}, id : Nat]
    /\ replay \in Seq(Nat) /\ pushed \in Seq(Nat)
    /\ status \in {"active", "completed"}
    /\ conn \in [Browsers -> {"off", "open", "replayed", "live", "closed"}]
    /\ sent \in [Browsers -> Seq(Nat)]
    /\ opens \in [Browsers -> Nat]

Init ==
    /\ log = <<>> /\ post = Idle /\ replay = <<>> /\ pushed = <<>>
    /\ status = "active"
    /\ conn = [b \in Browsers |-> "off"]
    /\ sent = [b \in Browsers |-> <<>>]
    /\ opens = [b \in Browsers |-> 0]

-------------------------------------------------------------------------------
(* POST /api/relay/events *)

(* PUBLISH on relay:session:{id}:output: every subscribed stream writes the *)
(* event to its response.                                                   *)
Publish(kind) ==
    /\ Len(log) < MaxEvents
    /\ log' = Append(log, kind)
    /\ sent' = [b \in Browsers |-> IF conn[b] = "live"
                                   THEN Append(sent[b], Len(log) + 1) ELSE sent[b]]

(* The loop takes its next event. A content_delta is only published. *)
Event(kind) ==
    /\ post = Idle
    /\ Publish(kind)
    /\ post' = IF kind = "delta" THEN Idle
               ELSE [stage |-> "published", id |-> Len(log) + 1]
    /\ UNCHANGED <<replay, pushed, status, conn, opens>>

PushUnlessEnd ==
    /\ post.stage = "published"
    /\ IF log[post.id] = "ended" THEN UNCHANGED <<replay, pushed>>
       ELSE replay' = Append(replay, post.id) /\ pushed' = Append(pushed, post.id)
    /\ post' = [post EXCEPT !.stage = "pushed"]
    /\ UNCHANGED <<log, status, streams>>

(* RPUSH follows the PUBLISH on the same connection. *)
PushEvent ==
    /\ post.stage = "published"
    /\ replay' = Append(replay, post.id)
    /\ pushed' = Append(pushed, post.id)
    /\ post' = [post EXCEPT !.stage = "pushed"]
    /\ UNCHANGED <<log, status, streams>>

(* LTRIM keeps the last ReplaySize entries; session_ended goes on to the   *)
(* database.                                                               *)
KeepFewer(list) ==
    IF Len(list) <= ReplaySize THEN list
    ELSE SubSeq(list, Len(list) - ReplaySize + 2, Len(list))

KeepLast(list) ==
    IF Len(list) <= ReplaySize THEN list
    ELSE SubSeq(list, Len(list) - ReplaySize + 1, Len(list))

TrimReplay ==
    /\ post.stage = "pushed"
    /\ replay' = KeepLast(replay)
    /\ post' = IF log[post.id] = "ended" THEN [post EXCEPT !.stage = "trimmed"] ELSE Idle
    /\ UNCHANGED <<log, pushed, status, streams>>

(* session_ended completes the session's row. *)
CompleteSession ==
    /\ post.stage = "trimmed"
    /\ status' = "completed"
    /\ post' = Idle
    /\ UNCHANGED <<log, replay, pushed, streams>>

(* Redis or the database fails, or the server stops: the answer is a 500. *)
FailPost ==
    /\ post # Idle
    /\ post' = Idle
    /\ UNCHANGED <<log, replay, pushed, status, streams>>

(* POST .../input, another request: the user's message is only published. *)
PublishInput ==
    /\ Publish("user")
    /\ UNCHANGED <<post, replay, pushed, status, conn, opens>>

-------------------------------------------------------------------------------
(* GET .../stream; the frame 0 is the response's head, EventSource's open. *)

OpenStream(b) ==
    /\ conn[b] = "off" /\ opens[b] < MaxOpens
    /\ conn' = [conn EXCEPT ![b] = "open"]
    /\ sent' = [sent EXCEPT ![b] = <<0>>]
    /\ opens' = [opens EXCEPT ![b] = @ + 1]
    /\ UNCHANGED <<log, post, replay, pushed, status>>

ReadFirst(b) ==
    /\ conn[b] = "open"
    /\ conn' = [conn EXCEPT ![b] = "replayed"]
    /\ sent' = [sent EXCEPT ![b] = @ \o IF replay = <<>> THEN <<>> ELSE <<Head(replay)>>]
    /\ UNCHANGED <<log, post, replay, pushed, status, opens>>

(* LRANGE 0 -1, written out. *)
ReadReplay(b) ==
    /\ conn[b] = "open"
    /\ conn' = [conn EXCEPT ![b] = "replayed"]
    /\ sent' = [sent EXCEPT ![b] = @ \o replay]
    /\ UNCHANGED <<log, post, replay, pushed, status, opens>>

SubscribeAndReread(b) ==
    /\ conn[b] = "replayed"
    /\ conn' = [conn EXCEPT ![b] = "live"]
    /\ sent' = [sent EXCEPT ![b] = @ \o replay]
    /\ UNCHANGED <<log, post, replay, pushed, status, opens>>

(* SUBSCRIBE on the stream's own connection. *)
Subscribe(b) ==
    /\ conn[b] = "replayed"
    /\ conn' = [conn EXCEPT ![b] = "live"]
    /\ UNCHANGED <<log, post, replay, pushed, status, sent, opens>>

(* One of the three failed: an error frame, and the response ends. *)
FailStream(b) ==
    /\ conn[b] \in {"open", "replayed"}
    /\ conn' = [conn EXCEPT ![b] = "closed"]
    /\ sent' = [sent EXCEPT ![b] = Append(@, ErrorFrame)]
    /\ UNCHANGED <<log, post, replay, pushed, status, opens>>

(* The connection ends: EventSource opens another. *)
Disconnect(b) ==
    /\ conn[b] # "off"
    /\ conn' = [conn EXCEPT ![b] = "off"]
    /\ sent' = [sent EXCEPT ![b] = <<>>]
    /\ UNCHANGED <<log, post, replay, pushed, status, opens>>

-------------------------------------------------------------------------------
Next ==
    \/ \E k \in Kinds : Event(k)
    \/ PushEvent \/ TrimReplay \/ CompleteSession \/ FailPost \/ PublishInput
    \/ \E b \in Browsers : \/ OpenStream(b) \/ ReadReplay(b) \/ Subscribe(b)
                           \/ FailStream(b) \/ Disconnect(b)

(* A stream request that was accepted proceeds: its awaits answer or fail. *)
Fairness ==
    \A b \in Browsers : WF_vars(ReadReplay(b) \/ Subscribe(b) \/ FailStream(b))

Spec == Init /\ [][Next]_vars /\ Fairness

-------------------------------------------------------------------------------
(* Properties *)

(* stream/route.ts: however reading the list and subscribing interleave with *)
(* publishing and pushing, one connection delivers no event twice and none   *)
(* out of order.                                                             *)
Increasing(ids) == \A i, j \in 1..Len(ids) : i < j => ids[i] < ids[j]

DeliveredInOrder == \A b \in Browsers : Increasing(sent[b])

(* publishSessionEvent: the list holds the last ReplaySize events that were  *)
(* pushed, in order, also after a failure between the push and the trim.     *)
ReplayKeepsLast ==
    /\ Len(replay) <= Len(pushed)
    /\ \A i \in 1..Len(replay) : replay[i] = pushed[Len(pushed) - Len(replay) + i]
    /\ Len(replay) >= ReplaySize \/ Len(replay) = Len(pushed)

(* events/route.ts: a session's row says completed only when its end was put *)
(* where a browser that opens the session later can be told of it.           *)
CompletedIsReplayed ==
    status = "completed" => \E i \in 1..Len(pushed) : log[pushed[i]] = "ended"

(* stream/route.ts "replays the last N buffered events": what the list holds *)
(* when a browser connects is sent to it, unless it is trimmed or the        *)
(* connection lost before.                                                   *)
ReplayReaches ==
    \A b \in Browsers, i \in 1..MaxEvents :
        (conn[b] = "open" /\ Contains(replay, i))
            ~> (Contains(sent[b], i) \/ ~Contains(replay, i) \/ conn[b] \in {"off", "closed"})

===============================================================================

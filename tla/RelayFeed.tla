------------------------------ MODULE RelayFeed ------------------------------
(***************************************************************************)
(* What one browser makes of a relay session's stream: RelayTurnAccumulator *)
(* (lib/relay/relay-message-adapter.ts) merges events into messages and    *)
(* RelayChatSync (components/relay/relay-chat-sync.tsx) writes them to the  *)
(* store, updates at most once per animation frame.                        *)
(*                                                                         *)
(* An action is one callback. The stream is external: a connection hands   *)
(* over events in increasing order (Relay's DeliveredInOrder), and of the  *)
(* events published before it was opened only those the replay list keeps. *)
(***************************************************************************)
EXTENDS Naturals, Sequences, SequencesExt

CONSTANTS
    MaxPublished, \* bound: events published
    MaxConnects,  \* bound: connections made
    Shapes,       \* kinds of event published, as the browser tells them apart
    None

(* "text" is an assistant_message, "delta" a content_delta, "call" a        *)
(* tool_event. "start", a text's content_block_start, opens an empty        *)
(* message but does not extend one, and "tool", a tool_result, the reverse. *)
(* "alone" is an approval_request or the session's end, "user" the user's   *)
(* own input. "done" is a turn_result: a comment beside it says that it     *)
(* flushes the current turn, but the code returns without a flush, so that  *)
(* the next turn's text is added to the same message. "silent" is all else  *)
(* that shows nothing.                                                      *)
Opening   == {"start", "text", "delta", "call"}
Texts     == {"text", "delta"}
Tools     == {"call", "tool"}
Boundary  == {"alone", "user"}
Replayed  == {"start", "text", "call", "tool", "alone", "done", "silent"}

ASSUME ShapesAssumption ==
    Shapes \subseteq Opening \union Tools \union Boundary \union {"done", "silent"}
ASSUME FeedBounds == MaxPublished \in Nat /\ MaxConnects \in Nat
ASSUME NoneAssumption == None \notin [id : Nat, text : Seq(Nat), tools : Seq(Nat)]

VARIABLES
    published, \* kinds of the events published
    base,      \* events published before this connection was opened
    handled,   \* history: events this connection has handed over
    feed,      \* the store's messages; each shows its text, then its tools
    cur,       \* the accumulator's currentMessage, while isStreaming
    lag,       \* pendingUpdateRef: the update the next frame applies
    made,      \* messages made: the source of their ids
    loading,   \* loadHistory: "asked", or its answer
    connects   \* connections made

feedVars == <<published, base, handled, feed, cur, lag, made, loading, connects>>

FeedInit ==
    /\ published = <<>> /\ base = 0 /\ handled = <<>> /\ feed = <<>>
    /\ cur = None /\ lag = None /\ made = 0 /\ loading = "asked" /\ connects = 0

-------------------------------------------------------------------------------
EventPublished(kind) ==
    /\ Len(published) < MaxPublished
    /\ published' = Append(published, kind)
    /\ UNCHANGED <<base, handled, feed, cur, lag, made, loading, connects>>

(* es.onopen, after the first connection or a lost one: a new accumulator;  *)
(* the store is kept, except that an empty one is emptied.                  *)
OnOpen ==
    /\ connects < MaxConnects
    /\ connects' = connects + 1
    /\ base' = Len(published)
    /\ handled' = <<>>
    /\ cur' = None
    /\ lag' = None
    /\ UNCHANGED <<published, feed, made, loading>>

(* es.onmessage for event i. *)
Arrives(i, kinds) ==
    /\ connects > 0
    /\ \A k \in 1..Len(handled) : handled[k] < i
    /\ published[i] \in kinds
    /\ i <= base => published[i] \in Replayed
    /\ handled' = Append(handled, i)
    /\ UNCHANGED <<published, base, loading, connects>>

Only(i, kinds) == IF published[i] \in kinds THEN <<i>> ELSE <<>>

(* isNew: the message is pushed to the store at once. *)
PushMessage(m) ==
    /\ feed' = Append(feed, m)
    /\ made' = made + 1

NewTurn(i) == [id |-> made + 1, text |-> Only(i, Texts), tools |-> Only(i, Tools)]

StartTurn(i) ==
    /\ cur = None
    /\ Arrives(i, Opening)
    /\ PushMessage(NewTurn(i))
    /\ cur' = NewTurn(i)
    /\ UNCHANGED lag

(* Content in a turn rebuilds its message from the text buffer and the tool *)
(* parts, in this order whichever came first, so that a text which follows  *)
(* a tool is put above it; the next animation frame updates the store.      *)
Extended(i) == [cur EXCEPT !.text = @ \o Only(i, Texts), !.tools = @ \o Only(i, Tools)]

ExtendTurn(i) ==
    /\ cur # None
    /\ Arrives(i, Texts \union Tools)
    /\ cur' = Extended(i)
    /\ lag' = Extended(i)
    /\ UNCHANGED <<feed, made>>

(* flushCurrent, and a message of its own. *)
NotFlushed == cur' = cur
Flushed == cur' = None

StandAlone(i) ==
    /\ Arrives(i, Boundary)
    /\ PushMessage([id |-> made + 1, text |-> <<i>>, tools |-> <<>>])
    /\ Flushed
    /\ UNCHANGED lag

ShowNothing(i) ==
    /\ Arrives(i, {"done", "silent"} \union IF cur = None THEN {"tool"} ELSE {"start"})
    /\ UNCHANGED <<feed, cur, lag, made>>

(* requestAnimationFrame: replace the message that has the update's id. *)
ReplaceLast == [feed EXCEPT ![Len(feed)] = lag]
ReplaceById == [k \in DOMAIN feed |-> IF feed[k].id = lag.id THEN lag ELSE feed[k]]

AnimationFrame ==
    /\ lag # None
    /\ feed' = ReplaceById
    /\ lag' = None
    /\ UNCHANGED <<published, base, handled, cur, made, loading, connects>>

(* loadHistory answers: nothing, or the turns the daemon has on file, which *)
(* replace the store. They stand as one message here.                       *)
OnFile == \E i \in 1..Len(published) : published[i] \in {"text", "delta", "call", "user"}

LoadHistory ==
    /\ loading = "asked"
    /\ \/ loading' = "nothing" /\ UNCHANGED <<feed, made>>
       \/ /\ OnFile
          /\ loading' = "history"
          /\ feed' = <<[id |-> made + 1, text |-> <<Len(published)>>, tools |-> <<>>]>>
          /\ made' = made + 1
    /\ UNCHANGED <<published, base, handled, cur, lag, connects>>

-------------------------------------------------------------------------------
FeedNext ==
    \/ \E k \in Shapes : EventPublished(k)
    \/ \E i \in 1..Len(published) :
          StartTurn(i) \/ ExtendTurn(i) \/ StandAlone(i) \/ ShowNothing(i)
    \/ OnOpen \/ AnimationFrame \/ LoadHistory

FeedSpec == FeedInit /\ [][FeedNext]_feedVars /\ WF_feedVars(AnimationFrame)

-------------------------------------------------------------------------------
(* Properties *)

SinceBoundary ==
    {i \in Range(handled) : \A j \in Range(handled) : published[j] \in Boundary => j < i}

OpenedBefore(i) == \E j \in SinceBoundary : j < i /\ published[j] \in Opening

InOrder(ids) == \A k, l \in 1..Len(ids) : k < l => ids[k] < ids[l]

TextsOfTurn == {i \in SinceBoundary : published[i] \in Texts}

(* A tool's result before anything opened the message is dropped. *)
ToolsOfTurn ==
    {i \in SinceBoundary : published[i] = "call" \/ (published[i] = "tool" /\ OpenedBefore(i))}

(* RelayTurnAccumulator: a message is being built exactly when one was       *)
(* opened since the last boundary on this connection. Its text section is    *)
(* all the text handled since, and its tool section all the tools, each      *)
(* whole and in the order of the stream; between the sections the stream's   *)
(* order is not kept, all text is shown above all tools.                     *)
TurnIsWhole ==
    /\ cur # None <=> \E i \in SinceBoundary : published[i] \in Opening
    /\ cur # None => /\ Range(cur.text) = TextsOfTurn /\ InOrder(cur.text)
                     /\ Range(cur.tools) = ToolsOfTurn /\ InOrder(cur.tools)

(* RelayChatSync: an update that is applied late takes nothing from what is  *)
(* shown, and neither adds, moves nor replaces a message: each of the two    *)
(* sections of a message only grows at its end. Only the history, which      *)
(* replaces the store, may do otherwise.                                     *)
ShownStays ==
    [][loading' = loading =>
          \A k \in 1..Len(feed) : /\ k <= Len(feed')
                                  /\ feed'[k].id = feed[k].id
                                  /\ IsPrefix(feed[k].text, feed'[k].text)
                                  /\ IsPrefix(feed[k].tools, feed'[k].tools)]_feedVars

===============================================================================

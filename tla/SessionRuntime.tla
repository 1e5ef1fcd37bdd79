---------------------------- MODULE SessionRuntime ----------------------------
(***************************************************************************)
(* The per-session envelope log of lib/life-runtime/session-runtime.ts:    *)
(* turns pump envelopes into one bounded buffer, and every SSE connection  *)
(* runs one `streamSession` generator that first replays the buffer by     *)
(* index and then parks a waiter for each further envelope.                *)
(*                                                                         *)
(* JavaScript runs one callback at a time, so an action here is the code   *)
(* between two suspension points: a `yield`, the parked promise, or the    *)
(* `await` of a turn's next envelope.                                      *)
(***************************************************************************)
EXTENDS Integers, Sequences, SequencesExt

CONSTANTS
    Conns,        \* SSE connections (one streamSession generator each)
    Turns,        \* user messages, each driving one canonical turn
    Seed,         \* the pseudo-turn of the fresh-session seed
    SeedCount,    \* envelopes seeded into a fresh session (5 in the code)
    MaxBuffer,    \* MAX_BUFFER (500 in the code)
    Cursors,      \* from_seq values a client may ask for
    MaxEmits,     \* bound: envelopes the turns produce between them
    MaxConnects,  \* bound: connections opened in a behaviour
    NoEnv         \* no envelope

ASSUME BoundsAssumption ==
    /\ SeedCount \in Nat /\ MaxBuffer \in Nat /\ MaxEmits \in Nat
    /\ MaxConnects \in Nat
    /\ 0 < SeedCount /\ SeedCount <= MaxBuffer
    /\ Cursors \subseteq Nat

ASSUME SeedIsNoTurn == Seed \notin Turns

VARIABLES
    buffer,    \* state.buffer, oldest first
    nextSeq,   \* state.nextSeq; 1 means the session is not materialised yet
    waiters,   \* state.waiters: connections parked, in parking order
    st,        \* where the generator of each connection is suspended
    at,        \* its next index into the buffer, while it replays
    from,      \* its from_seq cursor
    got,       \* the envelope its waiter was resolved with
    aborted,   \* connections whose AbortSignal has fired
    out,       \* frames the SSE handler enqueued on the current connection
    turn,      \* the sendMessage call and its background pump
    produced,  \* envelopes each turn has produced so far
    opened     \* connections opened so far (bounds the model)

gen  == <<st, at, from, got>>
vars == <<buffer, nextSeq, waiters, st, at, from, got, aborted, out, turn,
          produced, opened>>

Envelope == [seq : Nat, turn : Turns \union {Seed}, n : Nat]

TypeOK ==
    /\ buffer \in Seq(Envelope)
    /\ nextSeq \in Nat \ {0}
    /\ waiters \in Seq(Conns)
    /\ st \in [Conns -> {"closed", "replay", "parked", "woken", "live"}]
    /\ at \in [Conns -> Nat \ {0}]
    /\ from \in [Conns -> Nat]
    /\ got \in [Conns -> Envelope \union {NoEnv}]
    /\ aborted \subseteq Conns
    /\ out \in [Conns -> Seq(Envelope)]
    /\ turn \in [Turns -> {"idle", "starting", "pumping", "over"}]
    /\ produced \in [Turns -> Nat]
    /\ opened \in Nat

(* The first seq of a session; a session is fresh while it is still next. *)
FirstSeqZero == 0
FirstSeq == 1

Init ==
    /\ buffer = <<>>
    /\ nextSeq = FirstSeq
    /\ waiters = <<>>
    /\ st = [c \in Conns |-> "closed"]
    /\ at = [c \in Conns |-> 1]
    /\ from = [c \in Conns |-> 0]
    /\ got = [c \in Conns |-> NoEnv]
    /\ aborted = {}
    /\ out = [c \in Conns |-> <<>>]
    /\ turn = [m \in Turns |-> "idle"]
    /\ produced = [m \in Turns |-> 0]
    /\ opened = 0

-------------------------------------------------------------------------------
(* getOrCreateSession: a fresh sid is seeded before anything else touches it. *)
SeedBuffer == [i \in 1..SeedCount |-> [seq |-> i, turn |-> Seed, n |-> i]]

GetOrCreateSession ==
    IF nextSeq = FirstSeq
    THEN buffer' = SeedBuffer /\ nextSeq' = SeedCount + 1
    ELSE UNCHANGED <<buffer, nextSeq>>

(* What the replay loop skips: envelopes at or below the cursor. *)
SkippedOneMore(c, i) == buffer[i].seq <= from[c] + 1
Skipped(c, i) == buffer[i].seq <= from[c]

-------------------------------------------------------------------------------
(* GET /api/life-proxy/sse/[sid]: a generator starts with its cursor. *)
Connect(c, f) ==
    /\ st[c] = "closed"
    /\ opened < MaxConnects
    /\ opened' = opened + 1
    /\ GetOrCreateSession
    /\ st' = [st EXCEPT ![c] = "replay"]
    /\ at' = [at EXCEPT ![c] = 1]
    /\ from' = [from EXCEPT ![c] = f]
    /\ out' = [out EXCEPT ![c] = <<>>]
    /\ UNCHANGED <<waiters, got, aborted, turn, produced>>

(* The replay loop yields the next buffered envelope above the cursor. *)
ReplayYield(c) ==
    /\ st[c] = "replay"
    /\ c \notin aborted
    /\ \E i \in at[c]..Len(buffer) :
          /\ ~Skipped(c, i)
          /\ \A j \in at[c]..(i - 1) : Skipped(c, j)
          /\ out' = [out EXCEPT ![c] = Append(@, buffer[i])]
          /\ at' = [at EXCEPT ![c] = i + 1]
    /\ UNCHANGED <<buffer, nextSeq, waiters, st, from, got, aborted, turn, produced, opened>>

(* The replay loop is exhausted, or the consumer took a live envelope and    *)
(* asked for the next one: a new waiter is parked.                           *)
Park(c) ==
    /\ c \notin aborted
    /\ \/ st[c] = "replay" /\ \A i \in at[c]..Len(buffer) : Skipped(c, i)
       \/ st[c] = "live"
    /\ waiters' = Append(waiters, c)
    /\ st' = [st EXCEPT ![c] = "parked"]
    /\ UNCHANGED <<buffer, nextSeq, at, from, got, aborted, out, turn, produced, opened>>

(* A woken generator yields the envelope its waiter was resolved with; the   *)
(* adapter and the route both drop it when the signal fired meanwhile.       *)
YieldLive(c) ==
    /\ st[c] = "woken"
    /\ c \notin aborted
    /\ out' = [out EXCEPT ![c] = Append(@, got[c])]
    /\ st' = [st EXCEPT ![c] = "live"]
    /\ got' = [got EXCEPT ![c] = NoEnv]
    /\ UNCHANGED <<buffer, nextSeq, waiters, at, from, aborted, turn, produced, opened>>

(* Splicing c's waiter out of the queue. *)
WaiterLeftBehind(c) == waiters
WaiterSpliced(c) ==
    RemoveAt(waiters, CHOOSE i \in 1..Len(waiters) : waiters[i] = c)

(* The abort listener of a parked waiter. *)
NoAbortListener(c) == UNCHANGED <<waiters, st>>
OnAbort(c) ==
    IF st[c] = "parked"
    THEN waiters' = WaiterSpliced(c) /\ st' = [st EXCEPT ![c] = "woken"]
    ELSE UNCHANGED <<waiters, st>>

(* The client goes away: the signal fires, and a parked waiter is spliced    *)
(* out of the queue and resolved as done.                                    *)
Abort(c) ==
    /\ st[c] # "closed"
    /\ c \notin aborted
    /\ aborted' = aborted \union {c}
    /\ OnAbort(c)
    /\ UNCHANGED <<buffer, nextSeq, at, from, got, out, turn, produced, opened>>

(* An aborted generator that gets control returns, whatever it was doing. *)
Finish(c) ==
    /\ c \in aborted
    /\ st[c] \in {"replay", "woken", "live"}
    /\ st' = [st EXCEPT ![c] = "closed"]
    /\ at' = [at EXCEPT ![c] = 1]
    /\ from' = [from EXCEPT ![c] = 0]
    /\ got' = [got EXCEPT ![c] = NoEnv]
    /\ aborted' = aborted \ {c}
    /\ UNCHANGED <<buffer, nextSeq, waiters, out, turn, produced, opened>>

-------------------------------------------------------------------------------
(* POST send-message: materialise the session, then await runtime().run(). *)
SendMessage(m) ==
    /\ turn[m] = "idle"
    /\ turn' = [turn EXCEPT ![m] = "starting"]
    /\ GetOrCreateSession
    /\ UNCHANGED <<waiters, gen, aborted, out, produced, opened>>

(* run() resolved: a rejection or a payment demand throws, else a background *)
(* pump starts.                                                              *)
RunResolved(m) ==
    /\ turn[m] = "starting"
    /\ \E s \in {"pumping", "over"} : turn' = [turn EXCEPT ![m] = s]
    /\ UNCHANGED <<buffer, nextSeq, waiters, gen, aborted, out, produced, opened>>

(* The session's own seq replaces the one the turn's emitter gave. *)
StampOfTurn(m) == produced[m] + 1
Stamp(m) == nextSeq

(* Bounded retention: push, then drop the oldest above MAX_BUFFER. *)
RetainUnbounded(e) == Append(buffer, e)
Retain(e) ==
    IF Len(buffer) < MaxBuffer THEN Append(buffer, e) ELSE Tail(Append(buffer, e))

(* emit: stamp, retain (evicting the oldest above MAX_BUFFER), wake ONE waiter. *)
Emit(m) ==
    /\ turn[m] = "pumping"
    /\ nextSeq <= SeedCount + MaxEmits
    /\ produced' = [produced EXCEPT ![m] = @ + 1]
    /\ LET e == [seq |-> Stamp(m), turn |-> m, n |-> produced[m] + 1]
       IN  /\ nextSeq' = nextSeq + 1
           /\ buffer' = Retain(e)
           /\ IF waiters = <<>>
              THEN UNCHANGED <<waiters, st, got>>
              ELSE /\ waiters' = Tail(waiters)
                   /\ st' = [st EXCEPT ![Head(waiters)] = "woken"]
                   /\ got' = [got EXCEPT ![Head(waiters)] = e]
    /\ UNCHANGED <<at, from, aborted, out, turn, opened>>

(* The turn's stream ends, or throws and the pump logs it. *)
PumpEnds(m) ==
    /\ turn[m] = "pumping"
    /\ turn' = [turn EXCEPT ![m] = "over"]
    /\ UNCHANGED <<buffer, nextSeq, waiters, gen, aborted, out, produced, opened>>

-------------------------------------------------------------------------------
Generator(c) == ReplayYield(c) \/ Park(c) \/ YieldLive(c) \/ Finish(c)

Next ==
    \/ \E c \in Conns : Generator(c) \/ Abort(c) \/ \E f \in Cursors : Connect(c, f)
    \/ \E m \in Turns : SendMessage(m) \/ RunResolved(m) \/ Emit(m) \/ PumpEnds(m)

(* The SSE route drains its generator in a loop that applies no back-pressure, *)
(* so a generator that can run is eventually resumed by the event loop.       *)
Fairness == \A c \in Conns : WF_vars(Generator(c))

Spec == Init /\ [][Next]_vars /\ Fairness

-------------------------------------------------------------------------------
(* Properties *)

(* session-runtime.ts emit: retention keeps a gapless tail of everything     *)
(* emitted, so a cursor identifies one position in it.                       *)
BufferIsTail ==
    /\ Len(buffer) <= MaxBuffer
    /\ Len(buffer) < nextSeq
    /\ \A i \in 1..Len(buffer) : buffer[i].seq = nextSeq - 1 - Len(buffer) + i

(* session-runtime.ts waiters: a generator is parked exactly while its one   *)
(* waiter is queued, and never after its signal fired. A stale waiter would  *)
(* swallow the single wake-up of an emit; a missing one would never wake.    *)
WaitersMatchParked ==
    /\ \A i, j \in 1..Len(waiters) : waiters[i] = waiters[j] => i = j
    /\ \A c \in Conns : (st[c] = "parked")
                            <=> (\E i \in 1..Len(waiters) : waiters[i] = c)
    /\ \A i \in 1..Len(waiters) : waiters[i] \notin aborted

(* session-runtime.ts streamSession: whatever emits, evicts, wakes and       *)
(* replays interleave, one connection sees strictly increasing seqs: nothing *)
(* twice, nothing out of order, across the switch from replay to live.       *)
StreamInOrder ==
    \A c \in Conns : \A i, j \in 1..Len(out[c]) :
        i < j => out[c][i].seq < out[c][j].seq

(* session-runtime.ts streamSession: a generator that leaves the replay loop *)
(* has yielded every retained envelope above its cursor, unless the buffer   *)
(* reached MAX_BUFFER and started evicting under it.                         *)
Yielded(c, e) == \E k \in 1..Len(out[c]) : out[c][k] = e

RetainedSeen(c) ==
    \A i \in 1..Len(buffer) : buffer[i].seq > from[c] => Yielded(c, buffer[i])

LeavesReplay(c) == st[c] = "replay" /\ st'[c] = "parked"

ReplayCompleteBelowCapacity ==
    [][\A c \in Conns : LeavesReplay(c) => RetainedSeen(c) \/ Len(buffer) = MaxBuffer]_vars

(* session-runtime.ts streamSession on abort: a generator whose client is    *)
(* gone always terminates, from wherever it was suspended.                   *)
AbortEndsStream == \A c \in Conns : c \in aborted ~> st[c] = "closed"
===============================================================================

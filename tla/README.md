# Verification of broomva.tech

TLA+ models of the stateful parts of this repository, the TLC runs that check
them on small instances, and the theorems TLAPS proves about them for every
instance. Paths below are relative to `src/apps/broomva/` unless they start with
`crates/` or `packages/`.

## 1. The system

broomva.tech is a Next.js application (UI, route handlers, server actions) over
Postgres (Drizzle), Redis (relay, rate limits, resumable streams) and external
services (the lifed/lifegw agent runtime over WebSocket, Stripe, Railway), with
a Rust CLI (`crates/broomva-cli`). Route handlers run concurrently, possibly in
several processes; each `await` is a point where another request can run.

| Part | State | Operations | Interacts with |
|---|---|---|---|
| Session runtime (`lib/life-runtime/session-runtime.ts`, `app/api/life-proxy`) | per-session envelope buffer, waiters, seq counter (process memory) | seed, emit, streamSession, sendMessage, abort | canonical runtime, session lens |
| Session lens client (`components/lenses/session/useSessionStream.ts`) | EventSource, scene, cursor | mount, receive, retry, hide/show | session runtime |
| Lifed WS client (`lib/life-runtime/agent-session/lifed-ws-client.ts`) | socket, frame queue, per-session pending user messages | stream (one turn), streamMultiTurn, sendMessage, close, abort | lifed, canonical runtime |
| In-process client (`lib/life-runtime/agent-session/in-process-client.ts`) | one list per session, of messages or a waiter | the same, in the server; `factory.ts` chooses | real runner |
| Canonical runtime (`lib/life-runtime/canonical.ts`, `billing.ts`, `queries.ts`) | run rows, run events, user credits | run, pump, settle, fail | agent session client, Postgres |
| Relay (`app/api/relay`, `lib/relay`, `components/relay`) | node and session rows; Redis command list, replay list, pub/sub channels | connect, poll, events, spawn, input, approve, stream, history, fs | browser, daemon |
| Marketplace escrow (`lib/db/marketplace.ts`) | organisation credit balances, escrow rows | create, release, refund, dispute, transact | Stripe billing (same balances) |
| Spec documents (`lib/db/spec-doc-queries.ts`, `app/api/docs`) | document versions and states, dispatch runs | publish, promote, archive, restore, delete, visibility, trigger | Maestro dispatcher |
| Device auth and tokens (`app/api/auth`) | device codes, refresh tokens | code, authorize, token, refresh, revoke | CLI, browser |
| Stripe billing (`app/api/stripe/webhooks/route.ts`, `lib/stripe.ts`) | organisation plan and credits, Life instance rows | checkout, subscription, invoice events; provision, deprovision | Railway, escrow |
| Handoffs (`lib/db/handoff-queries.ts`, `app/api/handoffs`) | handoff versions, event log | push, transition, event stream | CLI |
| Prompt invocations (`app/api/invocations`) | invocation rows | create, pull, patch | CLI |
| Edge adapter (`lib/life-runtime/edge-adapter`) | one stream | frame deadline, protocol translation | lifegw |
| Chat (`app/(chat)/api/chat`) | chat rows, resumable streams, credits | post, resume, stop | Redis, Postgres |
| Rate limits (`lib/utils/rate-limit.ts`) | counters | check | Redis |
| Blob cleanup (`app/api/cron/cleanup`) | blobs | sweep | storage |
| JWKS cache and rotation (`lib/lago-auth`) | key cache | verify, rotate | identity provider |
| Rust CLI (`crates/broomva-cli`) | credentials, agent streams, daemon | chat, relay, handoff, heartbeat | all of the above |
| UI components, docs site, content, generated protobuf clients | none of their own that the parts above depend on | | |

## 2. What is hard, and what makes each part correct

Nothing here shares memory between threads. What interleaves is callbacks within
one Node process (between two `await`s or `yield`s everything is atomic), SQL
statements of concurrent transactions at PostgreSQL's default READ COMMITTED, and
messages between a browser, a server and a daemon. Processes are killed and
restarted freely (serverless), and both `EventSource` and Stripe retry by
themselves. PROJECT.json lists the hazards at their lines; by part:

| Part | What is hard | What makes it correct |
|---|---|---|
| Session runtime | an `emit` evicts the buffer under a generator that replays it by index; waiters outlive or miss their signal; several turns pump into one log | every connection sees increasing seqs, once; a replay misses nothing that is retained; a waiter exists exactly for a parked generator; an aborted generator ends |
| Session lens | the browser retries a frozen URL; the tab is hidden and shown; frames are lost on a broken connection | the scene is clean until a retry; a retry re-offers everything lost |
| Lifed client | `sendMessage`, the open listener and the turn boundary write to one socket; the socket, an abort and the consumer can each end the stream first | messages in order, once, one turn at a time; exactly one terminal `finish`; nothing left open; an abort ends a silent session |
| In-process client | the same list holds messages or a waiter; the finally block yields | what is accepted reaches a runner, in order; a stream that ends is unregistered and its VM destroyed |
| Escrow | check and update are separate statements; a crash between credit and status | credits conserved, an escrow paid at most once, a dispute holds |
| Spec documents | `max(version)+1`; an UPDATE does not see rows committed after its snapshot | versions append; one active version per handle; one dispatch per version |
| Canonical runtime | settlement after success; a consumer that leaves; a debit that throws | the row of a run that ended tells what was debited |
| Relay | replay list and pub/sub are two structures written by three commands; the browser applies updates a frame late; commands are popped before they are delivered | a connection delivers an event once, in order; the list holds the last events; the text and the tools shown only grow; a command reaches the daemon |
| Device auth, refresh | check-then-write without a transaction | one code, one decision, one grant; a client never loses its last refresh token |
| Stripe billing | redelivered and reordered events; `SET` of a balance others change | credits follow the plan whatever the delivery order |
| Handoffs | transitions without a status guard or the slug's lock; an event tail paged by the time transactions began | the events rebuild the queue; a replaced version is live only if revived; which events the timeline can miss |
| Chat | a resume races the end of the turn; two hooks write one row at its end, in either order; a cancel is polled; Redis and each save may fail | a reader who reaches Redis gets the stream or the answer; a charge means a stored answer; a cancel ends the stream |


## 3. Modules

```
SessionRuntime <-- SessionLens           TurnQueue (abstract)
                                           ^             ^   each refines it
EscrowLedger (abstract) <-- Escrow       LifedWs    InProcess
                                           ^-- AgentSession --^
SpecDocs <-- SpecDispatch                  (either, by the factory's choice)

Relay        (the server's side)         UserCredit (one balance)
RelayFeed    (the browser's side)          ^             ^
                                         ChatTurn     LifeRun
Handoffs                                   ^-- TurnCredits --^
```

An arrow `A <-- B` means that B extends or refines A. A module `M`, or the one
that composes it, has an `MCM.tla` that instantiates it for TLC. Theorems are in
eight modules: `SessionRuntime_proofs` is about the log and the lens that reads
it, `AgentSession_proofs` about both clients and the session behind the factory,
`SpecDocs_proofs` about the documents and their dispatch, `Relay_proofs` about
the server's side and the browser's, and `Escrow_proofs`, `TurnCredits_proofs`
and `Handoffs_proofs` about the module they are named after. `Totals` is the sum
of a function over a finite set, for the two modules that add up credits, and
`Totals_proofs` what it returns. A definition named like `NoAdvisoryLock` or `KeepFewer`, just
before the operator it resembles, is that operator with a plausible bug: no
module uses it, and PROJECT.json names the property that must fail when it
replaces the real one.

**SessionRuntime** (`lib/life-runtime/session-runtime.ts`, with the adapter and
the two routes under `app/api/life-proxy`). `buffer`, `nextSeq` and `waiters` are
the fields of `SessionState`; `st`, `at`, `from` and `got` say where a
`streamSession` generator is suspended and with what; `out` is what the SSE route
enqueued. `Connect`, `ReplayYield`, `Park`, `YieldLive`, `Abort` and `Finish` are
the pieces of the generator between two suspensions; `SendMessage`,
`RunResolved`, `Emit` and `PumpEnds` those of a turn. `GetOrCreateSession` seeds
the log inside the step that first touches the session, as the code does. The
contents of an envelope are its turn and its position in it.

**SessionLens** (`components/lenses/session/useSessionStream.ts`, the lens page
and prosopon's `applyEvent`) extends SessionRuntime with browser tabs. `url` is
the cursor frozen in the EventSource's URL, `lastSeq` and `scene` the reducer's
state. `Drop` loses what is on the wire, `Reconnect` is the browser's own retry,
`Hide`/`Show` the effect's cleanup and re-run on kept state, `ServerSeesClose` the
delayed abort of a connection nobody reads.

**TurnQueue** states what `agent-session/types.ts` promises of any client: the
messages of a session are served in order, each once, one turn at a time.

**LifedWs** (`lib/life-runtime/agent-session/lifed-ws-client.ts`) is one session
in either mode. `sock`, `closed` and `queue` belong to the socket's callbacks,
`isOpen`, `inFlight`, `pending` and `live` to the `LiveWsEntry`, `pc`, `out`,
`lastSeq`, `warned` and `finished` to the generator. `Open`, `Message`,
`TurnFinish`, `Closing`, `Closed` are the listeners; `SendMessage` and `Abort` the
callers; `Start` to `AfterFinal` the generator; `Drop` a consumer that leaves
early. `ws.send` may throw wherever it is called. The server sends frames only
while a turn runs, numbers them upwards, and may send a number that does not
parse.

**InProcess** (`lib/life-runtime/agent-session/in-process-client.ts`) is the same
for the agent that runs inside the server. `entries` is the one array of
`turnQueues`, which holds messages, or the waiter of a parked `nextFromQueue`;
`hand` is what its promise was resolved with, `exit` the `exitReason`. The finally
blocks, `TurnFinally` and `MultiFinally`, yield before they are over, so that a
consumer that leaves (`Drop`) can strand them. The runner is external: it yields,
says done, or throws.

**AgentSession** composes the two as `agent-session/factory.ts` does: `Backend` is
chosen from the environment and the override, and the caller sees the variables
the two share.

**Escrow** (`lib/db/marketplace.ts`, `app/api/marketplace/escrow/route.ts`).
`balance` and `status` are committed rows. A PATCH is `Patch` (the handler's own
lookup), then `SelectHeld`, `CreditOrg` and `Commit` for a settlement, or the
single conditional UPDATE `Dispute`; `Crash` rolls back. POST is one atomic step,
because its transaction updates one row conditionally and inserts another nobody
else can name yet. **EscrowLedger** is the ledger those handlers should be; `raced`
is history: the requests that met another one on their escrow.

**SpecDocs** (`lib/db/spec-doc-queries.ts`) is one (owner, handle). A transaction
opens with its UPDATE's snapshot in `todo`, takes one row lock after another
(`Supersede` looks at the row again, as READ COMMITTED does), and commits;
`mine` are the row locks it holds, `advisory` the advisory lock only
publishes take. `crowded` is history: transactions that ever overlapped another.

**SpecDispatch** adds `triggerSpecDoc` over the same rows: `lock` is its advisory
lock per version, `seen` what its SELECT returned, `runs` the run log. Its SELECT
asks that the row is not deleted and looks at `orchState`, not at the lifecycle:
a superseded or archived version can be dispatched, and in the model it is.

**Relay** is the output side of one relay session on the server
(`app/api/relay/events`, `.../sessions/[id]/stream`, `.../input`). `Event`,
`PushEvent`, `TrimReplay` and `CompleteSession` are the commands an event takes,
each of which may fail (`FailPost`); `OpenStream`, `ReadReplay` and `Subscribe`
are the stream request's. **RelayFeed** is the browser's side
(`lib/relay/relay-message-adapter.ts`, `components/relay/relay-chat-sync.tsx`):
`published` is what the session published so far, `handled` what this connection
delivered of it, `cur` the accumulator's message, `lag` the update the next
animation frame applies, `feed` the store. A message is two sections, its text
and then its tools, as `rebuildMessage` lays it out whichever came first
(`Extended`); a `turn_result` flushes nothing (`ShowNothing`). It takes from Relay what is proved there, that one
connection delivers in order and once; the two are separate because everything
between them is that sequence.

**UserCredit** (`lib/db/credits.ts`) is a balance with `canSpend`, which only chat
turns ask before they start, and `deductCredits`; no route here checks it before
a life run. **ChatTurn** (`app/(chat)/api/chat/route.ts`,
`[id]/stream/route.ts`, `stopStream`) is a turn from the credit gate to the
charge: `row` is the assistant message (with its activeStreamId or without),
`relay` the resumable stream's sentinel, `due` the throttled cancel check,
`hook` the after() hook of onError, which runs once the response is closed and so
before or after the answer is saved, `reader` a request that resumes. Redis may
be out of reach of the turn (`Unregistered`: the response is then the stream
itself) and of the reader (`ResumeUnreached`: no stream, and no second look). **LifeRun**
(`lib/life-runtime/canonical.ts`, `billing.ts`) is a run's row and the pump
generator, suspended wherever its consumer may leave it. **TurnCredits** lets
both draw on one balance.

**Handoffs** (`lib/db/handoff-queries.ts`, `app/api/handoffs`,
`app/maestro/queue`) is one slug's queue and its timeline. A push is `BeginPush`,
`Lock` (the advisory lock and max(version)), `Look` (its UPDATE's snapshot, the
rows in `todo`), `Supersede` for one row after another (`mine` are locked until it
commits) and `CommitPush`; a transition is `BeginMove` and `CommitMove`, which
waits for a row lock but takes no advisory lock. What a transaction writes is
visible when it commits but carries the time it began. `Render` is the page on
the server, `Mount` its first moment in a browser that found the timeline empty
and takes its own clock as cursor. `Poll` is one query of the event stream's drain
loop and `Receive` the browser's listener; cursors are JavaScript Dates, and
`Millis` is what they lose.

## 4. What is checked

| Run | Instance | Distinct states | What it shows |
|---|---|---|---|
| `session_log` | 2 connections, 2 turns, seed 1, buffer 3, 3 emits, cursor 1 | 183 872 | types; the buffer is a gapless tail; waiters match parked generators; per-connection order; a replay misses nothing below capacity; an aborted generator always ends |
| `lens_tabs` | 1 tab over 2 connections, 3 connects | 525 268 | the scene is clean until a retry, across hide and show; a retry's replay re-offers what was lost |
| `agent_turns` | both clients, both modes, 3 messages, frames to number 4 | 0.3 M | types; the gate is held while a message waits; one finish, last; nothing left open; what the in-process list accepts is kept; both clients implement TurnQueue; aborts end multi-turn sessions; waiting messages drain |
| `escrow_race` | 2 organisations, 3 escrows, 2 PATCHes at once, crashes | 25 k | no overdraft; settled iff paid; credits never lost; every step but the settlement of a raced request is the ledger's |
| `escrow_settled_once` | same | violated | finding 1 |
| `docs_board` | 3 versions, 2 transactions, 2 triggers, 2 runtimes | 1.3 M | versions append; a transaction that overlapped no other leaves its version alone active; one run per version; the mirror columns agree with the log |
| `docs_one_active` | 3 versions, 2 transactions | violated | finding 2 |
| `relay_stream` | 1 browser with 2 connections, 4 events, replay list of 2 | 147 k | delivery in order and once; the list ends with the last events pushed; a completed session's end was pushed; what the list holds when a browser connects is sent to it |
| `relay_feed` | 4 events of 6 kinds, 2 connections | 4.3 M | the text and the tools of the message being built are each the turn's, whole and in order; a late update only adds at the end of either |
| `credit_turns` | 1 turn, 1 reader, 1 run on 2 cents | 0.4 M | the balance is what was charged; a charge means a stored answer; an ended stream is not named; a reader who reaches Redis gets the stream or the answer, or a placeholder in one named case; a run's row tells its debit; a cancel ends the stream |
| `handoffs` | 2 rows, 2 writers, 4 transactions, batch of 2, a clock 1 tick off | 2.6 M | the events rebuild the queue; an older version is live only if revived since the newer's UPDATE looked; the timeline misses an event in four named cases only |
| `handoffs_burst` | 2 rows, 2 writers, 3 transactions, batch of 3 | violated | finding 3 |

Bounds, and why they are enough. *Session*: the seed and three emits overflow a
buffer of three, so eviction happens during and after a replay; two connections
are the least that compete for a wake-up and two turns the least that interleave.
The real buffer (500) and seed (5) matter only through `SeedCount <= MaxBuffer`
and through eviction. `lens_tabs` has a second connection slot so that a dead
connection's waiter outlives the tab's interest in it. *Agent*: three messages are
one in flight, one that waits, and one behind it; frame numbers up to four hold a
gap, a repeat and an unparseable number. *Escrow*: the amounts 20, 3 and 1 make
commission exact, rounded up, and the whole price, and an organisation can
afford its purchase only after being paid. More than two overlapping PATCHes
cannot do what two cannot, because a settlement looks at the row only twice.
*Docs*: two transactions are the least that overlap, three versions give an old,
a current and a new one, and two triggers name two runtimes for one version.
*Relay*: four events overflow a list of two before and after a reconnection;
browsers do not see each other, so one is enough. *Feed*: four events are a turn
opened, extended, ended, and something after it, under any reconnection, and two
texts with a tool between them. The run leaves out the kinds that add no case:
`user` differs from `alone` only in that the replay list does not hold it, and
`done` and `silent` only take a place in what was handled. *Credits*: the
opening balance lets a turn (2 cents) pass the gate, and with a run (3) it meets
the floor of -1. `MaxFrames` 2 lets frames repeat for ever.
*Handoffs*: four transactions are a version pushed, ended, and re-queued while the
push of the next is between its UPDATE and its commit; a push that supersedes and
a transition that overlaps it write three events, more than a batch of two (the
code's BATCH_LIMIT is 100; `handoffs_burst` also links, and has a batch of three);
`TicksPerMs` 2 puts one of two transactions between milliseconds, and a clock one
tick off can be on either side of an event. Permutations of interchangeable values are used as symmetry only in
runs without liveness. Runs switch off the deadlock check where the system
really stops: a quiet session, a settled market, a full handle.

Fairness. *SessionRuntime*: weak fairness of each generator. The SSE route pulls
in a loop without back-pressure, so a generator that can run is resumed; nothing
is assumed of turns or clients. *AgentSession*: of the generator of either client
(the consumer pulls to the end or leaves), of a connecting handshake (it opens or
fails), of the close event after closing, and of the runner and of lifed ending the
turns they were given; `PendingDrains` needs the last, `AbortEnds` would hold
without it. *Relay*: the commands of an
accepted stream request answer or fail. *RelayFeed*: animation frames come.
*TurnCredits*: a response is given, a frame comes or the frame deadline
(30 s) passes, a throttled check is made, and the end is gone through; nothing is
assumed of lifed ending a turn or of the 290 s timer. No fairness is assumed of
Escrow, SpecDocs and Handoffs, whose properties are safety.

### Findings

1. `lib/db/marketplace.ts:220`. "Lock and verify" takes no lock and the update is
   unconditional: two settlements both pay, and a settlement under way overwrites
   a dispute (`escrow_settled_once`).
2. `lib/db/spec-doc-queries.ts:496`. `restoreSpecDoc` takes no advisory lock; with
   a publish it leaves two active versions (`docs_one_active`).
3. `app/api/handoffs/events/route.ts:96`. The drain loop asks for the newest
   hundred events and then moves its cursor to the newest of them; of a longer
   burst the older part is never sent (`handoffs_burst`).

Three more places where a comment says what the code does not do are named as
exceptions in properties that pass, so the runs above show how far each goes:

4. `app/maestro/queue/queue-stream.tsx:47`. A page rendered with an empty timeline
   takes the browser's `new Date()` as its first cursor, and `events/route.ts:40`
   does the same without one. An event committed between the rendering and that
   moment, or behind a clock that is ahead, is never sent, where
   `events/route.ts:12-13` says the cursor is there "so no event is missed between
   SSR and the EventSource connecting". It is the fourth case of `FeedKeeps`
   (`start`).
5. `app/(chat)/api/chat/route.ts:998`. onError's hook forgets the stream's name
   without saving an answer, and `after()` runs once the response is closed, which
   a reader that has left does before onFinish saved it. One who comes back in
   between is sent the empty placeholder, where `[id]/stream/route.ts:176` says
   "Stream finished — send the finalized message". It is the exception of
   `ResumeAnswers` (`hook[t] = "early"`).
6. `lib/relay/relay-message-adapter.ts:216`. A `turn_result` returns without a
   flush, where the comment at 217 says "Turn completed — flush the current turn"
   and the one at 296-297 counts it as a boundary: two turns without a user input
   or an approval between them are one message. `TurnIsWhole` therefore counts from
   the last `Boundary`, which `"done"` is not. For the same reason text that follows
   a tool is not "append[ed] to current message" (183): `rebuildMessage` (341) puts
   it above the tool, so the two properties speak of a message's two sections.

Met while reading, and visible in the modules without a run of their own:

- *Session.* One `emit` wakes only the first waiter (`session-runtime.ts:110`): a
  second open tab gets the envelope when it reconnects. The reducer relies on an
  idempotent `applyEvent` (`useSessionStream.ts:35`), but `node_added` appends, so
  a retry repeats nodes; `SceneCleanUntilRetry` says exactly until when.
- *Agent clients.* A single in-process turn that aborts or throws after its first
  event ends without the finish that `types.ts` promises
  (`in-process-client.ts:300`).
- *Credits.* `billing.ts:162` returns the amount asked for, not what the floor let
  it take. A debit that fails while the client leaves at the envelope in between
  keeps `succeeded`, undebited; a client that leaves earlier keeps `streaming`. A
  failed registration leaves a message that names a stream for ever.
- *Relay.* An event published between the replay and the subscription reaches
  neither, against the route's own header. User input is not in the replay list.
  The history, when it answers late, replaces the message being streamed. A
  reconnection's replay shows again what was already shown.
- *Handoffs.* Deletes and visibility changes write no event, though
  `handoff-queries.ts` says each mutation does. A version that has ended and is
  re-queued between a later push's UPDATE and its commit stays live beside the new
  one, and the log reads restored, then pushed: a transition takes no advisory
  lock (`OlderIsRevived` says "since the UPDATE looked" for that reason). A push
  that waited for the lock carries an earlier time than the version it replaces.
  The cursor loses microseconds, so every poll sends the newest event again.

## 5. What is proved

TLAPS checks these for every value of the constants that satisfies the named
assumptions of the modules (the bounds are constants too, so they hold without
bounds). Each is `Spec => []Inv` by an inductive `IInv`: `Init => IInv`, one step
per action for `IInv /\ [Next]_vars => IInv'`, and `IInv => Inv`; the refinements
and action properties follow from the same invariant.

| Theorems | Module | Property |
|---|---|---|
| `TypeCorrect`, `RetentionCorrect`, `WaitersCorrect`, `OrderCorrect`, `ReplayCorrect` | SessionRuntime_proofs | `TypeOK`, `BufferIsTail`, `WaitersMatchParked`, `StreamInOrder`, `ReplayCompleteBelowCapacity` |
| of SessionLens `SceneCorrect`, `HealCorrect` | SessionRuntime_proofs | `SceneCleanUntilRetry`, `ReplayHealsTab` |
| of LifedWs `TypeCorrect`, `GateCorrect`, `FinishCorrect`, `SerialCorrect`, `ReleaseCorrect` | AgentSession_proofs | `TypeOK`, `GateHeldWhilePending`, `FinishOnceAndLast`, refinement of TurnQueue, `Released` |
| of InProcess `ServerTypeCorrect`, `MessagesKept`, `InProcessSerial`, `ServerFinishCorrect`, `ServerReleaseCorrect` | AgentSession_proofs | `TypeOK`, `NoMessageDropped`, refinement of TurnQueue, `FinishOnceAndLast`, `Released` |
| of AgentSession `AgentSerial`, `AgentKeepsMessages`, `AgentEnds`, `AgentHoldsLifed` | AgentSession_proofs | refinement of TurnQueue, `InProcessKeepsMessages`, `InProcessEnds`, and LifedWs's other four behind the factory |
| `TypeCorrect`, `PaidCorrect`, `LedgerCorrect`, `CreditsCorrect` | Escrow_proofs | `TypeOK`, `PaidIffSettled`, `LedgerKept`, `CreditsNeverLost` |
| `VersionsCorrect`, `SoleActiveCorrect`, of SpecDispatch `BudgetCorrect`, `MirrorCorrect`, `BoardKeepsLifecycle` | SpecDocs_proofs | `VersionsAppend`, `SoleActiveAfter`, `OneRunPerVersion`, `MirrorMatchesLog`, refinement of SpecDocs |
| `TypeCorrect`, `ReplayHoldsTheLast`, `CompletedWasPushed`, `OneConnectionInOrder` | Relay_proofs | `TypeOK`, `ReplayKeepsLast`, `CompletedIsReplayed`, `DeliveredInOrder` |
| of RelayFeed `ShownCorrect`, `TurnCorrect` | Relay_proofs | `ShownStays`, `TurnIsWhole` |
| `CreditsInvariant`, `TypeCorrect`, `ChargesCorrect`, `PlaceholderCorrect`, `ResumeCorrect`, `RunCorrect`, `BookedCorrect` | TurnCredits_proofs | the invariant, types, `ChargedIsStored`, `EndedNotResumable`, `ResumeAnswers`, `RowTellsDebit`, `CreditsBooked` |
| `ProjectionCorrect`, `RevivalCorrect`, `TimelineCorrect` | Handoffs_proofs | `ProjectionExact`, `OlderIsRevived`, `FeedKeeps` |

*SessionRuntime.* `StreamInOrder` alone is not inductive: it says nothing of what
a generator is about to yield. `CursorAhead` adds that everything already handed
to a connection lies below what it can be handed next: the envelope at its replay
index, the one its waiter was resolved with, or one not emitted yet. The case
that needs thought is an eviction during a replay. The index then stands for a
seq one higher, which can skip an envelope but never repeat one; that is also why
`ReplayCompleteBelowCapacity` excludes a full buffer. For that one the invariant is
`ReplaySoFar`, that a generator in its replay has yielded every retained envelope
before its index and after its cursor, as long as the buffer is not full. Assumption
used: `BoundsAssumption` (a seed fits the buffer).

*SessionLens.* `LInv` is the runtime's invariant and, for each tab, three facts:
what the scene holds lies below the next seq and not above `lastSeq` (`SceneSeen`);
the connection a tab holds is open, was opened with the tab's URL, and what the
tab read of it is in the scene (`HeldOpen`); and until a retry everything that
connection can still bring lies above the scene (`SceneAhead`, which has the same
three cases as `CursorAhead`). A retry breaks only the last, for its URL is older
than the scene. `ReplayHealsTab` combines `HeldOpen` with the runtime's
`ReplaySoFar`: what the URL asked for is in the scene, or on the wire.

*LifedWs.* `GateHeldWhilePending` and the refinement need to know where the end of
the last turn is: `OneBoundary` says that at most one FINISH is between the socket
and the consumer, and that while it is there the server owes nothing and the
gate is closed; `Gate` relates the gate to the turns ended; `InOrder` says that the
written messages are 1..n and the waiting ones continue them. Every step then
maps to a step of TurnQueue (with `ended <- served`) or to a stutter.
`FinishOnceAndLast` has an invariant of its own, `FinishInv`: the states from
which the generator only returns are exactly those in which `finish` was yielded.
`Released` has one too, `ReleaseInv`: the finally block has run in each of them.

*InProcess.* `ListInv` is `TypeInv`, `Stages` and `Counted`. `Parked` (in `TypeInv`)
says that the list holds a waiter exactly while the generator waits for it, and
then nothing else; `Stages` what is registered and started at each suspension;
`Counted` that the messages started, the one in hand and those listed are 1..n in
that order. An abort or a throw takes the sid out of the table before anything
can be accepted again, so nothing accepted while registered is passed over.

*AgentSession.* The environment chooses one client and the other never moves.
`AgentInv` says so: the chosen client satisfies its own invariant and the
variables of the other alone are as they were at first (`LifedIdle`,
`InServerIdle`), so a step of the session is a step of the chosen client and each
of its theorems carries over, the refinement of TurnQueue included.

*Escrow.* `PaidIffSettled` is inductive with the types. For the ledger,
`Met` says that two requests on one escrow are both in `raced`, and `StillHeld` that
what a request outside `raced` found held at its SELECT is still held at its
UPDATE; the second needs the first, for only another request on the same escrow
can change its status. Of raced requests it is false, which is finding 1.
No step makes the credits fewer (`NextCredits`): a purchase moves its amount into
the escrow, a settlement adds to an account no less than the escrow's holding
falls by, and nothing else touches either sum. Assumption used: `FinitelyMany`.

*Totals.* A sum is a fold, defined by CHOOSE of a function that satisfies its own
equation, so its proofs need two inductions: that such a function exists, over the
number of elements, and what it returns, over the subsets. The library's induction
theorems take a predicate as a parameter, which no installed prover instantiates;
here a set stands for the predicate (`NatsByInduction`, `SubsetsByInduction`), and
the first rests on the library's `WFMin` for the order of the naturals. What the
users cite is `TotalChanges`: a function changed at one element has a total changed
by the difference there.

*SpecDocs.* A publish that is open holds the advisory lock and its number is still
next (`PublishNext`); rows are 1..n (`Contiguous`); a transaction nobody has
overlapped is alone, and every active row is its target, superseded by it, or on
its list (`AloneCovers`). The last implies the action property.

*SpecDispatch.* What a transaction read stays true while it holds the lock
(`LockedFresh`): publishes, restores and deletes change rows but never their
dispatch columns. A trigger changes nothing of SpecDocs, so its theorems carry over.

*Relay.* The list is a suffix of what was pushed, its length at least the
smaller of ReplaySize and all; what was pushed increases, since a batch is
served event by event; what a connection holds is below what the channel can
still bring it. A failure between the commands only leaves the list longer.

*RelayFeed.* `ShownStays` needs that no two messages of the store share an id and
that both the accumulator's message and the update that waits for a frame extend
both sections of the message of their id (`UpdatesCover`), so replacing by id can
only add at the end of either. For `TurnIsWhole` the invariant adds that what a
connection delivered is in order, and that a message is being built exactly while
an event that opens one has come since the last boundary; each kind of event then
changes the turn's texts, its tools, both or neither.

*TurnCredits.* `TurnInv` ties a turn's charge, row and sentinel to where its
function is: only a turn that saved its answer comes to be charged, only one that
closed has a sentinel that says done. `ReaderInv` says what a reader that reached
Redis and saw no live stream knows: the turn had ended, or was never registered;
in the first case its second look finds the answer, unless the turn lost it. A row
without a stream's name holds the answer, or the hook was early. `RunInv` does the same for a run's row and its debit. Both
parts leave the other's variables alone except the balance, which no
invariant but `CreditsBooked` reads. For that one the algebra is `FlooredOnce`:
amounts taken off one after the other, each time floored at the overdraft, leave
what taking off their sum and flooring once does. The only steps that change
either side are `Charge` and a run's `Settle` (`TurnMoney`, `RunMoney`), and each
adds to its sum what it takes. Assumptions used: `CreditAssumption` (the balance
opens at the floor or above) and `FinitelyMany`.

*Handoffs.* `LastEvent` is `ProjectionExact` with the last event as a witness. It and
`OlderIsRevived` are inductive together with what holds of an open push (`PushOk`): one at a
time has the advisory lock, its version is above every one there is, and every
earlier row was ended or revived since its snapshot, is still in `todo`, or is in
`mine`, where its row lock keeps transitions and deletes away until the commit. The
timeline needs the times: each transaction has one of its own (`OwnTimes`), so an event behind
the cursor when it commits is behind an event of another, earlier committed
transaction, which is the case named `Late`, or behind `start`, the clock of a page
that was rendered empty. `WireInv` says that the frames under way
are ahead of the browser's cursor and in order, or stand on its very millisecond,
which is the only way a broken connection loses one.

Model-checked only: the liveness properties `AbortEndsStream`, `AbortEnds`,
`PendingDrains`, `ReplayReaches` and `CancelStops`. TLAPS has no rules for the
ENABLED that fairness stands on. Every other property a passing run checks is a
theorem above.

## 6. What is abstracted, and what is not modelled

Abstracted in the modules above: contents of envelopes, frames, messages and
documents; authentication and ownership checks, which reject a request before it
changes anything; audit logs, run events and metrics; time (a timeout may fire
whenever it is set). Session state is per process: a restart empties it and is
listed as a hazard. SessionLens applies `node_added` only, the event kind the
seed emits. The agent clients are one session per sid; `createSession` and
`health` are single calls. Visibility of documents and of handoffs is a column no
other operation reads for the owner. ChatTurn leaves out anonymous chats (their
credits are a cookie), the Arcan path of the stream route, tools, titles, and a
cancel check whose read fails; LifeRun leaves out the VM handle and the
payment policy's choice of mode. RelayFeed's history stands as one message.
Handoffs leaves out the list queries and the cap of the merged timeline; its
browser loads the page once, since a page loaded again is another browser.

Not modelled yet, or not at all: PROJECT.json gives every other component with its
reason. In short, the relay's command side, device authorization, Stripe, the
edge adapter, rate limits, the journal cache and the CLI's clients are in the
plan below; routes that only read or proxy, token verification, generated
clients, domain packages and UI are out of scope: they keep no state that two
requests could disagree about. They are also most of the repository's lines.

## 7. Plan

In order of weight; each module with its abstract specification, run and
theorem.

1. **RelayCommands**: spawn, input and approve as writers of the command list, the
   poll that pops before it answers, one daemon (the CLI's lightweight one), and
   the one-shot fs and history requests with their timeout. Property: a request
   ends; a command is delivered at most once, and what becomes of a lost one.
2. **DeviceAuth**: code, authorize, token, refresh with crashes. Abstract: one
   decision and one grant per code. Two polls, two decisions.
3. **OrgCredits**: Stripe's deliveries (reordered, repeated) composed with
   EscrowLedger on one balance. Property: credits promised by the plan plus
   credits moved by escrows account for the balance.
4. **EdgeDeadline**: the frame deadline over LifedWs, whose iterator it never
   returns; two streams under one sid; resumption with `from_sequence`.
5. **RateLimit** (get, incr and expire are three commands), **JournalCache**, and
   the CLI's reconnecting stream as a client of the session runtime, with an
   incarnation per session for the restarts section 6 leaves out.
6. Proofs: an invariant for each new module as it comes, and of the liveness
   properties the part that is not temporal, that a waiting state always has the
   step that ends the wait and that no other step puts it off.

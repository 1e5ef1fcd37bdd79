------------------------------ MODULE Handoffs ------------------------------
(***************************************************************************)
(* One owner's queue of handoffs of one slug, and the timeline of its      *)
(* events that a browser tails (lib/db/handoff-queries.ts,                 *)
(* app/api/handoffs, app/maestro/queue).  Every push or transition is a    *)
(* Postgres transaction at READ COMMITTED: its events carry the time it    *)
(* BEGAN (now()), and become visible, all at once, when it commits.  The   *)
(* server-sent stream polls for the events after a cursor; the cursor is a *)
(* JavaScript Date, which keeps milliseconds where Postgres compares       *)
(* microseconds.  A clock tick stands for a part of a millisecond, and a   *)
(* transaction begins at each.  A row an open transaction has updated is   *)
(* locked: another UPDATE of it waits, and then looks at it again.         *)
(***************************************************************************)
EXTENDS Integers, SequencesExt

CONSTANTS
    Ids,       \* handoff ids a push may take
    Writers,   \* requests at work at a time
    Batch,     \* BATCH_LIMIT
    MaxTx,     \* bound: transactions begun
    MaxLinks,  \* bound: specs a push links
    Backlog,   \* bound: frames under way when the stream polls again
    Drift      \* ticks the browser's clock is ahead or behind at most

ASSUME HandoffAssumption ==
    /\ IsFiniteSet(Ids) /\ Ids # {}
    /\ Batch \in Nat \ {0} /\ MaxTx \in Nat
    /\ MaxLinks \in Nat /\ Backlog \in Nat
    /\ Drift \in Nat

TicksPerMs == 2

VARIABLES
    clock,   \* transactions begun: each has a time of its own
    tx,      \* the transaction each request has open
    row,     \* the Handoff table
    log,     \* the HandoffEvent table, in the order of commit
    looked,  \* history: length of log when a row's push began to supersede
    page,    \* the browser's page: "unrendered", "blank" (rendered with an
             \* empty timeline, not yet running) or "open"
    client,  \* cursorRef: the browser's cursor, kept over reconnects
    feed,    \* cursor of the open stream, or Off
    wire,    \* events sent and not yet received, as indices of log
    seen,    \* events the browser has been given after the rendering
    rendered,\* history: length of log when the page was rendered
    start,   \* history: the first cursor of a page rendered empty, or Off
    burst    \* history: events a poll left out for its LIMIT

tableVars == <<clock, tx, row, log, looked>>
pageVars == <<page, rendered, start>>
feedVars == <<pageVars, client, feed, wire, seen, burst>>
vars == <<tableVars, feedVars>>

Off == -1
Times == 1..MaxTx
Live == {"queued", "in_progress"}
Status == Live \union {"done", "archived", "superseded"}

(* TRANSITIONS: the status an action leads to, and the status each event     *)
(* announces ("linked" announces none).                                      *)
Target == [pick_up |-> "in_progress", complete |-> "done",
           archive |-> "archived", requeue |-> "queued"]
EventOf == [pick_up |-> "picked_up", complete |-> "completed",
            archive |-> "archived", requeue |-> "restored"]
Announces == [pushed |-> "queued", superseded |-> "superseded",
              picked_up |-> "in_progress", completed |-> "done",
              archived |-> "archived", restored |-> "queued"]

Idle == [op |-> "none"]
Push(at) == [op |-> "push", at |-> at, version |-> 0,
             snap |-> Off,   \* length of log when the UPDATE took its snapshot
             todo |-> {},    \* rows the UPDATE has still to lock
             mine |-> {}]    \* rows it has updated, locked until it commits
NoRow == [version |-> 0, status |-> "none", deleted |-> FALSE]
Exists(h) == row[h].version > 0
Event(h, kind, at) == [h |-> h, kind |-> kind, at |-> at]

Init ==
    /\ clock = 0 /\ tx = [w \in Writers |-> Idle]
    /\ row = [h \in Ids |-> NoRow] /\ log = <<>>
    /\ looked = [h \in Ids |-> 0]
    /\ page = "unrendered" /\ rendered = 0 /\ start = Off
    /\ client = 0 /\ feed = Off /\ wire = <<>>
    /\ seen = {} /\ burst = {}

-----------------------------------------------------------------------------
(* The writers.                                                              *)

Begins(w, t) ==
    /\ tx[w] = Idle /\ clock < MaxTx
    /\ clock' = clock + 1
    /\ tx' = [tx EXCEPT ![w] = t]
    /\ UNCHANGED <<row, log, looked, feedVars>>

(* What a transaction writes is seen when it commits.                        *)
Commits(w, table, events) ==
    /\ tx' = [tx EXCEPT ![w] = Idle]
    /\ row' = table
    /\ log' = log \o events
    /\ UNCHANGED <<clock, feedVars>>

(* pushHandoff opens its transaction and waits for the slug's advisory lock. *)
BeginPush(w) == Begins(w, Push(clock + 1))

NoLock == TRUE
LockFree == \A v \in Writers : tx[v].op = "push" => tx[v].version = 0

(* With the lock it reads max(version), so the version it will insert.       *)
Lock(w) ==
    /\ tx[w].op = "push" /\ tx[w].version = 0
    /\ LockFree
    /\ tx' = [tx EXCEPT ![w].version = 1 + Max({row[h].version : h \in Ids})]
    /\ UNCHANGED <<clock, row, log, looked, feedVars>>

Replaceable(h) == Exists(h) /\ row[h].status \in Live /\ ~row[h].deleted

(* UPDATE ... RETURNING, unless this is the first version: its snapshot has  *)
(* the rows to supersede ...                                                 *)
Look(w) ==
    /\ tx[w].op = "push" /\ tx[w].version > 0 /\ tx[w].snap = Off
    /\ tx' = [tx EXCEPT ![w].snap = Len(log),
                        ![w].todo = {h \in Ids : tx[w].version > 1 /\ Replaceable(h)}]
    /\ UNCHANGED <<clock, row, log, looked, feedVars>>

(* No push has updated the row and not yet committed.                        *)
RowFree(h) == \A v \in Writers : tx[v].op = "push" => h \notin tx[v].mine

(* ... and it locks them one by one, passing over a row that no longer       *)
(* matches.  A transition of a row it does not hold may commit meanwhile: it *)
(* takes no advisory lock.                                                   *)
Supersede(w, h) ==
    /\ tx[w].op = "push" /\ h \in tx[w].todo /\ RowFree(h)
    /\ tx' = [tx EXCEPT ![w].todo = @ \ {h},
                        ![w].mine = @ \union {k \in {h} : Replaceable(k)}]
    /\ UNCHANGED <<clock, row, log, looked, feedVars>>

(* The events about the replaced rows are made from what the UPDATE returns. *)
EveryVersion(t) == {h \in Ids : t.version > 1 /\ Exists(h) /\ ~row[h].deleted}
Announced(t) == t.mine

(* It inserts the new row and the events, and commits.                       *)
CommitPush(w, h, links) ==
    /\ tx[w].op = "push" /\ tx[w].snap # Off /\ tx[w].todo = {}
    /\ ~Exists(h)
    /\ LET t == tx[w]
       IN  /\ \E replaced \in SetToSeqs(Announced(t)) :
                 Commits(w,
                   [k \in Ids |->
                       IF k = h THEN [version |-> t.version, status |-> "queued",
                                      deleted |-> FALSE]
                       ELSE IF k \in t.mine
                            THEN [row[k] EXCEPT !.status = "superseded"] ELSE row[k]],
                   [i \in DOMAIN replaced |-> Event(replaced[i], "superseded", t.at)]
                     \o <<Event(h, "pushed", t.at)>>
                     \o [i \in 1..links |-> Event(h, "linked", t.at)])
           /\ looked' = [looked EXCEPT ![h] = t.snap]

(* transitionHandoff reads that the row is there and not deleted ...         *)
BeginMove(w, h, action) ==
    /\ Exists(h) /\ ~row[h].deleted
    /\ Begins(w, [op |-> "move", at |-> clock + 1, h |-> h, action |-> action])

(* ... and then updates it by its id alone, whatever has become of it.       *)
CommitMove(w) ==
    /\ tx[w].op = "move" /\ RowFree(tx[w].h)
    /\ LET t == tx[w]
       IN  Commits(w, [row EXCEPT ![t.h].status = Target[t.action]],
                   <<Event(t.h, EventOf[t.action], t.at)>>)
    /\ UNCHANGED looked

(* A statement fails and the transaction is rolled back.                     *)
Rollback(w) == tx[w] # Idle /\ Commits(w, row, <<>>) /\ UNCHANGED looked

(* softDeleteHandoff: one UPDATE, and no event.                              *)
Delete(h) ==
    /\ Exists(h) /\ ~row[h].deleted /\ RowFree(h)
    /\ row' = [row EXCEPT ![h].deleted = TRUE]
    /\ UNCHANGED <<clock, tx, log, looked, feedVars>>

-----------------------------------------------------------------------------
(* The timeline's stream.                                                    *)

(* What new Date() keeps of a createdAt.                                     *)
Millis(at) == at - (at % TicksPerMs)

(* The page is rendered with the timeline of the moment, whose newest event  *)
(* is the browser's first cursor ...                                         *)
Render ==
    /\ page = "unrendered"
    /\ rendered' = Len(log)
    /\ \/ log = <<>> /\ page' = "blank" /\ UNCHANGED client
       \/ /\ page' = "open"
          /\ \E i \in DOMAIN log : /\ \A j \in DOMAIN log : log[j].at <= log[i].at
                                  /\ client' = Millis(log[i].at)
    /\ UNCHANGED <<tableVars, start, feed, wire, seen, burst>>

(* ... and if it is empty, the browser's own new Date() when it begins to    *)
(* run the page.                                                             *)
Mount ==
    /\ page = "blank"
    /\ \E now \in (clock - Drift)..(clock + Drift) :
         now >= 0 /\ client' = Millis(now) /\ start' = Millis(now)
    /\ page' = "open"
    /\ UNCHANGED <<tableVars, rendered, feed, wire, seen, burst>>

Due(cursor) == {i \in DOMAIN log : log[i].at > cursor}

(* ORDER BY createdAt DESC LIMIT Batch: rows of one time in any order.       *)
Newest(due) ==
    {b \in kSubset(Min({Batch, Cardinality(due)}), due) :
        \A i \in b, j \in due \ b : log[i].at >= log[j].at}

NewestFirst(b) ==
    {s \in SetToSeqs(b) : \A i, j \in DOMAIN s : i < j => log[s[i]].at >= log[s[j]].at}
OldestFirst(b) ==
    {s \in SetToSeqs(b) : \A i, j \in DOMAIN s : i < j => log[s[i]].at <= log[s[j]].at}

(* The browser opens the stream with the cursor it has.                      *)
Connect ==
    /\ page = "open" /\ feed = Off
    /\ feed' = client
    /\ UNCHANGED <<tableVars, pageVars, client, wire, seen, burst>>

(* One query of the drain loop: the batch is sent oldest first and the       *)
(* cursor set to its newest event, a full batch being followed at once by    *)
(* another query, any other after POLL_MS.                                   *)
Poll ==
    /\ feed # Off /\ Len(wire) <= Backlog
    /\ Due(feed) # {}
    /\ \E b \in Newest(Due(feed)) :
         /\ \E s \in OldestFirst(b) : wire' = wire \o s
         /\ feed' = Millis(Max({log[i].at : i \in b}))
         /\ burst' = burst \union (Due(feed) \ b)
    /\ UNCHANGED <<tableVars, pageVars, client, seen>>

(* The "handoff" listener: the cursor follows the frame.                     *)
Receive ==
    /\ wire # <<>>
    /\ client' = Millis(log[Head(wire)].at)
    /\ seen' = seen \union {Head(wire)}
    /\ wire' = Tail(wire)
    /\ UNCHANGED <<tableVars, pageVars, feed, burst>>

(* The connection breaks or a query fails, and what is under way is lost;    *)
(* at the stream's lifetime it ends with nothing under way.                  *)
Cut ==
    /\ feed # Off
    /\ feed' = Off /\ wire' = <<>>
    /\ UNCHANGED <<tableVars, pageVars, client, seen, burst>>

-----------------------------------------------------------------------------
WriterStep ==
    \/ \E w \in Writers :
         BeginPush(w) \/ Lock(w) \/ Look(w) \/ CommitMove(w) \/ Rollback(w)
    \/ \E w \in Writers, h \in Ids : Supersede(w, h)
    \/ \E w \in Writers, h \in Ids, n \in 0..MaxLinks : CommitPush(w, h, n)
    \/ \E w \in Writers, h \in Ids, a \in DOMAIN Target : BeginMove(w, h, a)
    \/ \E h \in Ids : Delete(h)

FeedStep == Render \/ Mount \/ Connect \/ Poll \/ Receive \/ Cut

Next == WriterStep \/ FeedStep

Spec == Init /\ [][Next]_vars

-----------------------------------------------------------------------------
(* Properties.                                                               *)

EventsOf(h) == {i \in DOMAIN log : log[i].h = h /\ log[i].kind # "linked"}
PushOf(h) == {i \in EventsOf(h) : log[i].kind = "pushed"}

(* The queue can be rebuilt from its events: read in the order in which they *)
(* were committed, the last event of a handoff announces the status its row  *)
(* has, though pushes and transitions of the same rows overlap               *)
(* (handoff-queries.ts: the event is inserted in the mutation's transaction).*)
ProjectionExact ==
    \A h \in Ids :
        IF Exists(h) THEN row[h].status = Announces[log[Max(EventsOf(h))].kind]
                     ELSE EventsOf(h) = {}

(* Of two pushes of the slug the one committed later replaces the earlier:   *)
(* the earlier is queued or in progress only if someone picked it up or      *)
(* re-queued it after the later's UPDATE took its snapshot (the advisory     *)
(* lock and the superseding UPDATE).  Not "after the later was committed":   *)
(* a version that had ended is re-queued without that lock, between the      *)
(* UPDATE and the commit, and both are then live.                            *)
OlderIsRevived ==
    \A h, k \in Ids :
        \A i \in PushOf(h), j \in PushOf(k) :
            i < j /\ row[h].status \in Live /\ ~row[h].deleted =>
                \E m \in EventsOf(h) :
                    m > looked[k] /\ log[m].kind \in {"picked_up", "restored"}

Late(i) == \E j \in DOMAIN log : j < i /\ log[j].at > log[i].at
OnTheMillisecond(i) ==
    /\ log[i].at = Millis(log[i].at)
    /\ \E j \in DOMAIN log \ {i} : log[j].at = log[i].at

Cursor == IF feed = Off THEN client ELSE feed

Kept(i) ==
    \/ i \in seen \/ i \in ToSet(wire) \/ i \in Due(Cursor)
    \/ Late(i) \/ i \in burst \/ OnTheMillisecond(i)

(* The timeline misses an event committed after the page was rendered in     *)
(* four cases only: its transaction committed after one that began later; a  *)
(* poll met more events than its LIMIT; events of one transaction stand on a *)
(* whole millisecond and the connection broke between them; or the page was  *)
(* rendered empty and its first cursor, the browser's clock, is not before   *)
(* the event, whatever events/route.ts says of it ("so no event is missed     *)
(* between SSR and the EventSource connecting").  Every other event is       *)
(* shown, under way or still ahead of the cursor, over any number of broken  *)
(* connections.                                                              *)
FeedKeeps ==
    page = "open" =>
        \A i \in DOMAIN log : i > rendered => Kept(i) \/ log[i].at <= start

(* What events/route.ts says of its drain loop: events that one poll leaves  *)
(* out, there being more than BATCH_LIMIT, are not skipped: they are still   *)
(* ahead of the cursor, or shown.                                            *)
BurstKept == \A i \in burst : i \in seen \/ i \in ToSet(wire) \/ i \in Due(Cursor)
=============================================================================

---------------------------- MODULE Handoffs_proofs ----------------------------
(***************************************************************************)
(* The queue and the timeline of handoffs, for any number of handoffs,     *)
(* writers and transactions and any batch of the event stream.             *)
(***************************************************************************)
EXTENDS Handoffs, FiniteSetTheorems, TLAPS

(* Appending sequences: lengths and elements. *)
LEMMA ConcatFacts ==
    ASSUME NEW S, NEW s \in Seq(S), NEW t \in Seq(S)
    PROVE  /\ s \o t \in Seq(S)
           /\ Len(s) \in Nat /\ Len(t) \in Nat
           /\ Len(s \o t) = Len(s) + Len(t)
           /\ \A i \in 1..Len(s) : (s \o t)[i] = s[i]
           /\ \A i \in 1..Len(t) : (s \o t)[Len(s) + i] = t[i]
  OBVIOUS

LEMMA TailFacts ==
    ASSUME NEW S, NEW s \in Seq(S), s # <<>>
    PROVE  /\ Tail(s) \in Seq(S) /\ Head(s) = s[1] /\ Head(s) \in S
           /\ Len(s) \in Nat \ {0} /\ Len(Tail(s)) = Len(s) - 1
           /\ \A i \in 1..Len(Tail(s)) : Tail(s)[i] = s[i + 1]
  OBVIOUS

(* A sequence of SetToSeqs has every element of the set, once. *)
LEMMA SeqOfSet ==
    ASSUME NEW S, IsFiniteSet(S), NEW s \in SetToSeqs(S)
    PROVE  /\ s \in Seq(S) /\ Len(s) = Cardinality(S) /\ Len(s) \in Nat
           /\ DOMAIN s = 1..Len(s)
           /\ \A i \in 1..Len(s) : s[i] \in S
           /\ \A i, j \in 1..Len(s) : i # j => s[i] # s[j]
           /\ \A e \in S : \E i \in 1..Len(s) : s[i] = e
<1> DEFINE n == Cardinality(S)
<1>1. n \in Nat
  BY FS_CardinalityType
<1>2. s \in [1..n -> S] /\ \A i, j \in 1..n : i # j => s[i] # s[j]
  BY DEF SetToSeqs
<1>3. s \in Injection(1..n, S)
  BY <1>2 DEF Injection, IsInjective
<1>4. IsFiniteSet(1..n) /\ Cardinality(1..n) = n
  BY <1>1, FS_Interval
<1>5. s \in Surjection(1..n, S)
  BY <1>3, <1>4, FS_Injection
<1>6. \A e \in S : \E i \in 1..n : s[i] = e
  BY <1>5 DEF Surjection
<1>7. s \in Seq(S) /\ Len(s) = n
  BY <1>1, <1>2
<1>. QED
  BY <1>1, <1>2, <1>6, <1>7

(* The greatest element, when one is known. *)
LEMMA MaxIs ==
    ASSUME NEW S, NEW x \in S, \A y \in S : y \in Int /\ y <= x
    PROVE  Max(S) = x
<1>1. \A y \in S : x >= y
  OBVIOUS
<1>2. Max(S) \in S /\ \A y \in S : Max(S) >= y
  BY <1>1 DEF Max
<1>. QED
  BY <1>2

LEMMA SeqWiden ==
    ASSUME NEW S, NEW T, S \subseteq T, NEW s \in Seq(S)
    PROVE  s \in Seq(T)
  OBVIOUS

LEMMA Upto == \A n \in Nat : \A k \in 1..n : n \in 1..n /\ (k < n \/ k = n)
  OBVIOUS

LEMMA MillisFacts ==
    /\ \A a \in Nat : Millis(a) \in Nat /\ Millis(a) <= a /\ Millis(Millis(a)) = Millis(a)
    /\ \A a, b \in Nat : a <= b => Millis(a) <= Millis(b)
    /\ Millis(0) = 0
  BY DEF Millis, TicksPerMs

-------------------------------------------------------------------------------
(* The invariant of the tables: types, what an open transaction knows, the   *)
(* greatest version there is, the last event of each handoff.                *)

Rows == [version: Nat, status: Status \union {"none"}, deleted: BOOLEAN]
Events == [h: Ids, kind: DOMAIN Announces \union {"linked"}, at: Nat]
Pushes == [op: {"push"}, at: Nat, version: Nat, snap: Nat \union {Off},
           todo: SUBSET Ids, mine: SUBSET Ids]
Moves == [op: {"move"}, at: Nat, h: Ids, action: DOMAIN Target]

TableTypes ==
    /\ clock \in Nat
    /\ tx \in [Writers -> {Idle} \union Pushes \union Moves]
    /\ row \in [Ids -> Rows]
    /\ log \in Seq(Events)
    /\ looked \in [Ids -> Nat]

Locked(w) == tx[w].op = "push" /\ tx[w].version > 0

OpenTx ==
    /\ \A w \in Writers : tx[w].op = "move" => Exists(tx[w].h)
    /\ \A w \in Writers, h \in Ids : Locked(w) => row[h].version < tx[w].version
    /\ \A v, w \in Writers : Locked(v) /\ Locked(w) => v = w
    /\ \E g \in Ids : \A h \in Ids : row[h].version <= row[g].version

LastEvent(h) ==
    IF Exists(h)
    THEN \E i \in EventsOf(h) :
            /\ \A j \in EventsOf(h) : j <= i
            /\ row[h].status = Announces[log[i].kind]
    ELSE EventsOf(h) = {}

(* What a push at work knows: the rows it has updated are still live, and    *)
(* every other live row it has still to lock, or was revived after its       *)
(* UPDATE took its snapshot.                                                 *)
Revived(h, n) ==
    \E m \in EventsOf(h) : m > n /\ log[m].kind \in {"picked_up", "restored"}

PushOk(w) ==
    /\ tx[w].version = 0 => tx[w].snap = Off
    /\ tx[w].snap = Off => tx[w].todo = {} /\ tx[w].mine = {}
    /\ tx[w].snap <= Len(log)
    /\ \A h \in tx[w].mine : Replaceable(h)
    /\ tx[w].snap # Off =>
          \A h \in Ids : Replaceable(h) =>
             h \in tx[w].todo \union tx[w].mine \/ Revived(h, tx[w].snap)

PushesOk == \A w \in Writers : tx[w].op = "push" => PushOk(w)

TableInv ==
    /\ TableTypes
    /\ OpenTx
    /\ PushesOk
    /\ \A h \in Ids : LastEvent(h)
    /\ \A h \in Ids : looked[h] <= Len(log)
    /\ OlderIsRevived

(* The invariant of the timeline: each transaction has a time of its own,    *)
(* the cursor of an open page is the millisecond of some event or the first  *)
(* cursor of a page rendered empty, and what is on the wire is sorted and    *)
(* not behind the browser's cursor.                                          *)

OwnTimes ==
    /\ \A i \in DOMAIN log : 1 <= log[i].at /\ log[i].at <= clock
    /\ \A w \in Writers : tx[w].op # "none" =>
          /\ 1 <= tx[w].at /\ tx[w].at <= clock
          /\ \A i \in DOMAIN log : log[i].at # tx[w].at
          /\ \A v \in Writers \ {w} : tx[v].op # "none" => tx[v].at # tx[w].at

Shown(c) == c = start \/ \E j \in DOMAIN log : c = Millis(log[j].at)

PageInv ==
    /\ rendered \in Nat /\ rendered <= Len(log)
    /\ start \in Nat \union {Off} /\ (start # Off => Millis(start) = start)
    /\ page \in {"unrendered", "blank", "open"}
    /\ page # "open" => feed = Off /\ wire = <<>>
    /\ page = "blank" => rendered = 0

WireInv ==
    /\ wire \in Seq(Nat)
    /\ feed = Off => wire = <<>>
    /\ \A k \in 1..Len(wire) :
          LET i == wire[k]
          IN  /\ i \in DOMAIN log
              /\ Millis(log[i].at) <= feed
              /\ client < log[i].at \/ (client = log[i].at /\ OnTheMillisecond(i))
    /\ \A k, l \in 1..Len(wire) : k < l =>
          \/ Millis(log[wire[k]].at) < log[wire[l]].at
          \/ Millis(log[wire[k]].at) = log[wire[l]].at /\ OnTheMillisecond(wire[l])

FeedInv ==
    /\ PageInv
    /\ client \in Nat /\ (page = "open" => Shown(client))
    /\ feed \in Nat \union {Off}
    /\ feed # Off => Shown(feed) /\ client <= feed
    /\ WireInv
    /\ FeedKeeps

-------------------------------------------------------------------------------
(* The tables *)

(* What the table of the transitions says. *)
LEMMA ActionFacts ==
    /\ \A a \in DOMAIN Target :
          /\ Target[a] \in Status /\ EventOf[a] \in DOMAIN Announces
          /\ EventOf[a] # "linked" /\ EventOf[a] # "pushed"
          /\ Announces[EventOf[a]] = Target[a]
          /\ Target[a] \in Live => EventOf[a] \in {"picked_up", "restored"}
    /\ {"pushed", "superseded"} \subseteq DOMAIN Announces
    /\ Announces["pushed"] = "queued" /\ Announces["superseded"] = "superseded"
  BY DEF Target, EventOf, Announces, Status, Live

(* The kinds of a transaction are told apart by their op. *)
LEMMA TxFacts ==
    ASSUME TableTypes, NEW w \in Writers
    PROVE  /\ tx[w].op = "push" <=> tx[w] \in Pushes
           /\ tx[w].op = "move" <=> tx[w] \in Moves
           /\ tx[w].op = "none" <=> tx[w] = Idle
  BY DEF TableTypes, Pushes, Moves, Idle

(* Events appended to the log: the old ones stay where they are. *)
Extends(ev) ==
    /\ log' \in Seq(Events)
    /\ Len(log) \in Nat /\ Len(ev) \in Nat /\ Len(log') = Len(log) + Len(ev)
    /\ DOMAIN log = 1..Len(log) /\ DOMAIN log' = 1..Len(log')
    /\ \A i \in 1..Len(log) : log'[i] = log[i]
    /\ \A i \in 1..Len(ev) : log'[Len(log) + i] = ev[i]
    /\ \A h : EventsOf(h) \subseteq 1..Len(log) /\ EventsOf(h) \subseteq EventsOf(h)'
    /\ \A h : \A m \in EventsOf(h)' :
          \/ m \in EventsOf(h)
          \/ \E i \in 1..Len(ev) :
                m = Len(log) + i /\ ev[i].h = h /\ ev[i].kind # "linked"
    /\ \A i \in 1..Len(ev) :
          ev[i].kind # "linked" => Len(log) + i \in EventsOf(ev[i].h)'

LEMMA Appended ==
    ASSUME TableTypes, NEW ev \in Seq(Events), log' = log \o ev
    PROVE  Extends(ev)
<1>1. /\ log' \in Seq(Events)
      /\ Len(log) \in Nat /\ Len(ev) \in Nat /\ Len(log') = Len(log) + Len(ev)
      /\ \A i \in 1..Len(log) : log'[i] = log[i]
      /\ \A i \in 1..Len(ev) : log'[Len(log) + i] = ev[i]
  BY ConcatFacts DEF TableTypes
<1>2. DOMAIN log = 1..Len(log) /\ DOMAIN log' = 1..Len(log')
  BY <1>1 DEF TableTypes
<1>3. \A h : EventsOf(h) \subseteq 1..Len(log) /\ EventsOf(h) \subseteq EventsOf(h)'
  BY <1>1, <1>2 DEF EventsOf
<1>4. ASSUME NEW h, NEW m \in EventsOf(h)'
      PROVE  \/ m \in EventsOf(h)
             \/ \E i \in 1..Len(ev) :
                   m = Len(log) + i /\ ev[i].h = h /\ ev[i].kind # "linked"
  <2>1. m \in 1..Len(log') /\ log'[m].h = h /\ log'[m].kind # "linked"
    BY <1>2 DEF EventsOf
  <2>2. CASE m <= Len(log)
    BY <1>1, <1>2, <2>1, <2>2 DEF EventsOf
  <2>3. CASE m > Len(log)
    <3>1. m - Len(log) \in 1..Len(ev) /\ m = Len(log) + (m - Len(log))
      BY <1>1, <2>1, <2>3
    <3>. QED
      BY <1>1, <2>1, <3>1
  <2>. QED
    BY <1>1, <2>1, <2>2, <2>3
<1>5. ASSUME NEW i \in 1..Len(ev), ev[i].kind # "linked"
      PROVE  Len(log) + i \in EventsOf(ev[i].h)'
  <2>1. Len(log) + i \in 1..Len(log') /\ log'[Len(log) + i] = ev[i]
    BY <1>1
  <2>. QED
    BY <1>2, <1>5, <2>1 DEF EventsOf
<1>. QED
  BY <1>1, <1>2, <1>3, <1>4, <1>5 DEF Extends

(* Steps that leave rows and log alone, but for the mark of a deleted row. *)
LEMMA TableKept ==
    ASSUME TableInv, UNCHANGED <<log, looked>>, row' \in [Ids -> Rows],
           \A h \in Ids : /\ row'[h].version = row[h].version
                          /\ row'[h].status = row[h].status
                          /\ row[h].deleted => row'[h].deleted
    PROVE  /\ (\A h \in Ids : LastEvent(h))' /\ OlderIsRevived'
           /\ (\A h \in Ids : looked[h] <= Len(log))'
<1>1. \A h : EventsOf(h)' = EventsOf(h) /\ PushOf(h)' = PushOf(h)
  BY DEF EventsOf, PushOf
<1>2. \A h \in Ids : Exists(h)' <=> Exists(h)
  BY DEF Exists
<1>3. (\A h \in Ids : LastEvent(h))'
  BY <1>1, <1>2 DEF TableInv, LastEvent
<1>4. OlderIsRevived'
  BY <1>1 DEF TableInv, OlderIsRevived
<1>5. (\A h \in Ids : looked[h] <= Len(log))'
  BY DEF TableInv
<1>. QED
  BY <1>3, <1>4, <1>5

(* A push that a step does not concern. *)
LEMMA PushKept ==
    ASSUME NEW w, PushOk(w), UNCHANGED <<row, log>>, tx'[w] = tx[w]
    PROVE  PushOk(w)'
<1>1. \A h : EventsOf(h)' = EventsOf(h)
  BY DEF EventsOf
<1>2. \A h, n : Revived(h, n)' <=> Revived(h, n)
  BY <1>1 DEF Revived
<1>3. \A h : Replaceable(h)' <=> Replaceable(h)
  BY DEF Replaceable, Exists
<1>. QED
  BY <1>2, <1>3 DEF PushOk

LEMMA PushesKept ==
    ASSUME TableInv, NEW w \in Writers, UNCHANGED <<row, log>>,
           \A v \in Writers \ {w} : tx'[v] = tx[v],
           tx'[w].op = "push" => PushOk(w)'
    PROVE  PushesOk'
<1>1. ASSUME NEW v \in Writers, tx'[v].op = "push" PROVE PushOk(v)'
  <2>1. CASE v = w
    BY <1>1, <2>1
  <2>2. CASE v # w
    <3>1. tx'[v] = tx[v] /\ PushOk(v)
      BY <1>1, <2>2 DEF TableInv, PushesOk
    <3>. QED
      BY <3>1, PushKept
  <2>. QED
    BY <2>1, <2>2
<1>. QED
  BY <1>1 DEF PushesOk

LEMMA BeginPushTable ==
    ASSUME TableInv, NEW w \in Writers, BeginPush(w)
    PROVE  TableInv'
<1> PICK t : t = Push(clock + 1)
  OBVIOUS
<1>1. /\ clock' = clock + 1 /\ tx' = [tx EXCEPT ![w] = t]
      /\ UNCHANGED <<row, log, looked>>
  BY DEF BeginPush, Begins
<1>2. t \in Pushes /\ t.op = "push" /\ t.version = 0 /\ t.snap = Off
      /\ t.todo = {} /\ t.mine = {}
  BY DEF Push, Pushes, TableInv, TableTypes
<1>3. \A v \in Writers : tx'[v] = IF v = w THEN t ELSE tx[v]
  BY <1>1 DEF TableInv, TableTypes
<1>4. TableTypes'
  BY <1>1, <1>2 DEF TableInv, TableTypes
<1>5. OpenTx'
  BY <1>1, <1>2, <1>3 DEF TableInv, OpenTx, Exists, Locked
<1>6. PushesOk'
  <2>1. tx'[w] = t
    BY <1>3
  <2>2. Off <= Len(log')
    BY <1>1 DEF Off, TableInv, TableTypes
  <2>3. PushOk(w)'
    BY <1>2, <2>1, <2>2 DEF PushOk
  <2>. QED
    BY <1>1, <1>3, <2>3, PushesKept
<1>7. /\ (\A h \in Ids : LastEvent(h))' /\ OlderIsRevived'
      /\ (\A h \in Ids : looked[h] <= Len(log))'
  BY <1>1, TableKept DEF TableInv, TableTypes
<1>. QED
  BY <1>4, <1>5, <1>6, <1>7 DEF TableInv

LEMMA BeginMoveTable ==
    ASSUME TableInv, NEW w \in Writers, NEW h \in Ids, NEW a \in DOMAIN Target,
           BeginMove(w, h, a)
    PROVE  TableInv'
<1> DEFINE t == [op |-> "move", at |-> clock + 1, h |-> h, action |-> a]
<1>1. Exists(h) /\ clock' = clock + 1 /\ tx' = [tx EXCEPT ![w] = t]
      /\ UNCHANGED <<row, log, looked>>
  BY DEF BeginMove, Begins
<1>2. t \in Moves /\ t.op = "move" /\ t.h = h
  BY DEF TableInv, TableTypes, Moves
<1>3. TableTypes'
  BY <1>1, <1>2 DEF TableInv, TableTypes
<1>4. OpenTx'
  BY <1>1, <1>2 DEF TableInv, TableTypes, OpenTx, Exists, Locked
<1>5. PushesOk'
  <2>1. \A v \in Writers : tx'[v] = IF v = w THEN t ELSE tx[v]
    BY <1>1 DEF TableInv, TableTypes
  <2>2. tx'[w].op # "push"
    BY <1>2, <2>1
  <2>. QED
    BY <1>1, <2>1, <2>2, PushesKept
<1>6. /\ (\A g \in Ids : LastEvent(g))' /\ OlderIsRevived'
      /\ (\A g \in Ids : looked[g] <= Len(log))'
  BY <1>1, TableKept DEF TableInv, TableTypes
<1>. QED
  BY <1>3, <1>4, <1>5, <1>6 DEF TableInv

(* The version a push will insert is above every version there is. *)
LEMMA LockTable ==
    ASSUME TableInv, NEW w \in Writers, Lock(w)
    PROVE  TableInv'
<1> DEFINE V == {row[h].version : h \in Ids}
<1>1. /\ tx[w].op = "push" /\ \A v \in Writers : ~Locked(v)
      /\ tx' = [tx EXCEPT ![w].version = 1 + Max(V)]
      /\ UNCHANGED <<clock, row, log, looked>>
  BY DEF Lock, LockFree, Locked
<1>2. PICK g \in Ids : \A h \in Ids : row[h].version <= row[g].version
  BY DEF TableInv, OpenTx
<1>3. \A h \in Ids : row[h].version \in Nat
  BY DEF TableInv, TableTypes, Rows
<1>4. Max(V) = row[g].version
  <2>1. row[g].version \in V /\ \A y \in V : y \in Int /\ y <= row[g].version
    BY <1>2, <1>3
  <2>. QED
    BY <2>1, MaxIs
<1>5. tx[w] \in Pushes /\ tx'[w] = [tx[w] EXCEPT !.version = 1 + row[g].version]
  BY <1>1, <1>4, TxFacts DEF TableInv, TableTypes
<1>6. /\ tx'[w] \in Pushes /\ tx'[w].version = 1 + row[g].version
      /\ tx'[w].snap = tx[w].snap /\ tx'[w].todo = tx[w].todo /\ tx'[w].mine = tx[w].mine
  BY <1>3, <1>5 DEF Pushes
<1>7. TableTypes'
  BY <1>1, <1>6 DEF TableInv, TableTypes
<1>8. \A v \in Writers \ {w} : tx'[v] = tx[v]
  BY <1>1 DEF TableInv, TableTypes
<1>9. OpenTx'
  <2>1. \A v \in Writers : Locked(v)' => v = w
    BY <1>1, <1>8 DEF Locked
  <2>2. (\A v \in Writers : tx[v].op = "move" => Exists(tx[v].h))'
    <3>1. tx'[w].op # "move"
      BY <1>6 DEF Pushes
    <3>. QED
      BY <1>1, <1>8, <3>1 DEF TableInv, OpenTx, Exists
  <2>3. (\A v \in Writers, h \in Ids : Locked(v) => row[h].version < tx[v].version)'
    BY <1>1, <1>2, <1>3, <1>6, <2>1
  <2>4. (\E f \in Ids : \A h \in Ids : row[h].version <= row[f].version)'
    BY <1>1, <1>2
  <2>. QED
    BY <2>1, <2>2, <2>3, <2>4 DEF OpenTx
<1>10. PushesOk'
  <2>1. PushOk(w) /\ tx[w].version = 0
    <3>1. tx[w].version \in Nat
      BY <1>5 DEF Pushes
    <3>. QED
      BY <1>1, <3>1 DEF TableInv, PushesOk, Locked
  <2>2. tx[w].snap = Off /\ tx[w].todo = {} /\ tx[w].mine = {} /\ tx[w].snap <= Len(log')
    BY <1>1, <2>1 DEF PushOk
  <2>3. PushOk(w)'
    BY <1>6, <2>2 DEF PushOk
  <2>. QED
    BY <1>1, <1>8, <2>3, PushesKept
<1>11. /\ (\A h \in Ids : LastEvent(h))' /\ OlderIsRevived'
       /\ (\A h \in Ids : looked[h] <= Len(log))'
  BY <1>1, TableKept DEF TableInv, TableTypes
<1>. QED
  BY <1>7, <1>9, <1>10, <1>11 DEF TableInv

(* A step of the UPDATE changes the push's own record only. *)
LEMMA UpdateTable ==
    ASSUME TableInv, NEW w \in Writers, UNCHANGED <<clock, row, log, looked>>,
           tx' \in [Writers -> {Idle} \union Pushes \union Moves],
           \A v \in Writers \ {w} : tx'[v] = tx[v],
           tx'[w].op = tx[w].op, tx[w].op = "push", tx'[w].version = tx[w].version,
           PushOk(w)'
    PROVE  TableInv'
<1>1. TableTypes'
  BY DEF TableInv, TableTypes
<1>2. \A v \in Writers : tx'[v].op = tx[v].op /\ (Locked(v)' <=> Locked(v))
  BY DEF Locked
<1>3. OpenTx'
  <2>1. (\A v \in Writers : tx[v].op = "move" => Exists(tx[v].h))'
    <3>1. ASSUME NEW v \in Writers, tx'[v].op = "move"
          PROVE  tx'[v] = tx[v] /\ row[tx[v].h].version > 0
      <4>1. v # w
        BY <3>1
      <4>. QED
        BY <3>1, <4>1 DEF TableInv, OpenTx, Exists
    <3>. QED
      BY <3>1 DEF Exists
  <2>2. (\A v \in Writers, h \in Ids : Locked(v) => row[h].version < tx[v].version)'
    <3>1. \A v \in Writers : Locked(v) => tx'[v].version = tx[v].version
      OBVIOUS
    <3>. QED
      BY <1>2, <3>1 DEF TableInv, OpenTx
  <2>3. (\A u, v \in Writers : Locked(u) /\ Locked(v) => u = v)'
    BY <1>2 DEF TableInv, OpenTx
  <2>4. (\E g \in Ids : \A h \in Ids : row[h].version <= row[g].version)'
    BY DEF TableInv, OpenTx
  <2>. QED
    BY <2>1, <2>2, <2>3, <2>4 DEF OpenTx
<1>4. PushesOk'
  BY PushesKept
<1>5. /\ (\A h \in Ids : LastEvent(h))' /\ OlderIsRevived'
      /\ (\A h \in Ids : looked[h] <= Len(log))'
  BY TableKept DEF TableInv, TableTypes
<1>. QED
  BY <1>1, <1>3, <1>4, <1>5 DEF TableInv

(* The snapshot has every live row: there is none if this is version 1. *)
LEMMA LookTable ==
    ASSUME TableInv, NEW w \in Writers, Look(w)
    PROVE  TableInv'
<1> PICK t, S : /\ S = {h \in Ids : tx[w].version > 1 /\ Replaceable(h)}
                /\ t = [tx[w] EXCEPT !.snap = Len(log), !.todo = S]
  OBVIOUS
<1>1. /\ tx[w].op = "push" /\ tx[w].version > 0 /\ tx[w].snap = Off
      /\ UNCHANGED <<clock, row, log, looked>>
  BY DEF Look
<1>2. tx[w] \in Pushes /\ Len(log) \in Nat /\ w \in DOMAIN tx
  BY <1>1, TxFacts DEF TableInv, TableTypes
<1>3. tx' = [tx EXCEPT ![w] = t]
  BY <1>2 DEF Look, TableInv, TableTypes
<1>4. /\ t \in Pushes /\ t.op = "push" /\ t.version = tx[w].version
      /\ t.snap = Len(log) /\ t.todo = S /\ t.mine = tx[w].mine
  BY <1>2 DEF Pushes
<1>5. \A v \in Writers : tx'[v] = IF v = w THEN t ELSE tx[v]
  BY <1>3 DEF TableInv, TableTypes
<1>6. tx' \in [Writers -> {Idle} \union Pushes \union Moves]
  BY <1>3, <1>4 DEF TableInv, TableTypes
<1>7. tx[w].mine = {}
  BY <1>1 DEF TableInv, PushesOk, PushOk
<1>8. ASSUME NEW h \in Ids, Replaceable(h) PROVE h \in S
  <2>1. row[h].version > 0 /\ row[h].version < tx[w].version
    BY <1>1, <1>8 DEF TableInv, OpenTx, Locked, Replaceable, Exists
  <2>2. row[h].version \in Nat /\ tx[w].version \in Nat
    BY <1>2 DEF TableInv, TableTypes, Rows, Pushes
  <2>. QED
    BY <1>8, <2>1, <2>2
<1>9. PushOk(w)'
  <2>1. tx'[w] = t /\ \A h : Replaceable(h)' <=> Replaceable(h)
    BY <1>1, <1>5 DEF Replaceable, Exists
  <2>2. Len(log') = Len(log) /\ Len(log) # Off /\ t.version # 0
    BY <1>1, <1>2, <1>4 DEF Off
  <2>. QED
    BY <1>2, <1>4, <1>7, <1>8, <2>1, <2>2 DEF PushOk
<1>10. tx'[w].op = tx[w].op /\ tx'[w].version = tx[w].version
  BY <1>1, <1>4, <1>5
<1>. QED
  BY <1>1, <1>5, <1>6, <1>9, <1>10, UpdateTable

(* A row is locked and replaced if it still is live. *)
LEMMA SupersedeTable ==
    ASSUME TableInv, NEW w \in Writers, NEW h \in Ids, Supersede(w, h)
    PROVE  TableInv'
<1> PICK t, R : /\ R = {k \in {h} : Replaceable(k)}
                /\ t = [tx[w] EXCEPT !.todo = @ \ {h}, !.mine = @ \union R]
  OBVIOUS
<1>1. /\ tx[w].op = "push" /\ h \in tx[w].todo
      /\ UNCHANGED <<clock, row, log, looked>>
  BY DEF Supersede
<1>2. tx[w] \in Pushes /\ w \in DOMAIN tx /\ R \in SUBSET Ids
  BY <1>1, TxFacts DEF TableInv, TableTypes
<1>3. tx' = [tx EXCEPT ![w] = t]
  BY <1>2 DEF Supersede, TableInv, TableTypes
<1>4. /\ t \in Pushes /\ t.op = "push" /\ t.version = tx[w].version
      /\ t.snap = tx[w].snap /\ t.todo = tx[w].todo \ {h}
      /\ t.mine = tx[w].mine \union R
  BY <1>2 DEF Pushes
<1>5. \A v \in Writers : tx'[v] = IF v = w THEN t ELSE tx[v]
  BY <1>3 DEF TableInv, TableTypes
<1>6. tx' \in [Writers -> {Idle} \union Pushes \union Moves]
  BY <1>3, <1>4 DEF TableInv, TableTypes
<1>7. PushOk(w)
  BY <1>1 DEF TableInv, PushesOk
<1>8. PushOk(w)'
  <2>1. tx'[w] = t /\ \A k : Replaceable(k)' <=> Replaceable(k)
    BY <1>1, <1>5 DEF Replaceable, Exists
  <2>2. \A k, n : Revived(k, n)' <=> Revived(k, n)
    BY <1>1 DEF Revived, EventsOf
  <2>3. tx[w].snap # Off /\ tx[w].snap <= Len(log') /\ tx[w].version # 0
    BY <1>1, <1>7 DEF PushOk
  <2>4. \A k \in t.mine : Replaceable(k)
    BY <1>4, <1>7 DEF PushOk
  <2>5. \A k \in Ids : Replaceable(k) =>
           k \in t.todo \union t.mine \/ Revived(k, tx[w].snap)
    BY <1>4, <1>7, <2>3 DEF PushOk
  <2>. QED
    BY <1>4, <2>1, <2>2, <2>3, <2>4, <2>5 DEF PushOk
<1>9. tx'[w].op = tx[w].op /\ tx'[w].version = tx[w].version
  BY <1>1, <1>4, <1>5
<1>. QED
  BY <1>1, <1>5, <1>6, <1>8, <1>9, UpdateTable

LEMMA RollbackTable ==
    ASSUME TableInv, NEW w \in Writers, Rollback(w)
    PROVE  TableInv'
<1>1. /\ tx' = [tx EXCEPT ![w] = Idle] /\ log' = log \o <<>>
      /\ UNCHANGED <<clock, row, looked>>
  BY DEF Rollback, Commits
<1>2. log' = log
  BY <1>1 DEF TableInv, TableTypes
<1>3. TableTypes'
  BY <1>1, <1>2 DEF TableInv, TableTypes
<1>4. OpenTx'
  BY <1>1 DEF TableInv, TableTypes, OpenTx, Exists, Locked, Idle
<1>5. PushesOk'
  <2>1. \A v \in Writers : tx'[v] = IF v = w THEN Idle ELSE tx[v]
    BY <1>1 DEF TableInv, TableTypes
  <2>2. tx'[w].op # "push"
    BY <2>1 DEF Idle
  <2>. QED
    BY <1>1, <1>2, <2>1, <2>2, PushesKept
<1>6. /\ (\A h \in Ids : LastEvent(h))' /\ OlderIsRevived'
      /\ (\A h \in Ids : looked[h] <= Len(log))'
  BY <1>1, <1>2, TableKept DEF TableInv, TableTypes
<1>. QED
  BY <1>3, <1>4, <1>5, <1>6 DEF TableInv

LEMMA DeleteTable ==
    ASSUME TableInv, NEW g \in Ids, Delete(g)
    PROVE  TableInv'
<1>1. /\ row' = [row EXCEPT ![g].deleted = TRUE] /\ RowFree(g)
      /\ UNCHANGED <<clock, tx, log, looked>>
  BY DEF Delete
<1>2. row' \in [Ids -> Rows]
  BY <1>1 DEF TableInv, TableTypes, Rows
<1>3. \A h \in Ids : /\ row'[h].version = row[h].version
                     /\ row'[h].status = row[h].status
                     /\ row[h].deleted => row'[h].deleted
  BY <1>1 DEF TableInv, TableTypes, Rows
<1>4. TableTypes'
  BY <1>1, <1>2 DEF TableInv, TableTypes
<1>5. OpenTx'
  <2>1. \A w \in Writers : tx[w].op = "move" => tx[w].h \in Ids
    BY TxFacts DEF TableInv, Moves
  <2>. QED
    BY <1>1, <1>3, <2>1 DEF TableInv, OpenTx, Exists, Locked
<1>6. PushesOk'
  <2> SUFFICES ASSUME NEW v \in Writers, tx[v].op = "push" PROVE PushOk(v)'
    BY <1>1 DEF PushesOk
  <2>1. PushOk(v) /\ g \notin tx[v].mine /\ tx[v] \in Pushes
    BY <1>1, TxFacts DEF TableInv, PushesOk, RowFree
  <2>2. \A h \in Ids : Replaceable(h)' => Replaceable(h)
    BY <1>3 DEF Replaceable, Exists
  <2>3. \A h \in Ids \ {g} : row'[h] = row[h]
    BY <1>1 DEF TableInv, TableTypes
  <2>4. \A h \in tx[v].mine : Replaceable(h)'
    <3>1. ASSUME NEW h \in tx[v].mine PROVE Replaceable(h)'
      <4>1. h \in Ids \ {g} /\ Replaceable(h)
        BY <2>1 DEF PushOk, Pushes
      <4>. QED
        BY <2>3, <4>1 DEF Replaceable, Exists
    <3>. QED
      BY <3>1
  <2>5. \A h, n : Revived(h, n)' <=> Revived(h, n)
    BY <1>1 DEF Revived, EventsOf
  <2>. QED
    BY <1>1, <2>1, <2>2, <2>4, <2>5 DEF PushOk
<1>7. /\ (\A h \in Ids : LastEvent(h))' /\ OlderIsRevived'
      /\ (\A h \in Ids : looked[h] <= Len(log))'
  BY <1>1, <1>2, <1>3, TableKept
<1>. QED
  BY <1>4, <1>5, <1>6, <1>7 DEF TableInv

(* The event of a transition is the last of its handoff; no push is among    *)
(* the new events, and the pushes before it are older.                       *)
LEMMA CommitMoveTable ==
    ASSUME TableInv, NEW w \in Writers, CommitMove(w)
    PROVE  TableInv'
<1>0. /\ tx[w].h \in Ids /\ tx[w].action \in DOMAIN Target /\ tx[w].at \in Nat
      /\ Exists(tx[w].h)
  BY TxFacts DEF TableInv, OpenTx, CommitMove, Moves
<1> PICK g \in Ids, a \in DOMAIN Target, at \in Nat :
        tx[w].h = g /\ tx[w].action = a /\ tx[w].at = at
  BY <1>0
<1> PICK e : e = Event(g, EventOf[a], at)
  OBVIOUS
<1> PICK ev : ev = <<e>>
  OBVIOUS
<1> PICK n : n = Len(log) + 1
  OBVIOUS
<1>1. /\ tx' = [tx EXCEPT ![w] = Idle]
      /\ row' = [row EXCEPT ![g].status = Target[a]]
      /\ log' = log \o ev /\ clock' = clock /\ looked' = looked /\ RowFree(g)
  BY DEF CommitMove, Commits
<1>2. Exists(g)
  BY <1>0
<1>3. e \in Events /\ e.h = g /\ e.kind = EventOf[a]
  BY <1>2, ActionFacts DEF Event, Events
<1>4. ev \in Seq(Events) /\ Len(ev) = 1 /\ ev[1] = e
  BY <1>3
<1>e. Extends(ev)
  <2>1. TableTypes /\ ev \in Seq(Events) /\ log' = log \o ev
    BY <1>1, <1>4 DEF TableInv
  <2>. QED
    BY <2>1, Appended
<1>5. /\ log' \in Seq(Events) /\ Len(log) \in Nat /\ n \in Nat
      /\ \A i \in 1..Len(log) : log'[i] = log[i]
      /\ Len(log') = n /\ log'[n] = e
      /\ \A h : EventsOf(h) \subseteq 1..Len(log)
  BY <1>4, <1>e DEF Extends
<1>6. \A h : \A m \in EventsOf(h)' : m \in EventsOf(h) \/ (m = n /\ h = g)
  <2>1. \A h : \A m \in EventsOf(h)' :
           m \in EventsOf(h) \/ \E i \in 1..Len(ev) : m = Len(log) + i /\ ev[i].h = h
    BY <1>4, <1>e DEF Extends
  <2>2. \A i \in 1..Len(ev) : i = 1
    BY <1>4
  <2>. QED
    BY <1>3, <1>4, <2>1, <2>2
<1>7. /\ EventsOf(g)' = EventsOf(g) \union {n}
      /\ \A h \in Ids \ {g} : EventsOf(h)' = EventsOf(h)
  <2>1. \A h : EventsOf(h) \subseteq EventsOf(h)'
    BY <1>4, <1>e DEF Extends
  <2>2. n \in DOMAIN log' /\ log'[n].h = g /\ log'[n].kind # "linked"
    BY <1>3, <1>5, ActionFacts
  <2>3. n \in EventsOf(g)'
    BY <2>2 DEF EventsOf
  <2>4. EventsOf(g)' = EventsOf(g) \union {n}
    BY <1>6, <2>1, <2>3
  <2>5. ASSUME NEW h \in Ids \ {g} PROVE EventsOf(h)' = EventsOf(h)
    <3>1. EventsOf(h) \subseteq EventsOf(h)'
      BY <2>1
    <3>2. h # g
      OBVIOUS
    <3>3. \A m \in EventsOf(h)' : m \in EventsOf(h)
      BY <1>6, <3>2
    <3>. QED
      BY <3>1, <3>3
  <2>. QED
    BY <2>4, <2>5
<1>8. \A h \in Ids : /\ row'[h].version = row[h].version
                     /\ row'[h].deleted = row[h].deleted
                     /\ row'[h].status = IF h = g THEN Target[a] ELSE row[h].status
  BY <1>1, <1>2 DEF TableInv, TableTypes, Rows
<1>9. TableTypes'
  <2>1. row' \in [Ids -> Rows]
    <3>1. Target[a] \in Status
      BY ActionFacts
    <3>. QED
      BY <1>1, <3>1 DEF TableInv, TableTypes, Rows
  <2>. QED
    BY <1>1, <1>5, <2>1 DEF TableInv, TableTypes
<1>10. OpenTx'
  <2>1. \A v \in Writers : tx[v].op = "move" => tx[v].h \in Ids
    BY TxFacts DEF TableInv, Moves
  <2>2. \A v \in Writers : tx'[v] = IF v = w THEN Idle ELSE tx[v]
    BY <1>1 DEF TableInv, TableTypes
  <2>3. Idle.op = "none"
    BY DEF Idle
  <2>. QED
    BY <1>8, <2>1, <2>2, <2>3 DEF TableInv, OpenTx, Exists, Locked
<1>11. (\A h \in Ids : LastEvent(h))'
  <2>1. ASSUME NEW h \in Ids PROVE LastEvent(h)'
    <3>1. CASE h = g
      <4>1. Exists(h)'
        BY <1>2, <1>8, <3>1 DEF Exists
      <4>2. n \in EventsOf(h)' /\ \A j \in EventsOf(h)' : j <= n
        BY <1>5, <1>7, <3>1
      <4>3. row'[h].status = Announces[log'[n].kind]
        BY <1>2, <1>3, <1>5, <1>8, <3>1, ActionFacts
      <4>. QED
        BY <4>1, <4>2, <4>3 DEF LastEvent
    <3>2. CASE h # g
      <4>1. EventsOf(h)' = EventsOf(h) /\ row'[h].status = row[h].status
        BY <1>7, <1>8, <3>2
      <4>2. Exists(h)' <=> Exists(h)
        BY <1>8 DEF Exists
      <4>3. \A i \in EventsOf(h) : log'[i] = log[i]
        BY <1>5
      <4>. QED
        BY <4>1, <4>2, <4>3 DEF TableInv, LastEvent
    <3>. QED
      BY <3>1, <3>2
  <2>. QED
    BY <2>1
<1>12. OlderIsRevived'
  <2>1. \A h \in Ids : PushOf(h)' = PushOf(h)
    BY <1>2, <1>3, <1>5, <1>7, ActionFacts DEF PushOf
  <2> SUFFICES ASSUME NEW h \in Ids, NEW k \in Ids, NEW i \in PushOf(h), NEW j \in PushOf(k),
                      i < j, row'[h].status \in Live, ~row'[h].deleted
               PROVE  \E m \in EventsOf(h)' :
                         m > looked[k] /\ log'[m].kind \in {"picked_up", "restored"}
    <3>1. looked' = looked
      BY <1>1
    <3>. QED
      BY <2>1, <3>1 DEF OlderIsRevived
  <2>2. CASE h = g
    <3>0. looked[k] \in Nat /\ looked[k] <= Len(log)
      BY DEF TableInv, TableTypes
    <3>1. n \in EventsOf(h)' /\ n > looked[k]
      BY <1>5, <1>7, <2>2, <3>0
    <3>2. log'[n].kind \in {"picked_up", "restored"}
      BY <1>2, <1>3, <1>5, <1>8, <2>2, ActionFacts
    <3>. QED
      BY <3>1, <3>2
  <2>3. CASE h # g
    <3>1. row[h].status \in Live /\ ~row[h].deleted
      BY <1>8, <2>3
    <3>2. PICK m \in EventsOf(h) :
             m > looked[k] /\ log[m].kind \in {"picked_up", "restored"}
      BY <3>1 DEF TableInv, OlderIsRevived
    <3>3. m \in EventsOf(h)' /\ log'[m] = log[m]
      BY <1>5, <1>7, <2>3
    <3>. QED
      BY <3>2, <3>3
  <2>. QED
    BY <2>2, <2>3
<1>13. PushesOk'
  <2>1. \A v \in Writers : tx'[v] = IF v = w THEN Idle ELSE tx[v]
    BY <1>1 DEF TableInv, TableTypes
  <2>2. Idle.op # "push"
    BY DEF Idle
  <2> SUFFICES ASSUME NEW v \in Writers, v # w, tx[v].op = "push" PROVE PushOk(v)'
    BY <2>1, <2>2 DEF PushesOk
  <2>3. PushOk(v) /\ g \notin tx[v].mine /\ tx[v] \in Pushes /\ tx'[v] = tx[v]
    BY <1>1, <2>1, TxFacts DEF TableInv, PushesOk, RowFree
  <2> PICK sn : sn = tx[v].snap
    OBVIOUS
  <2>4. sn \in Nat \union {Off} /\ sn <= Len(log) /\ sn < n /\ sn <= Len(log')
    <3>1. sn \in Nat \union {Off} /\ sn <= Len(log)
      BY <2>3 DEF PushOk, Pushes
    <3>. QED
      BY <1>5, <3>1 DEF Off
  <2>5. \A h \in Ids \ {g} : row'[h] = row[h]
    BY <1>1 DEF TableInv, TableTypes
  <2>6. \A h \in tx[v].mine : Replaceable(h)'
    <3>1. ASSUME NEW h \in tx[v].mine PROVE Replaceable(h)'
      <4>1. h \in Ids \ {g} /\ Replaceable(h)
        BY <2>3 DEF PushOk, Pushes
      <4>. QED
        BY <2>5, <4>1 DEF Replaceable, Exists
    <3>. QED
      BY <3>1
  <2>7. ASSUME NEW h \in Ids, Replaceable(h)', sn # Off
        PROVE  h \in tx[v].todo \union tx[v].mine \/ Revived(h, sn)'
    <3>1. CASE h = g
      <4>1. log'[n].kind \in {"picked_up", "restored"}
        <5>1. Target[a] \in Live
          BY <1>8, <2>7, <3>1 DEF Replaceable
        <5>. QED
          BY <1>3, <1>5, <5>1, ActionFacts
      <4>2. n \in EventsOf(h)'
        BY <1>7, <3>1
      <4>. QED
        BY <2>4, <4>1, <4>2 DEF Revived
    <3>2. CASE h # g
      <4>1. Replaceable(h)
        BY <2>5, <2>7, <3>2 DEF Replaceable, Exists
      <4>2. h \in tx[v].todo \union tx[v].mine \/ Revived(h, sn)
        BY <2>3, <2>7, <4>1 DEF PushOk
      <4>3. EventsOf(h)' = EventsOf(h) /\ \A m \in EventsOf(h) : log'[m] = log[m]
        BY <1>5, <1>7, <3>2
      <4>. QED
        BY <4>2, <4>3 DEF Revived
    <3>. QED
      BY <3>1, <3>2
  <2>. QED
    BY <2>3, <2>4, <2>6, <2>7 DEF PushOk
<1>14. (\A h \in Ids : looked[h] <= Len(log))'
  BY <1>1, <1>5 DEF TableInv, TableTypes
<1>. QED
  BY <1>9, <1>10, <1>11, <1>12, <1>13, <1>14 DEF TableInv

(* What a push appends: an event for each row it replaces, one for the new   *)
(* row, and its links.                                                       *)
PushEvents(replaced, h, links, at) ==
    [i \in DOMAIN replaced |-> Event(replaced[i], "superseded", at)]
      \o <<Event(h, "pushed", at)>>
      \o [i \in 1..links |-> Event(h, "linked", at)]

AreOfPush(ev, s, h, links, at) ==
    /\ ev \in Seq(Events) /\ Len(s) \in Nat /\ Len(ev) = Len(s) + 1 + links
    /\ \A i \in 1..Len(ev) : ev[i].at = at
    /\ \A i \in 1..Len(s) : ev[i] = Event(s[i], "superseded", at)
    /\ ev[Len(s) + 1] = Event(h, "pushed", at)
    /\ \A i \in 1..links : ev[Len(s) + 1 + i] = Event(h, "linked", at)

LEMMA PushEventsAre ==
    ASSUME NEW h \in Ids, NEW links \in Nat, NEW at \in Nat, NEW s \in Seq(Ids)
    PROVE  AreOfPush(PushEvents(s, h, links, at), s, h, links, at)
<1>0. PICK a, b, c : /\ a = [i \in DOMAIN s |-> Event(s[i], "superseded", at)]
                     /\ b = <<Event(h, "pushed", at)>>
                     /\ c = [i \in 1..links |-> Event(h, "linked", at)]
  OBVIOUS
<1>1. Len(s) \in Nat /\ DOMAIN s = 1..Len(s) /\ \A i \in 1..Len(s) : s[i] \in Ids
  OBVIOUS
<1>2. \A k \in {"superseded", "pushed", "linked"}, g \in Ids :
        Event(g, k, at) \in Events /\ Event(g, k, at).at = at
  BY ActionFacts DEF Event, Events
<1>3. a \in Seq(Events) /\ Len(a) = Len(s)
      /\ \A i \in 1..Len(s) : a[i] = Event(s[i], "superseded", at)
  BY <1>0, <1>1, <1>2
<1>4. b \in Seq(Events) /\ Len(b) = 1 /\ b[1] = Event(h, "pushed", at)
  BY <1>0, <1>2
<1>5. c \in Seq(Events) /\ Len(c) = links
      /\ \A i \in 1..links : c[i] = Event(h, "linked", at)
  BY <1>0, <1>2
<1>6. /\ a \o b \in Seq(Events) /\ Len(a \o b) = Len(s) + 1
      /\ \A i \in 1..Len(s) : (a \o b)[i] = a[i]
      /\ (a \o b)[Len(s) + 1] = b[1]
  <2>1. /\ a \o b \in Seq(Events) /\ Len(a \o b) = Len(a) + Len(b)
        /\ \A i \in 1..Len(a) : (a \o b)[i] = a[i]
        /\ \A i \in 1..Len(b) : (a \o b)[Len(a) + i] = b[i]
    <3>1. a \in Seq(Events) /\ b \in Seq(Events)
      BY <1>3, <1>4
    <3>. QED
      BY <3>1, ConcatFacts
  <2>. QED
    BY <1>1, <1>3, <1>4, <2>1
<1> PICK ab : ab = a \o b
  OBVIOUS
<1> PICK ev : ev = ab \o c
  OBVIOUS
<1>7. /\ ev \in Seq(Events) /\ Len(ev) = Len(s) + 1 + links
      /\ \A i \in 1..(Len(s) + 1) : ev[i] = ab[i]
      /\ \A i \in 1..links : ev[Len(s) + 1 + i] = c[i]
  <2>1. ab \in Seq(Events) /\ c \in Seq(Events)
    BY <1>5, <1>6
  <2>3. Len(ab) = Len(s) + 1
    BY <1>6
  <2>2. /\ ab \o c \in Seq(Events) /\ Len(ab \o c) = Len(ab) + Len(c)
        /\ \A i \in 1..Len(ab) : (ab \o c)[i] = ab[i]
        /\ \A i \in 1..Len(c) : (ab \o c)[Len(ab) + i] = c[i]
    BY <2>1, ConcatFacts
  <2>. QED
    BY <1>5, <2>3, <2>2
<1>8. /\ \A i \in 1..Len(s) : ev[i] = Event(s[i], "superseded", at)
      /\ ev[Len(s) + 1] = Event(h, "pushed", at)
      /\ \A i \in 1..links : ev[Len(s) + 1 + i] = Event(h, "linked", at)
  BY <1>1, <1>3, <1>4, <1>5, <1>6, <1>7
<1>9. \A i \in 1..Len(ev) : ev[i].at = at
  <2> SUFFICES ASSUME NEW i \in 1..Len(ev) PROVE ev[i].at = at
    OBVIOUS
  <2>1. \/ i \in 1..Len(s) \/ i = Len(s) + 1
        \/ i - Len(s) - 1 \in 1..links /\ i = Len(s) + 1 + (i - Len(s) - 1)
    BY <1>1, <1>7
  <2>. QED
    BY <1>1, <1>2, <1>8, <2>1
<1>10. AreOfPush(ev, s, h, links, at)
  BY <1>1, <1>7, <1>8, <1>9 DEF AreOfPush
<1>11. ev = PushEvents(s, h, links, at)
  BY <1>0 DEF PushEvents
<1>. QED
  BY <1>10, <1>11

(* The new row's event is its only one, and each replaced row's is its last; *)
(* every earlier row still queued or in progress is replaced.                *)
LEMMA CommitPushTable ==
    ASSUME TableInv, NEW w \in Writers, NEW h \in Ids, NEW links \in 0..MaxLinks,
           CommitPush(w, h, links)
    PROVE  TableInv'
<1>p. tx[w] \in Pushes /\ tx[w].op = "push" /\ tx[w].snap # Off /\ PushOk(w)
  BY TxFacts DEF TableInv, CommitPush, PushesOk
<1>q. tx[w].version # 0
  BY <1>p DEF PushOk
<1>0. /\ Locked(w) /\ ~Exists(h) /\ links \in Nat
      /\ tx[w].version \in Nat /\ tx[w].at \in Nat
      /\ tx[w].mine \in SUBSET Ids /\ tx[w].snap \in Nat /\ tx[w].todo = {}
  BY <1>p, <1>q, HandoffAssumption DEF CommitPush, Locked, Pushes
<1> PICK v \in Nat, at \in Nat, sup \in SUBSET Ids, sn \in Nat :
        tx[w].version = v /\ tx[w].at = at /\ sup = tx[w].mine /\ sn = tx[w].snap
  BY <1>0
<1>a. PICK s \in SetToSeqs(sup) :
        /\ tx' = [tx EXCEPT ![w] = Idle] /\ clock' = clock
        /\ log' = log \o PushEvents(s, h, links, at)
        /\ row' = [k \in Ids |->
                     IF k = h THEN [version |-> v, status |-> "queued", deleted |-> FALSE]
                     ELSE IF k \in sup
                          THEN [row[k] EXCEPT !.status = "superseded"] ELSE row[k]]
  BY DEF CommitPush, Commits, Announced, PushEvents
<1>b. looked' = [looked EXCEPT ![h] = sn]
  BY DEF CommitPush
<1> PICK ev : ev = PushEvents(s, h, links, at)
  OBVIOUS
<1>1. /\ ev = PushEvents(s, h, links, at)
      /\ tx' = [tx EXCEPT ![w] = Idle] /\ clock' = clock
      /\ log' = log \o ev
  BY <1>a
<1> PICK r : r = Len(s)
  OBVIOUS
<1> PICK n : n = Len(log) + r + 1
  OBVIOUS
<1>2. \A k \in Ids : row[k].version \in Nat /\ row[k].version < v
  BY <1>0 DEF TableInv, TableTypes, OpenTx, Rows
<1>3. /\ \A k \in sup : Exists(k)
      /\ \A k \in Ids : Replaceable(k) => k \in sup \/ Revived(k, sn)
      /\ sn <= Len(log)
  BY <1>p, <1>0 DEF PushOk, Replaceable
<1>4. h \notin sup
  BY <1>0, <1>3
<1>5. /\ s \in Seq(Ids) /\ r \in Nat
      /\ \A i \in 1..r : s[i] \in sup
      /\ \A i, j \in 1..r : i # j => s[i] # s[j]
      /\ \A k \in sup : \E i \in 1..r : s[i] = k
  <2>1. IsFiniteSet(sup)
    BY HandoffAssumption, FS_Subset
  <2>2. /\ s \in Seq(sup) /\ r \in Nat
        /\ \A i \in 1..r : s[i] \in sup
        /\ \A i, j \in 1..r : i # j => s[i] # s[j]
        /\ \A k \in sup : \E i \in 1..r : s[i] = k
    BY <2>1, SeqOfSet
  <2>3. s \in Seq(Ids)
    BY <2>2, SeqWiden
  <2>. QED
    BY <2>2, <2>3
<1>6. /\ ev \in Seq(Events) /\ Len(ev) = r + 1 + links
      /\ \A i \in 1..r : ev[i].h = s[i] /\ ev[i].kind = "superseded"
      /\ ev[r + 1].h = h /\ ev[r + 1].kind = "pushed"
      /\ \A i \in 1..links : ev[r + 1 + i].kind = "linked"
  <2>1. /\ ev \in Seq(Events) /\ Len(ev) = r + 1 + links
        /\ \A i \in 1..Len(ev) : ev[i].at = at
        /\ \A i \in 1..r : ev[i] = Event(s[i], "superseded", at)
        /\ ev[r + 1] = Event(h, "pushed", at)
        /\ \A i \in 1..links : ev[r + 1 + i] = Event(h, "linked", at)
    <3>1. s \in Seq(Ids) /\ links \in Nat
      BY <1>0, <1>5
    <3>2. AreOfPush(PushEvents(s, h, links, at), s, h, links, at)
      BY <3>1, PushEventsAre
    <3>3. AreOfPush(ev, s, h, links, at)
      BY <1>1, <3>2
    <3>. QED
      BY <3>3 DEF AreOfPush
  <2>2. \A g, k : Event(g, k, at).h = g /\ Event(g, k, at).kind = k
    BY DEF Event
  <2>3. ASSUME NEW i \in 1..r PROVE ev[i].h = s[i] /\ ev[i].kind = "superseded"
    <3>1. ev[i] = Event(s[i], "superseded", at)
      BY <2>1
    <3>. QED
      BY <2>2, <3>1
  <2>4. ev[r + 1].h = h /\ ev[r + 1].kind = "pushed"
    <3>1. ev[r + 1] = Event(h, "pushed", at)
      BY <2>1
    <3>. QED
      BY <2>2, <3>1
  <2>5. ASSUME NEW i \in 1..links PROVE ev[r + 1 + i].kind = "linked"
    <3>1. ev[r + 1 + i] = Event(h, "linked", at)
      BY <2>1
    <3>. QED
      BY <2>2, <3>1
  <2>. QED
    BY <2>1, <2>3, <2>4, <2>5
<1>7. Extends(ev)
  <2>1. TableTypes /\ ev \in Seq(Events) /\ log' = log \o ev
    BY <1>1, <1>6 DEF TableInv
  <2>. QED
    BY <2>1, Appended
<1>8. /\ log' \in Seq(Events) /\ Len(log) \in Nat /\ n \in Nat
      /\ \A i \in 1..Len(log) : log'[i] = log[i]
      /\ \A k : EventsOf(k) \subseteq 1..Len(log) /\ EventsOf(k) \subseteq EventsOf(k)'
  BY <1>5, <1>7 DEF Extends
<1>9. \A i \in 1..r : /\ log'[Len(log) + i].kind = "superseded"
                      /\ Len(log) + i \in EventsOf(s[i])'
  <2>1. ASSUME NEW i \in 1..r
        PROVE  /\ log'[Len(log) + i].kind = "superseded"
               /\ Len(log) + i \in EventsOf(s[i])'
    <3>1. i \in 1..Len(ev) /\ ev[i].kind = "superseded" /\ ev[i].h = s[i]
      BY <1>0, <1>5, <1>6
    <3>2. log'[Len(log) + i] = ev[i]
      BY <1>7, <3>1 DEF Extends
    <3>3. /\ DOMAIN log' = 1..Len(log') /\ Len(log') = Len(log) + Len(ev)
          /\ Len(ev) \in Nat
      BY <1>7 DEF Extends
    <3>4. Len(log) + i \in DOMAIN log'
      BY <1>8, <3>1, <3>3
    <3>. QED
      BY <3>1, <3>2, <3>4 DEF EventsOf
  <2>. QED
    BY <2>1
<1>10. n \in EventsOf(h)' /\ log'[n].kind = "pushed"
  <2>1. r + 1 \in 1..Len(ev) /\ n = Len(log) + (r + 1)
    BY <1>0, <1>5, <1>6, <1>8
  <2>2. log'[n] = ev[r + 1] /\ n \in DOMAIN log'
    <3>1. log'[Len(log) + (r + 1)] = ev[r + 1]
      BY <1>7, <2>1 DEF Extends
    <3>2. /\ DOMAIN log' = 1..Len(log') /\ Len(log') = Len(log) + Len(ev)
          /\ Len(ev) \in Nat
      BY <1>7 DEF Extends
    <3>3. Len(log) + (r + 1) \in 1..Len(log')
      BY <1>5, <1>8, <2>1, <3>2
    <3>. QED
      BY <2>1, <3>1, <3>2, <3>3
  <2>. QED
    BY <1>6, <2>2 DEF EventsOf
<1>11. \A k : \A m \in EventsOf(k)' :
          \/ m \in EventsOf(k)
          \/ k = h /\ m = n
          \/ k \in sup /\ \E i \in 1..r : m = Len(log) + i /\ s[i] = k
  <2> SUFFICES ASSUME NEW k, NEW m \in EventsOf(k)', m \notin EventsOf(k)
               PROVE  \/ k = h /\ m = n
                      \/ k \in sup /\ \E i \in 1..r : m = Len(log) + i /\ s[i] = k
    OBVIOUS
  <2>1. PICK i \in 1..Len(ev) : m = Len(log) + i /\ ev[i].h = k /\ ev[i].kind # "linked"
    BY <1>7 DEF Extends
  <2>2. \/ i \in 1..r \/ i = r + 1
        \/ \E l \in 1..links : i = r + 1 + l
    <3>1. i \in 1..(r + 1 + links)
      BY <1>6
    <3>2. CASE i > r + 1
      <4>1. i - r - 1 \in 1..links /\ i = r + 1 + (i - r - 1)
        BY <1>0, <1>5, <3>1, <3>2
      <4>. QED
        BY <4>1
    <3>. QED
      BY <1>0, <1>5, <3>1, <3>2
  <2>3. i \in 1..r \/ i = r + 1
    <3>1. ASSUME NEW l \in 1..links, i = r + 1 + l PROVE FALSE
      <4>1. ev[r + 1 + l].kind = "linked"
        BY <1>6
      <4>. QED
        BY <2>1, <3>1, <4>1
    <3>. QED
      BY <2>2, <3>1
  <2>4. CASE i \in 1..r
    BY <1>5, <1>6, <2>1, <2>4
  <2>5. CASE i = r + 1
    BY <1>5, <1>6, <1>8, <2>1, <2>5
  <2>. QED
    BY <2>3, <2>4, <2>5
<1>12. /\ row'[h] = [version |-> v, status |-> "queued", deleted |-> FALSE]
       /\ \A k \in Ids \ {h} :
             /\ row'[k].version = row[k].version /\ row'[k].deleted = row[k].deleted
             /\ row'[k].status = IF k \in sup THEN "superseded" ELSE row[k].status
  BY <1>a DEF TableInv, TableTypes, Rows
<1>13. TableTypes'
  <2>1. row' \in [Ids -> Rows]
    BY <1>a DEF TableInv, TableTypes, Rows, Status, Live
  <2>2. looked' \in [Ids -> Nat]
    BY <1>b DEF TableInv, TableTypes
  <2>. QED
    BY <1>1, <1>8, <2>1, <2>2 DEF TableInv, TableTypes
<1>14. v > 0
  BY <1>0 DEF Locked
<1>15. \A k \in Ids : Exists(k)' <=> Exists(k) \/ k = h
  BY <1>12, <1>14 DEF Exists
<1>16. OpenTx'
  <2>1. \A u \in Writers : tx[u].op = "move" => tx[u].h \in Ids
    BY TxFacts DEF TableInv, Moves
  <2>2. \A u \in Writers : tx'[u] = IF u = w THEN Idle ELSE tx[u]
    BY <1>1 DEF TableInv, TableTypes
  <2>3. Idle.op = "none"
    BY DEF Idle
  <2>4. \A u \in Writers : ~Locked(u)'
    BY <1>0, <2>2, <2>3 DEF TableInv, OpenTx, Locked
  <2>5. (\A u \in Writers : tx[u].op = "move" => Exists(tx[u].h))'
    <3>1. \A k \in Ids : Exists(k) => row'[k].version > 0
      BY <1>12, <1>14 DEF Exists
    <3>2. \A u \in Writers : tx'[u].op = "move" =>
             tx[u].op = "move" /\ tx'[u].h = tx[u].h /\ tx[u].h \in Ids
      BY <2>1, <2>2, <2>3
    <3>. QED
      BY <3>1, <3>2 DEF TableInv, OpenTx, Exists
  <2>6. \A k \in Ids : row'[k].version <= row'[h].version
    BY <1>2, <1>12
  <2>. QED
    BY <2>4, <2>5, <2>6 DEF OpenTx
<1>17. (\A k \in Ids : LastEvent(k))'
  <2>1. ASSUME NEW k \in Ids PROVE LastEvent(k)'
    <3>1. CASE k = h
      <4>1. EventsOf(h) = {}
        BY <1>0 DEF TableInv, LastEvent
      <4>2. \A j \in EventsOf(h)' : j = n
        BY <1>4, <1>11, <4>1
      <4>3. row'[h].status = Announces[log'[n].kind]
        BY <1>10, <1>12, ActionFacts
      <4>. QED
        BY <1>8, <1>10, <1>15, <3>1, <4>2, <4>3 DEF LastEvent
    <3>2. CASE k \in sup
      <4>1. PICK i \in 1..r : s[i] = k
        BY <1>5, <3>2
      <4>2. Len(log) + i \in EventsOf(k)'
        BY <1>9, <4>1
      <4>3. ASSUME NEW j \in EventsOf(k)' PROVE j <= Len(log) + i
        <5>1. CASE j \in EventsOf(k)
          <6>1. j \in 1..Len(log)
            BY <1>8, <5>1
          <6>. QED
            BY <1>5, <1>8, <6>1
        <5>2. CASE j \notin EventsOf(k)
          <6>1. k # h
            BY <1>4, <3>2
          <6>2. PICK l \in 1..r : j = Len(log) + l /\ s[l] = k
            BY <1>11, <5>2, <6>1
          <6>3. l = i
            BY <1>5, <4>1, <6>2
          <6>. QED
            BY <1>5, <1>8, <6>2, <6>3
        <5>. QED
          BY <5>1, <5>2
      <4>4. row'[k].status = Announces[log'[Len(log) + i].kind]
        BY <1>4, <1>9, <1>12, <3>2, <4>1, ActionFacts
      <4>5. Exists(k)'
        BY <1>3, <1>15, <3>2
      <4>. QED
        BY <4>2, <4>3, <4>4, <4>5 DEF LastEvent
    <3>3. CASE k # h /\ k \notin sup
      <4>1. \A m : m \in EventsOf(k)' <=> m \in EventsOf(k)
        BY <1>8, <1>11, <3>3
      <4>2. row'[k].status = row[k].status
        BY <1>12, <3>3
      <4>3. Exists(k)' <=> Exists(k)
        BY <1>15, <3>3
      <4>4. \A i \in EventsOf(k) : log'[i] = log[i]
        BY <1>8
      <4>5. EventsOf(k)' = EventsOf(k)
        BY <4>1
      <4>. QED
        BY <4>2, <4>3, <4>4, <4>5 DEF TableInv, LastEvent
    <3>. QED
      BY <3>1, <3>2, <3>3
  <2>. QED
    BY <2>1
<1>18. OlderIsRevived'
  <2>1. ASSUME NEW k \in Ids, NEW i \in PushOf(k)'
        PROVE  i \in PushOf(k) \/ (k = h /\ i = n)
    <3>1. i \in EventsOf(k)' /\ log'[i].kind = "pushed"
      BY DEF PushOf
    <3>2. CASE i \in EventsOf(k)
      BY <1>8, <3>1, <3>2 DEF PushOf
    <3>. QED
      BY <1>9, <1>11, <3>1, <3>2
  <2> SUFFICES ASSUME NEW g \in Ids, NEW k \in Ids, NEW i \in PushOf(g)', NEW j \in PushOf(k)',
                      i < j, row'[g].status \in Live, ~row'[g].deleted
               PROVE  Revived(g, looked[k])'
    BY DEF OlderIsRevived, Revived
  <2>2. i \in EventsOf(g) /\ i \in PushOf(g)
    <3>1. \A x \in PushOf(k) : x <= Len(log) /\ x \in Nat
      BY <1>8 DEF PushOf
    <3>2. j <= n /\ j \in Nat
      BY <1>5, <1>8, <2>1, <3>1
    <3>3. i # n
      BY <1>8, <3>2
    <3>. QED
      BY <2>1, <3>3 DEF PushOf
  <2>3. Exists(g) /\ g # h
    BY <1>0, <2>2 DEF TableInv, LastEvent
  <2>4. g \notin sup /\ row[g].status \in Live /\ ~row[g].deleted
    BY <1>12, <2>3 DEF Live
  <2>5. \A x : Revived(g, x) => Revived(g, x)'
    BY <1>8 DEF Revived
  <2>6. CASE k = h
    <3>1. looked'[k] = sn
      BY <1>b, <2>6 DEF TableInv, TableTypes
    <3>2. Revived(g, sn)
      BY <1>3, <2>3, <2>4 DEF Replaceable
    <3>3. Revived(g, sn)'
      BY <2>5, <3>2
    <3>. QED
      BY <3>1, <3>3 DEF Revived
  <2>7. CASE k # h
    <3>1. looked'[k] = looked[k] /\ j \in PushOf(k)
      BY <1>b, <2>1, <2>7 DEF TableInv, TableTypes
    <3>2. Revived(g, looked[k])
      BY <2>2, <2>4, <3>1 DEF TableInv, OlderIsRevived, Revived
    <3> PICK x : x = looked[k]
      OBVIOUS
    <3>3. Revived(g, x)'
      BY <2>5, <3>2
    <3>. QED
      BY <3>1, <3>3 DEF Revived
  <2>. QED
    BY <2>6, <2>7
<1>19. PushesOk'
  <2>1. \A u \in Writers : tx'[u] = IF u = w THEN Idle ELSE tx[u]
    BY <1>1 DEF TableInv, TableTypes
  <2>2. Idle.op # "push"
    BY DEF Idle
  <2> SUFFICES ASSUME NEW u \in Writers, u # w, tx[u].op = "push" PROVE PushOk(u)'
    BY <2>1, <2>2 DEF PushesOk
  <2>3. PushOk(u) /\ tx[u] \in Pushes /\ tx'[u] = tx[u]
    BY <2>1, TxFacts DEF TableInv, PushesOk
  <2>4. tx[u].version = 0
    <3>1. ~Locked(u)
      BY <1>0 DEF TableInv, OpenTx
    <3>. QED
      BY <2>3, <3>1 DEF Locked, Pushes
  <2>5. tx[u].snap = Off /\ tx[u].todo = {} /\ tx[u].mine = {}
    BY <2>3, <2>4 DEF PushOk
  <2>6. Off <= Len(log')
    BY <1>8 DEF Off
  <2>. QED
    BY <2>3, <2>5, <2>6 DEF PushOk
<1>20. (\A k \in Ids : looked[k] <= Len(log))'
  <2>1. Len(log') \in Nat /\ Len(log) <= Len(log')
    BY <1>7 DEF Extends
  <2>2. \A k \in Ids : looked[k] \in Nat /\ looked[k] <= Len(log)
    BY DEF TableInv, TableTypes
  <2>3. \A k \in Ids : looked'[k] = IF k = h THEN sn ELSE looked[k]
    BY <1>b DEF TableInv, TableTypes
  <2>. QED
    BY <1>3, <1>8, <2>1, <2>2, <2>3
<1>. QED
  BY <1>13, <1>16, <1>17, <1>18, <1>19, <1>20 DEF TableInv

LEMMA TableInit == Init => TableInv
<1> SUFFICES ASSUME Init PROVE TableInv
  OBVIOUS
<1>1. TableTypes
  BY DEF Init, TableTypes, Rows, NoRow
<1>2. \A h \in Ids : ~Exists(h) /\ row[h].version = 0
  BY DEF Init, NoRow, Exists
<1>3. \A w \in Writers : tx[w].op = "none"
  BY DEF Init, Idle
<1>4. \A h : EventsOf(h) = {}
  BY DEF Init, EventsOf
<1>5. OpenTx
  BY <1>2, <1>3, HandoffAssumption DEF OpenTx, Locked
<1>6. OlderIsRevived
  BY <1>4 DEF OlderIsRevived, PushOf
<1>7. PushesOk
  BY <1>3 DEF PushesOk
<1>8. \A h \in Ids : looked[h] <= Len(log)
  BY DEF Init
<1>. QED
  BY <1>1, <1>2, <1>4, <1>5, <1>6, <1>7, <1>8 DEF TableInv, LastEvent

LEMMA TableStep == TableInv /\ [Next]_vars => TableInv'
<1> SUFFICES ASSUME TableInv, [Next]_vars PROVE TableInv'
  OBVIOUS
<1>1. ASSUME NEW w \in Writers, BeginPush(w) PROVE TableInv'
  BY <1>1, BeginPushTable
<1>2. ASSUME NEW w \in Writers, Lock(w) PROVE TableInv'
  BY <1>2, LockTable
<1>3. ASSUME NEW w \in Writers, CommitMove(w) PROVE TableInv'
  BY <1>3, CommitMoveTable
<1>4. ASSUME NEW w \in Writers, Rollback(w) PROVE TableInv'
  BY <1>4, RollbackTable
<1>5. ASSUME NEW w \in Writers, NEW h \in Ids, NEW n \in 0..MaxLinks, CommitPush(w, h, n)
      PROVE  TableInv'
  BY <1>5, CommitPushTable
<1>6. ASSUME NEW w \in Writers, NEW h \in Ids, NEW a \in DOMAIN Target, BeginMove(w, h, a)
      PROVE  TableInv'
  BY <1>6, BeginMoveTable
<1>7. ASSUME NEW h \in Ids, Delete(h) PROVE TableInv'
  BY <1>7, DeleteTable
<1>8. CASE FeedStep \/ UNCHANGED vars
  <2>1. UNCHANGED tableVars
    BY <1>8 DEF FeedStep, Render, Mount, Connect, Poll, Receive, Cut, vars
  <2>2. UNCHANGED <<clock, tx, row, log, looked>>
    BY <2>1 DEF tableVars
  <2>3. TableTypes' /\ OpenTx'
    BY <2>2 DEF TableInv, TableTypes, OpenTx, Locked, Exists
  <2>4. /\ (\A h \in Ids : LastEvent(h))' /\ OlderIsRevived'
        /\ (\A h \in Ids : looked[h] <= Len(log))'
    BY <2>2, TableKept DEF TableInv, TableTypes
  <2>5. PushesOk'
    <3>1. \A w \in Writers : tx'[w].op = "push" => PushOk(w)'
      BY <2>2, PushKept DEF TableInv, PushesOk
    <3>. QED
      BY <3>1 DEF PushesOk
  <2>. QED
    BY <2>3, <2>4, <2>5 DEF TableInv
<1>9. ASSUME NEW w \in Writers, Look(w) PROVE TableInv'
  BY <1>9, LookTable
<1>10. ASSUME NEW w \in Writers, NEW h \in Ids, Supersede(w, h) PROVE TableInv'
  BY <1>10, SupersedeTable
<1>. QED
  BY <1>1, <1>2, <1>3, <1>4, <1>5, <1>6, <1>7, <1>8, <1>9, <1>10 DEF Next, WriterStep

(* The last event of a handoff is the greatest of them. *)
LEMMA Projected == TableInv => ProjectionExact
<1> SUFFICES ASSUME TableInv, NEW h \in Ids
             PROVE  IF Exists(h) THEN row[h].status = Announces[log[Max(EventsOf(h))].kind]
                                 ELSE EventsOf(h) = {}
  BY DEF ProjectionExact
<1>1. CASE Exists(h)
  <2>1. PICK i \in EventsOf(h) : /\ \A j \in EventsOf(h) : j <= i
                                /\ row[h].status = Announces[log[i].kind]
    BY <1>1 DEF TableInv, LastEvent
  <2>2. \A j \in EventsOf(h) : j \in Int
    BY DEF TableInv, TableTypes, EventsOf
  <2>3. Max(EventsOf(h)) = i
    BY <2>1, <2>2, MaxIs
  <2>. QED
    BY <1>1, <2>1, <2>3
<1>2. CASE ~Exists(h)
  BY <1>2 DEF TableInv, LastEvent
<1>. QED
  BY <1>1, <1>2

(* The queue can be rebuilt from its events: the last committed event of a   *)
(* handoff announces the status of its row, however many pushes and          *)
(* transitions overlap (handoff-queries.ts, an event in each transaction).   *)
THEOREM ProjectionCorrect == Spec => []ProjectionExact
<1>1. Spec => []TableInv
  BY TableInit, TableStep, PTL DEF Spec
<1>. QED
  BY <1>1, Projected, PTL

(* A version pushed before another is queued or in progress only if someone  *)
(* revived it after the other's UPDATE took its snapshot: under the advisory *)
(* lock that UPDATE leaves no earlier version live (pushHandoff).            *)
THEOREM RevivalCorrect == Spec => []OlderIsRevived
<1>1. Spec => []TableInv
  BY TableInit, TableStep, PTL DEF Spec
<1>2. TableInv => OlderIsRevived
  BY DEF TableInv
<1>. QED
  BY <1>1, <1>2, PTL

-------------------------------------------------------------------------------
(* The timeline *)

(* A commit adds events of the transaction's own time to the log. *)
NewEvents ==
    /\ log' \in Seq(Events) /\ Len(log) \in Nat /\ Len(log') \in Nat
    /\ Len(log) <= Len(log')
    /\ \A i \in 1..Len(log) : log'[i] = log[i]

CommittedBy(w) ==
    /\ tx[w].op # "none" /\ tx' = [tx EXCEPT ![w] = Idle] /\ clock' = clock
    /\ NewEvents
    /\ \A i \in 1..Len(log') : i \notin 1..Len(log) => log'[i].at = tx[w].at

LEMMA CommitTimes ==
    ASSUME TableInv, NEW w \in Writers,
           \/ CommitMove(w)
           \/ \E h \in Ids, n \in 0..MaxLinks : CommitPush(w, h, n)
    PROVE  CommittedBy(w)
<1>1. tx[w].op # "none" /\ tx' = [tx EXCEPT ![w] = Idle] /\ clock' = clock
  BY DEF CommitMove, CommitPush, Commits
<1>2. PICK at \in Nat : tx[w].at = at
  BY <1>1, TxFacts DEF TableInv, Pushes, Moves, CommitMove, CommitPush
<1>3. \E ev \in Seq(Events) : log' = log \o ev /\ \A i \in 1..Len(ev) : ev[i].at = at
  <2>1. CASE CommitMove(w)
    <3>1. /\ tx[w].h \in Ids /\ tx[w].action \in DOMAIN Target
      BY <2>1, TxFacts DEF TableInv, CommitMove, Moves
    <3> PICK e : e = Event(tx[w].h, EventOf[tx[w].action], tx[w].at)
      OBVIOUS
    <3>2. e \in Events /\ e.at = at
      BY <1>2, <3>1, ActionFacts DEF Event, Events
    <3>3. log' = log \o <<e>>
      BY <2>1 DEF CommitMove, Commits
    <3>4. <<e>> \in Seq(Events) /\ \A i \in 1..Len(<<e>>) : <<e>>[i].at = at
      BY <3>2
    <3>. QED
      BY <3>3, <3>4
  <2>2. ASSUME NEW h \in Ids, NEW n \in 0..MaxLinks, CommitPush(w, h, n)
        PROVE  \E ev \in Seq(Events) : log' = log \o ev /\ \A i \in 1..Len(ev) : ev[i].at = at
    <3>1. PICK sup \in SUBSET Ids : sup = tx[w].mine
      BY <2>2, TxFacts DEF TableInv, CommitPush, Pushes
    <3>b. PICK s \in SetToSeqs(tx[w].mine) : log' = log \o PushEvents(s, h, n, tx[w].at)
      BY <2>2 DEF CommitPush, Commits, Announced, PushEvents
    <3>a. s \in SetToSeqs(sup) /\ log' = log \o PushEvents(s, h, n, at)
      BY <1>2, <3>1, <3>b
    <3> PICK ev : ev = PushEvents(s, h, n, at)
      OBVIOUS
    <3>2. ev = PushEvents(s, h, n, at) /\ log' = log \o ev
      BY <3>a
    <3>3. IsFiniteSet(sup)
      BY HandoffAssumption, FS_Subset
    <3>4. s \in Seq(sup)
      BY <3>3, <3>a, SeqOfSet
    <3>5. s \in Seq(Ids) /\ n \in Nat
      <4>1. s \in Seq(Ids)
        BY <3>4, SeqWiden
      <4>. QED
        BY <4>1, HandoffAssumption
    <3>6. AreOfPush(PushEvents(s, h, n, at), s, h, n, at)
      BY <3>5, PushEventsAre
    <3>7. AreOfPush(ev, s, h, n, at)
      BY <3>2, <3>6
    <3>. QED
      BY <3>2, <3>7 DEF AreOfPush
  <2>. QED
    BY <2>1, <2>2
<1>4. PICK ev \in Seq(Events) : log' = log \o ev /\ \A i \in 1..Len(ev) : ev[i].at = at
  BY <1>3
<1>5. Extends(ev)
  BY <1>4, Appended DEF TableInv
<1>6. /\ log' \in Seq(Events) /\ Len(log) \in Nat /\ Len(log') \in Nat
      /\ Len(log) <= Len(log')
      /\ \A i \in 1..Len(log) : log'[i] = log[i]
  BY <1>5 DEF Extends
<1>7. ASSUME NEW i \in 1..Len(log'), i \notin 1..Len(log) PROVE log'[i].at = at
  <2>1. i - Len(log) \in 1..Len(ev) /\ i = Len(log) + (i - Len(log))
    BY <1>5, <1>7 DEF Extends
  <2>2. log'[i] = ev[i - Len(log)]
    BY <1>5, <2>1 DEF Extends
  <2>. QED
    BY <1>4, <2>1, <2>2
<1>. QED
  BY <1>1, <1>2, <1>6, <1>7 DEF CommittedBy, NewEvents

LEMMA SeqTimes ==
    ASSUME NEW l \in Seq(Events)
    PROVE  Len(l) \in Nat /\ DOMAIN l = 1..Len(l) /\ \A i \in 1..Len(l) : l[i].at \in Nat
<1>1. Len(l) \in Nat /\ DOMAIN l = 1..Len(l) /\ \A i \in 1..Len(l) : l[i] \in Events
  OBVIOUS
<1>. QED
  BY <1>1 DEF Events

LEMMA TimesInit == Init => OwnTimes
  BY DEF Init, OwnTimes, Idle

LEMMA BeginTimes ==
    ASSUME TableInv, OwnTimes, NEW w \in Writers,
           \/ BeginPush(w)
           \/ \E h \in Ids, a \in DOMAIN Target : BeginMove(w, h, a)
    PROVE  OwnTimes'
<1>1. PICK t : /\ tx' = [tx EXCEPT ![w] = t] /\ t.at = clock + 1 /\ clock' = clock + 1
               /\ log' = log
  <2>1. CASE BeginPush(w)
    <3>1. Push(clock + 1).at = clock + 1
      BY DEF Push
    <3>. QED
      BY <2>1, <3>1 DEF BeginPush, Begins
  <2>2. CASE \E h \in Ids, a \in DOMAIN Target : BeginMove(w, h, a)
    BY <2>2 DEF BeginMove, Begins
  <2>. QED
    BY <2>1, <2>2
<1>2. \A v \in Writers : tx'[v] = IF v = w THEN t ELSE tx[v]
  BY <1>1 DEF TableInv, TableTypes
<1>3. clock \in Nat /\ \A i \in DOMAIN log : log[i].at \in Nat
  BY SeqTimes DEF TableInv, TableTypes
<1>4. \A v \in Writers : tx[v].op # "none" => tx[v].at \in Nat
  BY TxFacts DEF TableInv, TableTypes, Pushes, Moves, Idle
<1>. QED
  BY <1>1, <1>2, <1>3, <1>4 DEF OwnTimes

LEMMA EndTimes ==
    ASSUME TableInv, OwnTimes, NEW w \in Writers, CommittedBy(w) \/ Rollback(w)
    PROVE  OwnTimes'
<1>1. \A v \in Writers : tx'[v] = IF v = w THEN Idle ELSE tx[v]
  BY DEF TableInv, TableTypes, CommittedBy, Rollback, Commits
<1>2. clock' = clock /\ Idle.op = "none"
  BY DEF CommittedBy, Rollback, Commits, Idle
<1>3. CASE CommittedBy(w)
  <2>1. DOMAIN log = 1..Len(log) /\ DOMAIN log' = 1..Len(log')
    BY <1>3 DEF CommittedBy, NewEvents, TableInv, TableTypes
  <2>2. \A i \in DOMAIN log' :
           IF i \in DOMAIN log THEN log'[i] = log[i] ELSE log'[i].at = tx[w].at
    BY <1>3, <2>1 DEF CommittedBy, NewEvents
  <2>3. tx[w].op # "none"
    BY <1>3 DEF CommittedBy
  <2>4. \A i \in DOMAIN log' : 1 <= log'[i].at /\ log'[i].at <= clock
    BY <2>2, <2>3 DEF OwnTimes
  <2>5. ASSUME NEW v \in Writers, tx'[v].op # "none"
        PROVE  /\ 1 <= tx'[v].at /\ tx'[v].at <= clock
               /\ \A i \in DOMAIN log' : log'[i].at # tx'[v].at
               /\ \A u \in Writers \ {v} : tx'[u].op # "none" => tx'[u].at # tx'[v].at
    <3>1. v # w /\ tx'[v] = tx[v]
      BY <1>1, <1>2, <2>5
    <3>. QED
      BY <1>1, <1>2, <2>2, <2>3, <2>5, <3>1 DEF OwnTimes
  <2>. QED
    BY <1>2, <2>4, <2>5 DEF OwnTimes
<1>4. CASE Rollback(w)
  <2>1. log' = log
    <3>1. log' = log \o <<>>
      BY <1>4 DEF Rollback, Commits
    <3>. QED
      BY <3>1 DEF TableInv, TableTypes
  <2>. QED
    BY <1>1, <1>2, <2>1 DEF OwnTimes
<1>. QED
  BY <1>3, <1>4

(* New events are ahead of the cursor, or late: their transaction began      *)
(* before that of an event the cursor has passed.                            *)
LEMMA TimelineKept ==
    ASSUME TableInv, OwnTimes, FeedInv, NewEvents, UNCHANGED feedVars,
           \A i \in 1..Len(log') : i \notin 1..Len(log) =>
              1 <= log'[i].at /\ \A j \in 1..Len(log) : log[j].at # log'[i].at
    PROVE  FeedInv'
<1>1. DOMAIN log = 1..Len(log) /\ DOMAIN log' = 1..Len(log')
  BY DEF NewEvents, TableInv, TableTypes
<1>2. 1..Len(log) \subseteq 1..Len(log') /\ \A i \in 1..Len(log) : log'[i] = log[i]
  BY DEF NewEvents
<1>3. \A i \in 1..Len(log) : log[i].at \in Nat
  BY SeqTimes DEF TableInv, TableTypes
<1>4. \A i \in 1..Len(log') : log'[i].at \in Nat
  BY SeqTimes DEF NewEvents
<1>5. /\ client' = client /\ feed' = feed /\ wire' = wire /\ seen' = seen /\ burst' = burst
      /\ page' = page /\ rendered' = rendered /\ start' = start
  BY DEF feedVars, pageVars
<1>p. PageInv'
  <2>1. Len(log) \in Nat /\ Len(log') \in Nat /\ Len(log) <= Len(log')
    BY DEF NewEvents
  <2>2. rendered' \in Nat /\ rendered' <= Len(log')
    BY <1>5, <2>1 DEF FeedInv, PageInv
  <2>. QED
    BY <1>5, <2>2 DEF FeedInv, PageInv
<1>6. \A c : Shown(c) => Shown(c)'
  BY <1>1, <1>2, <1>5 DEF Shown
<1>7. \A i \in 1..Len(log) : OnTheMillisecond(i) => OnTheMillisecond(i)'
  BY <1>1, <1>2 DEF OnTheMillisecond
<1>8. \A i \in 1..Len(log) : Late(i) => Late(i)'
  BY <1>1, <1>2 DEF Late
<1>9. Cursor' = Cursor
  BY <1>5 DEF Cursor
<1>10. WireInv'
  <2>1. wire' \in Seq(Nat) /\ (feed' = Off => wire' = <<>>)
    BY <1>5 DEF FeedInv, WireInv
  <2>2. \A k \in 1..Len(wire) : wire[k] \in 1..Len(log) /\ log'[wire[k]] = log[wire[k]]
    BY <1>1, <1>2 DEF FeedInv, WireInv
  <2>3. ASSUME NEW k \in 1..Len(wire)
        PROVE  /\ wire[k] \in DOMAIN log'
               /\ Millis(log'[wire[k]].at) <= feed
               /\ \/ client < log'[wire[k]].at
                  \/ client = log'[wire[k]].at /\ OnTheMillisecond(wire[k])'
    <3>1. /\ Millis(log[wire[k]].at) <= feed
          /\ \/ client < log[wire[k]].at
             \/ client = log[wire[k]].at /\ OnTheMillisecond(wire[k])
      BY DEF FeedInv, WireInv
    <3>. QED
      BY <1>1, <1>2, <1>5, <1>7, <2>2, <3>1
  <2>4. ASSUME NEW k \in 1..Len(wire), NEW l \in 1..Len(wire), k < l
        PROVE  \/ Millis(log'[wire[k]].at) < log'[wire[l]].at
               \/ /\ Millis(log'[wire[k]].at) = log'[wire[l]].at
                  /\ OnTheMillisecond(wire[l])'
    <3>1. \/ Millis(log[wire[k]].at) < log[wire[l]].at
          \/ Millis(log[wire[k]].at) = log[wire[l]].at /\ OnTheMillisecond(wire[l])
      BY <2>4 DEF FeedInv, WireInv
    <3>. QED
      BY <1>5, <1>7, <2>2, <3>1
  <2>5. WireInv'
    BY <1>5, <2>1, <2>3, <2>4 DEF WireInv
  <2>. QED
    BY <2>5
<1>11. FeedKeeps'
  <2> SUFFICES ASSUME page = "open", NEW i \in 1..Len(log'), i > rendered
               PROVE  Kept(i)' \/ log'[i].at <= start
    BY <1>1, <1>5 DEF FeedKeeps
  <2>1. CASE i \in 1..Len(log)
    <3>1. Kept(i) \/ log[i].at <= start
      BY <1>1, <2>1 DEF FeedInv, FeedKeeps
    <3>2. i \in Due(Cursor) => i \in Due(Cursor)'
      BY <1>1, <1>2, <1>9, <2>1 DEF Due
    <3>3. i \in ToSet(wire) => i \in ToSet(wire)'
      BY <1>5
    <3>. QED
      BY <1>2, <1>5, <1>7, <1>8, <2>1, <3>1, <3>2, <3>3 DEF Kept
  <2>2. CASE i \notin 1..Len(log)
    <3>1. Shown(Cursor) /\ Cursor \in Nat
      BY DEF FeedInv, Cursor
    <3>2. CASE log'[i].at > Cursor
      BY <1>1, <1>9, <3>2 DEF Due, Kept
    <3>4. CASE ~(log'[i].at > Cursor) /\ Cursor = start
      BY <1>4, <3>1, <3>4
    <3>3. CASE ~(log'[i].at > Cursor) /\ Cursor # start
      <4>2. PICK j \in 1..Len(log) : Cursor = Millis(log[j].at)
        BY <1>1, <3>1, <3>3 DEF Shown
      <4>3. Cursor <= log[j].at
        BY <1>3, <4>2, MillisFacts
      <4>4. log'[i].at < log'[j].at /\ j < i
        BY <1>2, <1>3, <1>4, <2>2, <3>1, <3>3, <4>3 DEF NewEvents
      <4>5. Late(i)'
        BY <1>1, <1>2, <4>4 DEF Late
      <4>. QED
        BY <4>5 DEF Kept
    <3>. QED
      BY <3>2, <3>3, <3>4
  <2>. QED
    BY <2>1, <2>2
<1>. QED
  BY <1>5, <1>6, <1>10, <1>11, <1>p DEF FeedInv

(* What a page is rendered with it need not be sent. *)
LEMMA RenderKeeps ==
    ASSUME TableInv, FeedInv, Render
    PROVE  FeedInv'
<1>1. /\ page = "unrendered" /\ rendered' = Len(log) /\ log' = log
      /\ start' = start /\ feed' = feed /\ wire' = wire /\ seen' = seen /\ burst' = burst
  BY DEF Render, tableVars
<1>2. feed = Off /\ wire = <<>>
  BY <1>1 DEF FeedInv, PageInv
<1>3. Len(log) \in Nat /\ DOMAIN log = 1..Len(log) /\ \A i \in DOMAIN log : log[i].at \in Nat
  BY SeqTimes DEF TableInv, TableTypes
<1>4. \/ page' = "blank" /\ client' = client /\ log = <<>>
      \/ page' = "open" /\ \E i \in DOMAIN log : client' = Millis(log[i].at)
  BY DEF Render
<1>5. PageInv'
  <2>1. log = <<>> => Len(log) = 0
    OBVIOUS
  <2>. QED
    BY <1>1, <1>2, <1>3, <1>4, <2>1 DEF FeedInv, PageInv
<1>6. client' \in Nat /\ (page' = "open" => Shown(client)')
  BY <1>1, <1>3, <1>4, MillisFacts DEF FeedInv, Shown
<1>7. WireInv'
  BY <1>1, <1>2 DEF WireInv
<1>8. FeedKeeps'
  BY <1>1, <1>3 DEF FeedKeeps
<1>. QED
  BY <1>1, <1>2, <1>5, <1>6, <1>7, <1>8 DEF FeedInv

(* An event of a page rendered empty is ahead of its first cursor, or not    *)
(* after it.                                                                 *)
LEMMA MountKeeps ==
    ASSUME TableInv, FeedInv, Mount
    PROVE  FeedInv'
<1>1. /\ page = "blank" /\ page' = "open" /\ rendered' = rendered /\ log' = log
      /\ feed' = feed /\ wire' = wire /\ seen' = seen /\ burst' = burst
  BY DEF Mount, tableVars
<1>2. feed = Off /\ wire = <<>>
  BY <1>1 DEF FeedInv, PageInv
<1>3. DOMAIN log = 1..Len(log) /\ \A i \in DOMAIN log : log[i].at \in Nat
  BY SeqTimes DEF TableInv, TableTypes
<1>4. PICK now \in Nat : client' = Millis(now) /\ start' = Millis(now)
  <2>1. PICK now \in (clock - Drift)..(clock + Drift) :
          now >= 0 /\ client' = Millis(now) /\ start' = Millis(now)
    BY DEF Mount
  <2>2. clock \in Nat /\ Drift \in Nat
    BY HandoffAssumption DEF TableInv, TableTypes
  <2>3. now \in Nat
    BY <2>1, <2>2
  <2>. QED
    BY <2>1, <2>3
<1>5. start' \in Nat /\ Millis(start') = start' /\ client' = start'
  BY <1>4, MillisFacts
<1>6. PageInv'
  BY <1>1, <1>2, <1>5 DEF FeedInv, PageInv
<1>7. Shown(client)'
  BY <1>5 DEF Shown
<1>8. WireInv'
  BY <1>1, <1>2 DEF WireInv
<1>9. FeedKeeps'
  <2>1. Cursor' = start'
    BY <1>1, <1>2, <1>5 DEF Cursor
  <2>2. \A i \in DOMAIN log : log[i].at > start' \/ log[i].at <= start'
    BY <1>3, <1>5
  <2>. QED
    BY <1>1, <2>1, <2>2 DEF FeedKeeps, Kept, Due
<1>. QED
  BY <1>1, <1>2, <1>5, <1>6, <1>7, <1>8, <1>9 DEF FeedInv

(* An event kept stays kept, if what may be kept does. *)
LEMMA StaysKept ==
    ASSUME FeedInv, page = "open", log' = log, seen \subseteq seen', burst \subseteq burst',
           page' = page, rendered' = rendered, start' = start,
           \A i \in DOMAIN log : i \in ToSet(wire) \/ i \in Due(Cursor) => Kept(i)'
    PROVE  FeedKeeps'
<1> SUFFICES ASSUME NEW i \in DOMAIN log, i > rendered
             PROVE  Kept(i)' \/ log[i].at <= start
  BY DEF FeedKeeps
<1>1. Kept(i) \/ log[i].at <= start
  BY DEF FeedInv, FeedKeeps
<1>2. (Late(i) => Late(i)') /\ (OnTheMillisecond(i) => OnTheMillisecond(i)')
  BY DEF Late, OnTheMillisecond
<1>. QED
  BY <1>1, <1>2 DEF Kept

LEMMA ConnectKeeps ==
    ASSUME TableInv, FeedInv, Connect
    PROVE  FeedInv'
<1>1. /\ feed = Off /\ feed' = client /\ log' = log
      /\ client' = client /\ wire' = wire /\ seen' = seen /\ burst' = burst
      /\ page = "open" /\ page' = page /\ rendered' = rendered /\ start' = start
  BY DEF Connect, tableVars, pageVars
<1>2. wire = <<>> /\ client \in Nat
  BY <1>1 DEF FeedInv, WireInv
<1>3. client # Off
  BY <1>2 DEF Off
<1>4. Cursor' = Cursor
  BY <1>1 DEF Cursor
<1>5. WireInv'
  BY <1>1, <1>2, <1>3 DEF WireInv
<1>6. FeedKeeps'
  <2>1. \A i \in DOMAIN log : i \in ToSet(wire) \/ i \in Due(Cursor) => Kept(i)'
    BY <1>1, <1>4 DEF Kept, Due
  <2>. QED
    BY <1>1, <2>1, StaysKept
<1>7. PageInv'
  BY <1>1 DEF FeedInv, PageInv
<1>. QED
  BY <1>1, <1>2, <1>5, <1>6, <1>7 DEF FeedInv, Shown

(* The cursor follows the frame received; frames still under way are not     *)
(* behind it, for they were sent in the order of their times.                *)
LEMMA ReceiveKeeps ==
    ASSUME TableInv, FeedInv, Receive
    PROVE  FeedInv'
<1> PICK e : e = wire[1]
  OBVIOUS
<1>1. /\ wire # <<>> /\ wire \in Seq(Nat) /\ feed # Off
      /\ log' = log /\ feed' = feed /\ burst' = burst
      /\ page = "open" /\ page' = page /\ rendered' = rendered /\ start' = start
  BY DEF Receive, tableVars, pageVars, FeedInv, PageInv, WireInv
<1>2. /\ Tail(wire) \in Seq(Nat) /\ Head(wire) = e
      /\ Len(wire) \in Nat \ {0} /\ Len(Tail(wire)) = Len(wire) - 1
      /\ \A i \in 1..Len(Tail(wire)) : Tail(wire)[i] = wire[i + 1]
  BY <1>1, TailFacts
<1>3. client' = Millis(log[e].at) /\ seen' = seen \union {e} /\ wire' = Tail(wire)
  BY <1>2 DEF Receive
<1>4. e \in DOMAIN log /\ Millis(log[e].at) <= feed
  BY <1>2 DEF FeedInv, WireInv
<1>5. log[e].at \in Nat
  BY <1>4, SeqTimes DEF TableInv, TableTypes
<1>6. client' \in Nat /\ client' <= feed' /\ Shown(client)'
  BY <1>1, <1>3, <1>4, <1>5, MillisFacts DEF Shown
<1>7. WireInv'
  <2>1. wire' \in Seq(Nat) /\ (feed' = Off => wire' = <<>>)
    BY <1>1, <1>2, <1>3
  <2>2. ASSUME NEW k \in 1..Len(wire')
        PROVE  k + 1 \in 1..Len(wire) /\ wire'[k] = wire[k + 1]
    BY <1>2, <1>3
  <2>3. ASSUME NEW k \in 1..Len(wire')
        PROVE  /\ wire'[k] \in DOMAIN log /\ Millis(log[wire'[k]].at) <= feed
               /\ \/ client' < log[wire'[k]].at
                  \/ client' = log[wire'[k]].at /\ OnTheMillisecond(wire[k])'
    <3>1. k + 1 \in 1..Len(wire) /\ wire'[k] = wire[k + 1] /\ 1 < k + 1 /\ 1 \in 1..Len(wire)
      BY <1>2, <2>2
    <3>2. wire[k + 1] \in DOMAIN log /\ Millis(log[wire[k + 1]].at) <= feed
      BY <3>1 DEF FeedInv, WireInv
    <3>3. \/ Millis(log[wire[1]].at) < log[wire[k + 1]].at
          \/ Millis(log[wire[1]].at) = log[wire[k + 1]].at /\ OnTheMillisecond(wire[k + 1])
      BY <3>1 DEF FeedInv, WireInv
    <3>4. OnTheMillisecond(wire[k + 1]) => OnTheMillisecond(wire[k])'
      BY <1>1, <3>1 DEF OnTheMillisecond
    <3>. QED
      BY <1>3, <3>1, <3>2, <3>3, <3>4
  <2>4. ASSUME NEW k \in 1..Len(wire'), NEW l \in 1..Len(wire'), k < l
        PROVE  \/ Millis(log[wire'[k]].at) < log[wire'[l]].at
               \/ Millis(log[wire'[k]].at) = log[wire'[l]].at /\ OnTheMillisecond(wire[l])'
    <3>1. /\ k + 1 \in 1..Len(wire) /\ wire'[k] = wire[k + 1]
          /\ l + 1 \in 1..Len(wire) /\ wire'[l] = wire[l + 1] /\ k + 1 < l + 1
      BY <1>2, <2>2, <2>4
    <3>2. \/ Millis(log[wire[k + 1]].at) < log[wire[l + 1]].at
          \/ Millis(log[wire[k + 1]].at) = log[wire[l + 1]].at /\ OnTheMillisecond(wire[l + 1])
      BY <3>1 DEF FeedInv, WireInv
    <3>3. OnTheMillisecond(wire[l + 1]) => OnTheMillisecond(wire[l])'
      BY <1>1, <3>1 DEF OnTheMillisecond
    <3>. QED
      BY <3>1, <3>2, <3>3
  <2>. QED
    BY <1>1, <2>1, <2>3, <2>4 DEF WireInv
<1>8. FeedKeeps'
  <2>1. Cursor' = Cursor
    BY <1>1 DEF Cursor
  <2>2. \A i \in ToSet(wire) : i = e \/ i \in ToSet(wire')
    <3>1. ASSUME NEW x \in 1..Len(wire) PROVE wire[x] = e \/ wire[x] \in ToSet(wire')
      <4>1. CASE x = 1
        BY <4>1
      <4>2. CASE x # 1
        <5>1. x - 1 \in 1..Len(wire') /\ wire'[x - 1] = wire[x]
          BY <1>2, <1>3, <4>2
        <5>2. x - 1 \in DOMAIN wire'
          BY <1>2, <1>3, <5>1
        <5>. QED
          BY <5>1, <5>2 DEF ToSet
      <4>. QED
        BY <4>1, <4>2
    <3>2. DOMAIN wire = 1..Len(wire)
      BY <1>1
    <3>. QED
      BY <3>1, <3>2 DEF ToSet
  <2>3. Due(Cursor)' = Due(Cursor)
    BY <1>1, <2>1 DEF Due
  <2>4. \A i \in DOMAIN log : i \in ToSet(wire) \/ i \in Due(Cursor) => Kept(i)'
    BY <1>3, <2>2, <2>3 DEF Kept
  <2>5. seen \subseteq seen' /\ burst \subseteq burst'
    BY <1>1, <1>3
  <2>. QED
    BY <1>1, <2>4, <2>5, StaysKept
<1>9. PageInv'
  BY <1>1 DEF FeedInv, PageInv
<1>. QED
  BY <1>1, <1>6, <1>7, <1>8, <1>9 DEF FeedInv, Shown

(* What was under way is ahead of the browser's cursor, or stands on its     *)
(* millisecond.                                                              *)
LEMMA CutKeeps ==
    ASSUME TableInv, FeedInv, Cut
    PROVE  FeedInv'
<1>1. /\ feed # Off /\ feed' = Off /\ wire' = <<>> /\ log' = log
      /\ client' = client /\ seen' = seen /\ burst' = burst
      /\ page = "open" /\ page' = page /\ rendered' = rendered /\ start' = start
  BY DEF Cut, tableVars, pageVars, FeedInv, PageInv
<1>2. Cursor = feed /\ Cursor' = client /\ client \in Nat /\ feed \in Nat /\ client <= feed
  BY <1>1 DEF Cursor, FeedInv
<1>3. \A i \in DOMAIN log : log[i].at \in Nat
  BY SeqTimes DEF TableInv, TableTypes
<1>4. \A i : OnTheMillisecond(i) => OnTheMillisecond(i)'
  BY <1>1 DEF OnTheMillisecond
<1>5. FeedKeeps'
  <2>1. ASSUME NEW i \in DOMAIN log, i \in ToSet(wire) \/ i \in Due(Cursor) PROVE Kept(i)'
    <3>1. log[i].at > client => i \in Due(Cursor)'
      BY <1>1, <1>2 DEF Due
    <3>2. CASE i \in ToSet(wire)
      <4>1. wire \in Seq(Nat)
        BY DEF FeedInv, WireInv
      <4>2. PICK k \in 1..Len(wire) : wire[k] = i
        BY <3>2, <4>1 DEF ToSet
      <4>3. client < log[i].at \/ OnTheMillisecond(i)
        BY <4>2 DEF FeedInv, WireInv
      <4>. QED
        BY <1>2, <1>3, <1>4, <3>1, <4>3 DEF Kept
    <3>3. CASE i \in Due(Cursor)
      <4>1. log[i].at > client
        BY <1>2, <1>3, <3>3 DEF Due
      <4>. QED
        BY <3>1, <4>1 DEF Kept
    <3>. QED
      BY <2>1, <3>2, <3>3
  <2>. QED
    BY <1>1, <2>1, StaysKept
<1>6. WireInv'
  BY <1>1 DEF WireInv
<1>7. PageInv'
  BY <1>1 DEF FeedInv, PageInv
<1>. QED
  BY <1>1, <1>2, <1>5, <1>6, <1>7 DEF FeedInv, Shown

(* A poll takes events ahead of the cursor, at least one, and sends them in  *)
(* the order of their times: the last is the one the cursor follows.         *)
Batched(b, s) ==
    /\ b \subseteq Due(feed) /\ s \in Seq(DOMAIN log)
    /\ Len(s) \in Nat \ {0} /\ DOMAIN s = 1..Len(s)
    /\ \A k \in 1..Len(s) : s[k] \in b
    /\ \A i \in b : \E k \in 1..Len(s) : s[k] = i
    /\ \A k, l \in 1..Len(s) : k < l => s[k] # s[l] /\ log[s[k]].at <= log[s[l]].at
    /\ Max({log[i].at : i \in b}) = log[s[Len(s)]].at

LEMMA PollBatch ==
    ASSUME TableInv, Due(feed) # {}, NEW b \in Newest(Due(feed)), NEW s \in OldestFirst(b)
    PROVE  Batched(b, s)
<1> DEFINE due == Due(feed)
           m == {Batch, Cardinality(due)}
<1>1. Len(log) \in Nat /\ DOMAIN log = 1..Len(log) /\ \A i \in 1..Len(log) : log[i].at \in Nat
  BY SeqTimes DEF TableInv, TableTypes
<1>2. due \subseteq 1..Len(log) /\ IsFiniteSet(due)
  <2>1. due \in SUBSET (1..Len(log))
    BY <1>1 DEF Due
  <2>2. IsFiniteSet(1..Len(log))
    BY <1>1, FS_Interval
  <2>. QED
    BY <2>1, <2>2, FS_Subset
<1>3. Cardinality(due) \in Nat /\ Cardinality(due) # 0
  BY <1>2, FS_CardinalityType, FS_EmptySet
<1>4. b \in SUBSET due /\ Cardinality(b) = Min(m)
  BY DEF Newest, kSubset
<1>5. Min(m) # 0
  <2>1. Batch \in Nat \ {0}
    BY HandoffAssumption
  <2>2. \E x \in m : \A y \in m : x <= y
    BY <1>3, <2>1
  <2>3. Min(m) \in m
    BY <2>2 DEF Min
  <2>. QED
    BY <1>3, <2>1, <2>3
<1>6. IsFiniteSet(b) /\ b # {}
  BY <1>2, <1>4, <1>5, FS_Subset, FS_EmptySet
<1>7. /\ s \in SetToSeqs(b)
      /\ \A k, l \in DOMAIN s : k < l => log[s[k]].at <= log[s[l]].at
  BY DEF OldestFirst
<1>8. /\ s \in Seq(b) /\ Len(s) \in Nat
      /\ DOMAIN s = 1..Len(s)
      /\ \A k \in 1..Len(s) : s[k] \in b
      /\ \A k, l \in 1..Len(s) : k # l => s[k] # s[l]
      /\ \A i \in b : \E k \in 1..Len(s) : s[k] = i
  BY <1>6, <1>7, SeqOfSet
<1>9. Len(s) # 0
  BY <1>6, <1>8
<1>10. Max({log[i].at : i \in b}) = log[s[Len(s)]].at
  <2>1. Len(s) \in 1..Len(s)
    BY <1>8, <1>9
  <2>2. ASSUME NEW i \in b PROVE log[i].at \in Int /\ log[i].at <= log[s[Len(s)]].at
    <3>1. PICK k \in 1..Len(s) : s[k] = i
      BY <1>8
    <3>2. k < Len(s) \/ k = Len(s)
      BY <1>8, Upto
    <3>3. log[i].at \in Nat
      BY <1>1, <1>2, <1>4
    <3>4. log[i].at <= log[s[Len(s)]].at
      <4>1. CASE k < Len(s)
        BY <1>7, <1>8, <2>1, <3>1, <4>1
      <4>2. CASE k = Len(s)
        BY <3>1, <3>3, <4>2
      <4>. QED
        BY <3>2, <4>1, <4>2
    <3>. QED
      BY <3>3, <3>4
  <2> DEFINE A == {log[i].at : i \in b}
  <2>3. log[s[Len(s)]].at \in A /\ \A y \in A : y \in Int /\ y <= log[s[Len(s)]].at
    BY <1>8, <2>1, <2>2
  <2> HIDE DEF A
  <2>4. Max(A) = log[s[Len(s)]].at
    BY <2>3, MaxIs
  <2>. QED
    BY <2>4 DEF A
<1>11. s \in Seq(DOMAIN log)
  <2>1. b \subseteq DOMAIN log
    BY <1>1, <1>2, <1>4
  <2>2. s \in Seq(b)
    BY <1>8
  <2>. QED
    BY <2>1, <2>2, SeqWiden
<1>. QED
  BY <1>4, <1>7, <1>8, <1>9, <1>10, <1>11 DEF Batched

LEMMA PollKeeps ==
    ASSUME TableInv, FeedInv, Poll
    PROVE  FeedInv'
<1>0. PICK b \in Newest(Due(feed)) :
        /\ \E s \in OldestFirst(b) : wire' = wire \o s
        /\ feed' = Millis(Max({log[i].at : i \in b}))
        /\ burst' = burst \union (Due(feed) \ b)
  BY DEF Poll
<1>1. PICK s \in OldestFirst(b) : wire' = wire \o s
  BY <1>0
<1>2. /\ feed # Off /\ log' = log /\ client' = client /\ seen' = seen /\ Due(feed) # {}
      /\ page = "open" /\ page' = page /\ rendered' = rendered /\ start' = start
  BY DEF Poll, tableVars, pageVars, FeedInv, PageInv
<1>3. Batched(b, s)
  BY <1>1, <1>2, PollBatch
<1> PICK t : t = log[s[Len(s)]].at
  OBVIOUS
<1> PICK cur \in Nat : cur = feed
  BY <1>2 DEF FeedInv
<1>4. feed' = Millis(t)
  BY <1>0, <1>3 DEF Batched
<1>5. Len(log) \in Nat /\ DOMAIN log = 1..Len(log) /\ \A i \in DOMAIN log : log[i].at \in Nat
  BY SeqTimes DEF TableInv, TableTypes
<1>6. \A k \in 1..Len(s) : /\ s[k] \in DOMAIN log /\ s[k] \in Nat
                            /\ cur < log[s[k]].at /\ log[s[k]].at <= t
  <2>1. ASSUME NEW k \in 1..Len(s)
        PROVE  s[k] \in DOMAIN log /\ s[k] \in Nat /\ cur < log[s[k]].at /\ log[s[k]].at <= t
    <3>1. s[k] \in Due(feed)
      BY <1>3 DEF Batched
    <3>2. s[k] \in DOMAIN log /\ log[s[k]].at > cur
      BY <3>1 DEF Due
    <3>3. Len(s) \in 1..Len(s) /\ (k < Len(s) \/ k = Len(s))
      <4>1. Len(s) \in Nat
        BY <1>3 DEF Batched
      <4>. QED
        BY <4>1, Upto
    <3>4. log[s[k]].at \in Nat
      BY <1>5, <3>2
    <3>5. log[s[k]].at <= t
      <4>1. CASE k < Len(s)
        BY <1>3, <3>3, <4>1 DEF Batched
      <4>2. CASE k = Len(s)
        BY <3>4, <4>2
      <4>. QED
        BY <3>3, <4>1, <4>2
    <3>. QED
      BY <1>5, <3>2, <3>4, <3>5
  <2>. QED
    BY <2>1
<1>7. /\ Len(s) \in Nat \ {0} /\ Len(s) \in 1..Len(s) /\ s \in Seq(Nat)
      /\ t \in Nat /\ cur < t
  <2>1. Len(s) \in Nat \ {0} /\ Len(s) \in 1..Len(s) /\ s \in Seq(DOMAIN log)
    BY <1>3 DEF Batched
  <2>2. s \in Seq(Nat)
    <3>1. DOMAIN log \subseteq Nat
      BY <1>5
    <3>. QED
      BY <2>1, <3>1, SeqWiden
  <2>. QED
    BY <1>5, <1>6, <2>1, <2>2
<1>8. feed' \in Nat /\ cur <= feed' /\ Shown(feed)'
  <2>1. Millis(cur) = cur
    <3>1. cur = start \/ \E j \in DOMAIN log : cur = Millis(log[j].at)
      BY <1>2 DEF FeedInv, Shown
    <3>2. CASE cur = start
      BY <1>2, <3>2 DEF FeedInv, PageInv
    <3>3. CASE \E j \in DOMAIN log : cur = Millis(log[j].at)
      BY <1>5, <3>3, MillisFacts
    <3>. QED
      BY <3>1, <3>2, <3>3
  <2>2. Millis(cur) <= Millis(t) /\ Millis(t) \in Nat
    BY <1>7, MillisFacts
  <2>3. Shown(feed)'
    BY <1>2, <1>4, <1>6, <1>7 DEF Shown
  <2>. QED
    BY <1>4, <2>1, <2>2, <2>3
<1>9. wire \in Seq(Nat) /\ Len(wire) \in Nat
  BY DEF FeedInv, WireInv
<1>10. /\ wire' \in Seq(Nat) /\ Len(wire') = Len(wire) + Len(s)
       /\ \A k \in 1..Len(wire) : wire'[k] = wire[k]
       /\ \A k \in 1..Len(s) : wire'[Len(wire) + k] = s[k]
  <2>1. /\ wire \o s \in Seq(Nat) /\ Len(wire \o s) = Len(wire) + Len(s)
        /\ \A k \in 1..Len(wire) : (wire \o s)[k] = wire[k]
        /\ \A k \in 1..Len(s) : (wire \o s)[Len(wire) + k] = s[k]
    <3>1. wire \in Seq(Nat) /\ s \in Seq(Nat)
      BY <1>7, <1>9
    <3>. QED
      BY <3>1, ConcatFacts
  <2>. QED
    BY <1>1, <2>1
<1>11. \A k \in 1..Len(wire') :
          \/ k \in 1..Len(wire) /\ wire'[k] = wire[k]
          \/ /\ k - Len(wire) \in 1..Len(s) /\ k > Len(wire)
             /\ wire'[k] = s[k - Len(wire)]
  <2>1. ASSUME NEW k \in 1..Len(wire'), k > Len(wire)
        PROVE  k - Len(wire) \in 1..Len(s) /\ wire'[k] = s[k - Len(wire)]
    <3>0. Len(wire) \in Nat /\ Len(s) \in Nat /\ Len(wire') = Len(wire) + Len(s)
      BY <1>7, <1>9, <1>10
    <3>1. k - Len(wire) \in 1..Len(s) /\ k = Len(wire) + (k - Len(wire))
      BY <2>1, <3>0
    <3>. QED
      BY <1>10, <3>1
  <2>2. ASSUME NEW k \in 1..Len(wire'), ~(k > Len(wire))
        PROVE  k \in 1..Len(wire) /\ wire'[k] = wire[k]
    <3>1. k \in Nat /\ 1 <= k /\ Len(wire') \in Nat
      BY <1>7, <1>9, <1>10
    <3>2. k \in 1..Len(wire)
      BY <1>9, <2>2, <3>1
    <3>. QED
      BY <1>10, <3>2
  <2>. QED
    BY <2>1, <2>2
<1>12. \A i : OnTheMillisecond(i) => OnTheMillisecond(i)'
  BY <1>2 DEF OnTheMillisecond
<1>13. WireInv'
  <2>1. ASSUME NEW k \in 1..Len(wire')
        PROVE  /\ wire'[k] \in DOMAIN log /\ Millis(log[wire'[k]].at) <= feed'
               /\ \/ client < log[wire'[k]].at
                  \/ client = log[wire'[k]].at /\ OnTheMillisecond(wire[k])'
    <3>1. CASE k \in 1..Len(wire) /\ wire'[k] = wire[k]
      <4>1. /\ wire[k] \in DOMAIN log /\ Millis(log[wire[k]].at) <= cur
            /\ \/ client < log[wire[k]].at
               \/ client = log[wire[k]].at /\ OnTheMillisecond(wire[k])
        BY <3>1 DEF FeedInv, WireInv
      <4>2. Millis(log[wire[k]].at) \in Nat
        BY <1>5, <4>1, MillisFacts
      <4>3. OnTheMillisecond(wire[k]) => OnTheMillisecond(wire[k])'
        BY <1>2, <3>1 DEF OnTheMillisecond
      <4>. QED
        BY <1>8, <3>1, <4>1, <4>2, <4>3
    <3>2. CASE k - Len(wire) \in 1..Len(s) /\ wire'[k] = s[k - Len(wire)]
      <4>1. wire'[k] \in DOMAIN log /\ cur < log[wire'[k]].at /\ log[wire'[k]].at <= t
        BY <1>6, <3>2
      <4>2. client \in Nat /\ client <= cur
        BY <1>2 DEF FeedInv
      <4>3. Millis(log[wire'[k]].at) <= Millis(t)
        BY <1>5, <1>7, <4>1, MillisFacts
      <4>. QED
        BY <1>4, <1>5, <4>1, <4>2, <4>3
    <3>. QED
      BY <1>11, <3>1, <3>2
  <2>2. ASSUME NEW k \in 1..Len(wire'), NEW l \in 1..Len(wire'), k < l
        PROVE  \/ Millis(log[wire'[k]].at) < log[wire'[l]].at
               \/ Millis(log[wire'[k]].at) = log[wire'[l]].at /\ OnTheMillisecond(wire[l])'
    <3>1. CASE l \in 1..Len(wire) /\ wire'[l] = wire[l]
      <4>1. k \in 1..Len(wire) /\ wire'[k] = wire[k]
        <5>1. k \in Nat /\ 1 <= k /\ k < l /\ l <= Len(wire)
          BY <1>9, <2>2, <3>1
        <5>2. k \in 1..Len(wire)
          BY <1>9, <5>1
        <5>. QED
          BY <1>10, <5>2
      <4>2. \/ Millis(log[wire[k]].at) < log[wire[l]].at
            \/ Millis(log[wire[k]].at) = log[wire[l]].at /\ OnTheMillisecond(wire[l])
        BY <2>2, <3>1, <4>1 DEF FeedInv, WireInv
      <4>3. OnTheMillisecond(wire[l]) => OnTheMillisecond(wire[l])'
        BY <1>2, <3>1 DEF OnTheMillisecond
      <4>. QED
        BY <3>1, <4>1, <4>2, <4>3
    <3>2. CASE k \in 1..Len(wire) /\ wire'[k] = wire[k]
               /\ l - Len(wire) \in 1..Len(s) /\ wire'[l] = s[l - Len(wire)]
      <4>1. wire[k] \in DOMAIN log /\ Millis(log[wire[k]].at) <= cur
        BY <3>2 DEF FeedInv, WireInv
      <4>2. Millis(log[wire[k]].at) \in Nat
        BY <1>5, <4>1, MillisFacts
      <4>3. cur < log[wire'[l]].at /\ log[wire'[l]].at \in Nat
        BY <1>5, <1>6, <3>2
      <4>. QED
        BY <3>2, <4>1, <4>2, <4>3
    <3>3. CASE /\ k - Len(wire) \in 1..Len(s) /\ wire'[k] = s[k - Len(wire)]
               /\ l - Len(wire) \in 1..Len(s) /\ wire'[l] = s[l - Len(wire)]
      <4>1. /\ k - Len(wire) < l - Len(wire)
            /\ wire'[k] \in DOMAIN log /\ wire'[l] \in DOMAIN log
        BY <1>6, <1>9, <2>2, <3>3
      <4>2. wire'[k] # wire'[l] /\ log[wire'[k]].at <= log[wire'[l]].at
        BY <1>3, <3>3, <4>1 DEF Batched
      <4> PICK x \in DOMAIN log, y \in DOMAIN log : x = wire'[k] /\ y = wire'[l]
        BY <4>1
      <4>3. log[x].at \in Nat /\ log[y].at \in Nat /\ x # y /\ log[x].at <= log[y].at
        BY <1>5, <4>2
      <4>4. Millis(log[x].at) \in Nat /\ Millis(log[x].at) <= log[x].at
        BY <4>3, MillisFacts
      <4>5. CASE Millis(log[x].at) = log[y].at
        <5>1. log[x].at = log[y].at /\ log[y].at = Millis(log[y].at)
          BY <4>3, <4>4, <4>5
        <5>2. OnTheMillisecond(wire[l])'
          BY <1>2, <4>3, <5>1 DEF OnTheMillisecond
        <5>. QED
          BY <4>5, <5>2
      <4>6. CASE Millis(log[x].at) < log[y].at
        BY <4>6
      <4>. QED
        BY <4>3, <4>4, <4>5, <4>6
    <3>. QED
      BY <1>9, <1>11, <2>2, <3>1, <3>2, <3>3
  <2>3. feed' # Off
    BY <1>8 DEF Off
  <2>. QED
    BY <1>2, <1>10, <2>1, <2>2, <2>3 DEF WireInv
<1>14. FeedKeeps'
  <2> SUFFICES ASSUME NEW i \in DOMAIN log, i \in ToSet(wire) \/ i \in Due(Cursor)
               PROVE  i \in ToSet(wire') \/ i \in burst'
    <3>1. seen \subseteq seen' /\ burst \subseteq burst'
      BY <1>0, <1>2
    <3>. QED
      BY <1>2, <3>1, StaysKept DEF Kept
  <2>2. DOMAIN wire = 1..Len(wire) /\ DOMAIN wire' = 1..Len(wire')
    BY <1>9, <1>10
  <2>3. CASE i \in ToSet(wire)
    <3>1. PICK k \in 1..Len(wire) : wire[k] = i
      BY <2>2, <2>3 DEF ToSet
    <3>2. wire'[k] = i
      BY <1>10, <3>1
    <3>3. Len(wire') = Len(wire) + Len(s)
      BY <1>10
    <3>4. k \in 1..Len(wire')
      BY <1>7, <1>9, <3>3
    <3>. QED
      BY <2>2, <3>2, <3>4 DEF ToSet
  <2>4. CASE i \in Due(Cursor) /\ i \in b
    <3>1. PICK k \in 1..Len(s) : s[k] = i
      BY <1>3, <2>4 DEF Batched
    <3>2. wire'[Len(wire) + k] = i
      BY <1>10, <3>1
    <3>3. Len(wire') = Len(wire) + Len(s)
      BY <1>10
    <3>4. Len(wire) + k \in 1..Len(wire')
      BY <1>7, <1>9, <3>3
    <3>. QED
      BY <2>2, <3>2, <3>4 DEF ToSet
  <2>5. CASE i \in Due(Cursor) /\ i \notin b
    <3>1. Cursor = feed
      BY <1>2 DEF Cursor
    <3>. QED
      BY <1>0, <2>5, <3>1
  <2>. QED
    BY <2>3, <2>4, <2>5
<1>15. client \in Nat /\ client <= feed' /\ Shown(client)'
  <2>1. client \in Nat /\ client <= cur /\ Shown(client)
    BY <1>2 DEF FeedInv
  <2>2. Shown(client)'
    BY <1>2, <2>1 DEF Shown
  <2>. QED
    BY <1>8, <2>1, <2>2
<1>16. PageInv'
  <2>1. feed' # Off
    BY <1>8 DEF Off
  <2>. QED
    BY <1>2 DEF FeedInv, PageInv
<1>. QED
  BY <1>2, <1>8, <1>13, <1>14, <1>15, <1>16 DEF FeedInv

TimelineInv == TableInv /\ OwnTimes /\ FeedInv

LEMMA TimelineInit == Init => TimelineInv
<1> SUFFICES ASSUME Init PROVE TimelineInv
  OBVIOUS
<1>1. TableInv /\ OwnTimes
  BY TableInit, TimesInit
<1>2. FeedInv
  BY DEF Init, FeedInv, PageInv, WireInv, FeedKeeps, Off
<1>. QED
  BY <1>1, <1>2 DEF TimelineInv

LEMMA TimelineStep == TimelineInv /\ [Next]_vars => TimelineInv'
<1> SUFFICES ASSUME TimelineInv, [Next]_vars PROVE TimelineInv'
  OBVIOUS
<1>0. TableInv /\ OwnTimes /\ FeedInv
  BY DEF TimelineInv
<1>1. TableInv'
  BY <1>0, TableStep
<1>2. ASSUME UNCHANGED <<log, feedVars>>
      PROVE  FeedInv'
  <2>1. NewEvents /\ Len(log') = Len(log) /\ Len(log) \in Nat
    BY <1>0, <1>2 DEF NewEvents, TableInv, TableTypes
  <2>2. \A i \in 1..Len(log') : i \notin 1..Len(log) =>
           1 <= log'[i].at /\ \A j \in 1..Len(log) : log[j].at # log'[i].at
    BY <2>1
  <2>. QED
    BY <1>0, <1>2, <2>1, <2>2, TimelineKept
<1>3. ASSUME NEW w \in Writers,
             \/ CommitMove(w)
             \/ \E h \in Ids, n \in 0..MaxLinks : CommitPush(w, h, n)
      PROVE  TimelineInv'
  <2>1. CommittedBy(w)
    BY <1>0, <1>3, CommitTimes
  <2>2. OwnTimes'
    BY <1>0, <2>1, EndTimes
  <2>3. UNCHANGED feedVars
    BY <1>3 DEF CommitMove, CommitPush, Commits
  <2>4. \A i \in 1..Len(log') : i \notin 1..Len(log) =>
           1 <= log'[i].at /\ \A j \in 1..Len(log) : log[j].at # log'[i].at
    <3>1. DOMAIN log = 1..Len(log)
      BY <1>0 DEF TableInv, TableTypes
    <3>. QED
      BY <1>0, <2>1, <3>1 DEF CommittedBy, OwnTimes
  <2>5. FeedInv'
    BY <1>0, <2>1, <2>3, <2>4, TimelineKept DEF CommittedBy
  <2>. QED
    BY <1>1, <2>2, <2>5 DEF TimelineInv
<1>4. ASSUME NEW w \in Writers,
             \/ BeginPush(w)
             \/ \E h \in Ids, a \in DOMAIN Target : BeginMove(w, h, a)
      PROVE  TimelineInv'
  <2>1. OwnTimes'
    BY <1>0, <1>4, BeginTimes
  <2>2. UNCHANGED <<log, feedVars>>
    BY <1>4 DEF BeginPush, BeginMove, Begins
  <2>. QED
    BY <1>1, <1>2, <2>1, <2>2 DEF TimelineInv
<1>5. ASSUME NEW w \in Writers, Rollback(w)
      PROVE  TimelineInv'
  <2>1. OwnTimes'
    BY <1>0, <1>5, EndTimes
  <2>2. log' = log \o <<>> /\ UNCHANGED feedVars
    BY <1>5 DEF Rollback, Commits
  <2>3. log' = log
    BY <1>0, <2>2 DEF TableInv, TableTypes
  <2>. QED
    BY <1>1, <1>2, <2>1, <2>2, <2>3 DEF TimelineInv
<1>6. ASSUME NEW w \in Writers, Lock(w) \/ Look(w) \/ \E h \in Ids : Supersede(w, h)
      PROVE  TimelineInv'
  <2>1. UNCHANGED <<clock, log, feedVars>>
    BY <1>6 DEF Lock, Look, Supersede
  <2>2. tx[w] \in Pushes /\ w \in DOMAIN tx
    BY <1>0, <1>6, TxFacts DEF Lock, Look, Supersede, TableInv, TableTypes
  <2>3. \A v \in Writers : tx'[v].op = tx[v].op /\ tx'[v].at = tx[v].at
    <3>1. PICK t : /\ tx' = [tx EXCEPT ![w] = t]
                   /\ \E n, a, b, c : t = [tx[w] EXCEPT !.version = n, !.snap = a,
                                                       !.todo = b, !.mine = c]
      <4>1. CASE Lock(w)
        <5>1. PICK n : tx' = [tx EXCEPT ![w].version = n]
          BY <4>1 DEF Lock
        <5>2. [tx[w] EXCEPT !.version = n] =
                 [tx[w] EXCEPT !.version = n, !.snap = tx[w].snap,
                               !.todo = tx[w].todo, !.mine = tx[w].mine]
          BY <2>2 DEF Pushes
        <5>. QED
          BY <2>2, <5>1, <5>2
      <4>2. CASE Look(w)
        <5>1. PICK a, b : tx' = [tx EXCEPT ![w].snap = a, ![w].todo = b]
          BY <4>2 DEF Look
        <5>2. [tx[w] EXCEPT !.snap = a, !.todo = b] =
                 [tx[w] EXCEPT !.version = tx[w].version, !.snap = a,
                               !.todo = b, !.mine = tx[w].mine]
          BY <2>2 DEF Pushes
        <5>3. tx' = [tx EXCEPT ![w] = [tx[w] EXCEPT !.snap = a, !.todo = b]]
          BY <2>2, <5>1
        <5>. QED
          BY <5>2, <5>3
      <4>3. CASE \E h \in Ids : Supersede(w, h)
        <5>1. PICK b, c : tx' = [tx EXCEPT ![w].todo = b, ![w].mine = c]
          BY <4>3 DEF Supersede
        <5>2. [tx[w] EXCEPT !.todo = b, !.mine = c] =
                 [tx[w] EXCEPT !.version = tx[w].version, !.snap = tx[w].snap,
                               !.todo = b, !.mine = c]
          BY <2>2 DEF Pushes
        <5>3. tx' = [tx EXCEPT ![w] = [tx[w] EXCEPT !.todo = b, !.mine = c]]
          BY <2>2, <5>1
        <5>. QED
          BY <5>2, <5>3
      <4>. QED
        BY <1>6, <4>1, <4>2, <4>3
    <3>2. tx'[w] = t /\ \A v \in Writers \ {w} : tx'[v] = tx[v]
      BY <1>0, <3>1 DEF TableInv, TableTypes
    <3>3. t.op = tx[w].op /\ t.at = tx[w].at
      BY <2>2, <3>1 DEF Pushes
    <3>. QED
      BY <3>2, <3>3
  <2>4. OwnTimes'
    BY <1>0, <2>1, <2>3 DEF OwnTimes
  <2>. QED
    BY <1>1, <1>2, <2>1, <2>4 DEF TimelineInv
<1>7. ASSUME NEW h \in Ids, Delete(h)
      PROVE  TimelineInv'
  <2>1. UNCHANGED <<clock, tx, log, feedVars>>
    BY <1>7 DEF Delete
  <2>2. OwnTimes'
    BY <1>0, <2>1 DEF OwnTimes
  <2>. QED
    BY <1>1, <1>2, <2>1, <2>2 DEF TimelineInv
<1>8. CASE FeedStep \/ UNCHANGED vars
  <2>1. UNCHANGED <<clock, tx, log>>
    BY <1>8 DEF FeedStep, Render, Mount, Connect, Poll, Receive, Cut, vars, tableVars
  <2>2. OwnTimes'
    BY <1>0, <2>1 DEF OwnTimes
  <2>3. ASSUME FeedStep PROVE FeedInv'
    BY <1>0, <2>3, RenderKeeps, MountKeeps, ConnectKeeps, PollKeeps, ReceiveKeeps, CutKeeps
    DEF FeedStep
  <2>4. ASSUME UNCHANGED vars PROVE FeedInv'
    BY <1>2, <2>4 DEF vars, tableVars
  <2>. QED
    BY <1>1, <1>8, <2>2, <2>3, <2>4 DEF TimelineInv
<1>. QED
  BY <1>3, <1>4, <1>5, <1>6, <1>7, <1>8 DEF Next, WriterStep

(* The timeline shows every event committed after it was rendered, over any  *)
(* number of broken connections and whatever the browser's clock, except one *)
(* committed late, one a full batch left out, one of several of a            *)
(* transaction on a whole millisecond, and one not after the first cursor of *)
(* a page rendered empty (events/route.ts, queue-stream.tsx).                *)
THEOREM TimelineCorrect == Spec => []FeedKeeps
<1>1. Spec => []TimelineInv
  BY TimelineInit, TimelineStep, PTL DEF Spec
<1>2. TimelineInv => FeedKeeps
  BY DEF TimelineInv, FeedInv
<1>. QED
  BY <1>1, <1>2, PTL
===============================================================================

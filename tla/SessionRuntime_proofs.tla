------------------------ MODULE SessionRuntime_proofs ------------------------
(***************************************************************************)
(* Machine-checked safety of the session envelope log and of the tabs that *)
(* read it, for any number of connections, turns and tabs and any          *)
(* MAX_BUFFER.                                                             *)
(***************************************************************************)
EXTENDS SessionLens, SequenceTheorems, TLAPS

(* Envelopes already evicted from the head of the buffer. *)
Evicted == nextSeq - 1 - Len(buffer)

(* What connection c has been handed lies below whatever it is handed next:  *)
(* the envelope at its replay index, the one its waiter was resolved with,   *)
(* or one that is not emitted yet.                                           *)
OutBelow(c, s) == \A k \in 1..Len(out[c]) : out[c][k].seq < s

Ahead(c) ==
    /\ OutBelow(c, nextSeq)
    /\ st[c] = "replay" => /\ at[c] <= Len(buffer) + 1
                           /\ OutBelow(c, Evicted + at[c])
    /\ (st[c] = "woken" /\ c \notin aborted) => /\ got[c] \in Envelope
                                                /\ got[c].seq < nextSeq
                                                /\ OutBelow(c, got[c].seq)

CursorAhead == \A c \in Conns : Ahead(c)

IInv ==
    /\ TypeOK
    /\ BufferIsTail
    /\ WaitersMatchParked
    /\ CursorAhead
    /\ StreamInOrder

-------------------------------------------------------------------------------
(* Splicing element i out of a sequence: its length and its elements. *)
LEMMA SpliceFacts ==
    ASSUME NEW S, NEW s \in Seq(S), NEW i \in 1..Len(s)
    PROVE  /\ RemoveAt(s, i) \in Seq(S)
           /\ Len(RemoveAt(s, i)) = Len(s) - 1
           /\ \A j \in 1..(Len(s) - 1) :
                 RemoveAt(s, i)[j] = IF j < i THEN s[j] ELSE s[j + 1]
<1> DEFINE a == SubSeq(s, 1, i - 1)
           b == SubSeq(s, i + 1, Len(s))
<1>0. Len(s) \in Nat /\ i \in Nat /\ \A j \in 1..Len(s) : s[j] \in S
  BY LenProperties, ElementOfSeq
<1>1. a \in Seq(S) /\ Len(a) = i - 1 /\ \A j \in 1..(i - 1) : a[j] = s[j]
  <2>. \A j \in 1..(i - 1) : s[j] \in S
    BY <1>0
  <2>. QED
    BY <1>0, SubSeqProperties
<1>2. b \in Seq(S) /\ Len(b) = Len(s) - i /\ \A j \in 1..(Len(s) - i) : b[j] = s[i + j]
  <2>. \A j \in (i + 1)..Len(s) : s[j] \in S
    BY <1>0
  <2>. QED
    BY <1>0, SubSeqProperties
<1>3. RemoveAt(s, i) = a \o b
  BY DEF RemoveAt
<1> HIDE DEF a, b
<1>4. a \o b \in Seq(S) /\ Len(a \o b) = Len(s) - 1
  <2>. Len(a \o b) = Len(a) + Len(b) /\ a \o b \in Seq(S)
    BY <1>1, <1>2, ConcatProperties
  <2>. QED
    BY <1>0, <1>1, <1>2
<1>5. ASSUME NEW j \in 1..(Len(s) - 1)
      PROVE  (a \o b)[j] = IF j < i THEN s[j] ELSE s[j + 1]
  <2>1. (a \o b)[j] = IF j <= Len(a) THEN a[j] ELSE b[j - Len(a)]
    BY <1>0, <1>1, <1>2, <1>4, ConcatProperties
  <2>2. CASE j < i
    BY <2>1, <2>2, <1>0, <1>1
  <2>3. CASE ~(j < i)
    <3>1. j - (i - 1) \in 1..(Len(s) - i)
      BY <2>3, <1>0
    <3>2. b[j - (i - 1)] = s[j + 1]
      BY <3>1, <1>0, <1>2
    <3>. QED
      BY <2>1, <2>3, <3>2, <1>0, <1>1
  <2>. QED
    BY <2>2, <2>3
<1>. QED
  BY <1>3, <1>4, <1>5

(* The elements of a sequence of envelopes carry natural seqs. *)
LEMMA EnvelopeElements ==
    ASSUME NEW q \in Seq(Envelope)
    PROVE  /\ Len(q) \in Nat
           /\ \A k \in 1..Len(q) : q[k] \in Envelope /\ q[k].seq \in Nat
<1>1. \A k \in 1..Len(q) : q[k] \in Envelope
  BY ElementOfSeq
<1>2. \A e \in Envelope : e.seq \in Nat
  BY DEF Envelope
<1>. QED
  BY <1>1, <1>2, LenProperties

(* Materialising the session keeps everything the other actions rely on. *)
LEMMA MaterialiseFacts ==
    ASSUME TypeOK, BufferIsTail, GetOrCreateSession
    PROVE  /\ buffer' \in Seq(Envelope)
           /\ nextSeq' \in Nat \ {0}
           /\ nextSeq' >= nextSeq
           /\ Len(buffer') >= Len(buffer)
           /\ nextSeq' - 1 - Len(buffer') = nextSeq - 1 - Len(buffer)
           /\ BufferIsTail'
<1>1. CASE nextSeq = FirstSeq
  <2>1. Len(buffer) = 0
    BY <1>1 DEF BufferIsTail, TypeOK, FirstSeq
  <2>2. buffer' = SeedBuffer /\ nextSeq' = SeedCount + 1
    BY <1>1 DEF GetOrCreateSession
  <2>3. SeedBuffer \in Seq(Envelope) /\ Len(SeedBuffer) = SeedCount
    BY BoundsAssumption DEF SeedBuffer, Envelope
  <2>4. \A i \in 1..SeedCount : SeedBuffer[i].seq = i
    BY DEF SeedBuffer
  <2>. QED
    BY <1>1, <2>1, <2>2, <2>3, <2>4, BoundsAssumption DEF BufferIsTail, FirstSeq
<1>2. CASE nextSeq # FirstSeq
  <2>1. UNCHANGED <<buffer, nextSeq>>
    BY <1>2 DEF GetOrCreateSession
  <2>2. BufferIsTail'
    BY <2>1 DEF BufferIsTail
  <2>3. buffer \in Seq(Envelope) /\ Len(buffer) \in Nat /\ nextSeq \in Nat \ {0}
    BY LenProperties DEF TypeOK
  <2>. QED
    BY <2>1, <2>2, <2>3
<1>. QED
  BY <1>1, <1>2

LEMMA InitIInv == Init => IInv
  BY BoundsAssumption
  DEF Init, IInv, TypeOK, BufferIsTail, WaitersMatchParked, CursorAhead, Ahead,
      StreamInOrder, OutBelow, Evicted, FirstSeq

(* Only the turns (and the counters that bound the model) change. *)
LEMMA TurnOnly ==
    ASSUME IInv, TypeOK',
           UNCHANGED <<buffer, nextSeq, waiters, st, at, from, got, aborted, out>>
    PROVE  IInv'
  BY DEF IInv, TypeOK, BufferIsTail, WaitersMatchParked, CursorAhead, Ahead,
         StreamInOrder, OutBelow, Evicted

(* A step that queues and aborts nobody and parks nobody new. *)
LEMMA WaitersFrame ==
    ASSUME WaitersMatchParked, UNCHANGED <<waiters, aborted>>,
           \A d \in Conns : st'[d] = "parked" <=> st[d] = "parked"
    PROVE  WaitersMatchParked'
<1>1. \A i, j \in 1..Len(waiters') : waiters'[i] = waiters'[j] => i = j
  BY DEF WaitersMatchParked
<1>2. \A i \in 1..Len(waiters') : waiters'[i] \notin aborted'
  BY DEF WaitersMatchParked
<1>3. ASSUME NEW d \in Conns
      PROVE  st'[d] = "parked" <=> \E i \in 1..Len(waiters') : waiters'[i] = d
  <2>. st[d] = "parked" <=> \E i \in 1..Len(waiters) : waiters[i] = d
    BY DEF WaitersMatchParked
  <2>. QED
    OBVIOUS
<1>. QED
  BY <1>1, <1>2, <1>3 DEF WaitersMatchParked

LEMMA BufferFrame ==
    ASSUME BufferIsTail, UNCHANGED <<buffer, nextSeq>>
    PROVE  BufferIsTail'
  BY DEF BufferIsTail

(* A new connection starts at the head of the buffer with nothing received. *)
LEMMA ConnectStep ==
    ASSUME IInv, NEW c \in Conns, NEW f \in Nat, Connect(c, f)
    PROVE  IInv'
<1>. USE DEF IInv
<1>1. /\ buffer' \in Seq(Envelope) /\ nextSeq' \in Nat \ {0}
      /\ nextSeq' >= nextSeq /\ Len(buffer') >= Len(buffer)
      /\ Evicted' = Evicted /\ BufferIsTail'
  BY MaterialiseFacts DEF Connect, Evicted
<1>2. TypeOK'
  BY <1>1, BoundsAssumption DEF TypeOK, Connect
<1>3. WaitersMatchParked'
  <2>. UNCHANGED <<waiters, aborted>>
    BY DEF Connect
  <2>. \A d \in Conns : st'[d] = "parked" <=> st[d] = "parked"
    BY DEF Connect, TypeOK
  <2>. QED
    BY WaitersFrame
<1>4. ASSUME NEW d \in Conns PROVE Ahead(d)'
  <2>1. CASE d = c
    <3>1. st'[c] = "replay" /\ at'[c] = 1 /\ out'[c] = <<>>
      BY DEF Connect, TypeOK
    <3>2. Len(buffer') \in Nat
      BY <1>1
    <3>. QED
      BY <2>1, <3>1, <3>2 DEF Ahead, OutBelow
  <2>2. CASE d # c
    <3>1. Ahead(d)
      BY DEF CursorAhead
    <3>2. UNCHANGED <<st[d], at[d], got[d], out[d], aborted>>
      BY <2>2 DEF Connect, TypeOK
    <3>3. \A k \in 1..Len(out[d]) : out[d][k].seq \in Nat
      BY EnvelopeElements DEF TypeOK
    <3>4. nextSeq \in Nat /\ at[d] \in Nat /\ Len(buffer) \in Nat /\ Len(buffer') \in Nat
      BY <1>1, LenProperties DEF TypeOK
    <3>5. \A s, t : OutBelow(d, s) /\ s \in Nat /\ t \in Nat /\ s <= t => OutBelow(d, t)
      BY <3>3 DEF OutBelow
    <3>6. OutBelow(d, nextSeq)' /\ (st[d] = "replay" => OutBelow(d, Evicted + at[d])')
      BY <3>1, <3>2, <3>4, <3>5, <1>1 DEF Ahead, OutBelow
    <3>7. (st[d] = "woken" /\ d \notin aborted) =>
              got[d].seq \in Nat /\ OutBelow(d, got[d].seq)'
      BY <3>1, <3>2 DEF Ahead, OutBelow, Envelope
    <3>. QED
      BY <3>1, <3>2, <3>4, <3>6, <3>7, <1>1 DEF Ahead
  <2>. QED
    BY <2>1, <2>2
<1>5. ASSUME NEW d \in Conns, NEW i \in 1..Len(out'[d]), NEW j \in 1..Len(out'[d]), i < j
      PROVE  out'[d][i].seq < out'[d][j].seq
  <2>1. CASE d = c
    <3>. out'[d] = <<>>
      BY <2>1 DEF Connect, TypeOK
    <3>. QED
      OBVIOUS
  <2>2. CASE d # c
    <3>. out'[d] = out[d]
      BY <2>2 DEF Connect, TypeOK
    <3>. QED
      BY <1>5 DEF StreamInOrder
  <2>. QED
    BY <2>1, <2>2
<1>6. StreamInOrder'
  BY <1>5 DEF StreamInOrder
<1>. QED
  BY <1>1, <1>2, <1>3, <1>4, <1>6 DEF CursorAhead

(* Appending an envelope above all earlier ones keeps a stream in order. *)
LEMMA AppendKeepsOrder ==
    ASSUME TypeOK, StreamInOrder, NEW c \in Conns, NEW e \in Envelope,
           OutBelow(c, e.seq), out' = [out EXCEPT ![c] = Append(@, e)]
    PROVE  /\ out' \in [Conns -> Seq(Envelope)]
           /\ StreamInOrder'
           /\ \A s \in Nat : e.seq < s => OutBelow(c, s)'
           /\ \A d \in Conns : d # c => out'[d] = out[d]
<1>1. /\ out[c] \in Seq(Envelope) /\ out'[c] = Append(out[c], e)
      /\ \A d \in Conns : d # c => out'[d] = out[d]
  BY DEF TypeOK
<1>2. /\ Len(out'[c]) = Len(out[c]) + 1
      /\ \A k \in 1..Len(out[c]) : out'[c][k] = out[c][k] /\ out[c][k].seq \in Nat
      /\ out'[c][Len(out[c]) + 1] = e
      /\ e.seq \in Nat /\ Len(out[c]) \in Nat
  <2>1. e.seq \in Nat
    BY DEF Envelope
  <2>2. Len(out[c]) \in Nat /\ \A k \in 1..Len(out[c]) : out[c][k].seq \in Nat
    BY <1>1, EnvelopeElements
  <2>3. Len(Append(out[c], e)) = Len(out[c]) + 1
    BY <1>1
  <2>4. \A k \in 1..Len(out[c]) : Append(out[c], e)[k] = out[c][k]
    BY <1>1, <2>2
  <2>5. Append(out[c], e)[Len(out[c]) + 1] = e
    BY <1>1, <2>2
  <2>. QED
    BY <1>1, <2>1, <2>2, <2>3, <2>4, <2>5
<1>3. StreamInOrder'
  BY <1>1, <1>2 DEF StreamInOrder, OutBelow
<1>4. ASSUME NEW s \in Nat, e.seq < s PROVE OutBelow(c, s)'
  BY <1>4, <1>2 DEF OutBelow
<1>. QED
  BY <1>1, <1>3, <1>4 DEF TypeOK

LEMMA ReplayYieldStep ==
    ASSUME IInv, NEW c \in Conns, ReplayYield(c)
    PROVE  IInv'
<1>. USE DEF IInv
<1>. PICK i \in at[c]..Len(buffer) :
        /\ out' = [out EXCEPT ![c] = Append(@, buffer[i])]
        /\ at' = [at EXCEPT ![c] = i + 1]
  BY DEF ReplayYield
<1>1. i \in Nat \ {0} /\ i \in 1..Len(buffer) /\ buffer[i] \in Envelope
  BY DEF TypeOK
<1>2. /\ out' = [out EXCEPT ![c] = Append(@, buffer[i])]
      /\ at' = [at EXCEPT ![c] = i + 1]
      /\ st[c] = "replay" /\ c \notin aborted
      /\ UNCHANGED <<buffer, nextSeq, waiters, st, from, got, aborted, turn,
                     produced, opened>>
  BY DEF ReplayYield
<1>3. buffer[i].seq = Evicted + i /\ Evicted \in Nat
  BY <1>1 DEF BufferIsTail, Evicted, TypeOK
<1>4. OutBelow(c, buffer[i].seq)
  <2>1. OutBelow(c, Evicted + at[c])
    BY <1>2 DEF CursorAhead, Ahead
  <2>2. \A k \in 1..Len(out[c]) : out[c][k].seq \in Nat
    BY EnvelopeElements DEF TypeOK
  <2>. QED
    BY <1>1, <1>3, <2>1, <2>2 DEF OutBelow, TypeOK
<1>5. /\ out' \in [Conns -> Seq(Envelope)]
      /\ StreamInOrder'
      /\ \A s \in Nat : buffer[i].seq < s => OutBelow(c, s)'
      /\ \A d \in Conns : d # c => out'[d] = out[d]
  BY <1>1, <1>2, <1>4, AppendKeepsOrder
<1>6. TypeOK'
  <2>. at' \in [Conns -> Nat \ {0}]
    BY <1>1, <1>2 DEF TypeOK
  <2>. QED
    BY <1>2, <1>5 DEF TypeOK
<1>7. BufferIsTail' /\ WaitersMatchParked'
  <2>1. BufferIsTail'
    BY <1>2, BufferFrame
  <2>2. WaitersMatchParked'
    BY <1>2, WaitersFrame
  <2>. QED
    BY <2>1, <2>2
<1>8. ASSUME NEW d \in Conns PROVE Ahead(d)'
  <2>1. CASE d = c
    <3>1. at'[c] = i + 1 /\ Evicted' = Evicted /\ Len(buffer) \in Nat
      BY <1>1, <1>2 DEF TypeOK, Evicted
    <3>2. buffer[i].seq < nextSeq /\ nextSeq \in Nat
      <4>1. nextSeq \in Nat
        BY DEF TypeOK
      <4>. QED
        BY <1>1, <1>3, <3>1, <4>1 DEF Evicted
    <3>3. OutBelow(c, nextSeq)' /\ OutBelow(c, Evicted + (i + 1))'
      <4>1. Evicted + (i + 1) \in Nat /\ buffer[i].seq < Evicted + (i + 1)
        BY <1>1, <1>3
      <4>2. \A k \in 1..Len(out'[c]) :
               out'[c][k].seq < nextSeq /\ out'[c][k].seq < Evicted + (i + 1)
        BY <1>5, <3>2, <4>1 DEF OutBelow
      <4>. QED
        BY <1>2, <3>1, <4>2 DEF OutBelow
    <3>. QED
      BY <2>1, <1>1, <1>2, <3>1, <3>3 DEF Ahead
  <2>2. CASE d # c
    BY <2>2, <1>2, <1>5 DEF CursorAhead, Ahead, OutBelow, TypeOK, Evicted
  <2>. QED
    BY <2>1, <2>2
<1>. QED
  BY <1>5, <1>6, <1>7, <1>8 DEF CursorAhead

LEMMA ParkStep ==
    ASSUME IInv, NEW c \in Conns, Park(c)
    PROVE  IInv'
<1>. USE DEF IInv
<1>1. /\ waiters' = Append(waiters, c) /\ st' = [st EXCEPT ![c] = "parked"]
      /\ c \notin aborted /\ st[c] # "parked"
      /\ UNCHANGED <<buffer, nextSeq, at, from, got, aborted, out, turn,
                     produced, opened>>
  BY DEF Park
<1>2. TypeOK'
  BY <1>1 DEF TypeOK
<1>3. BufferIsTail' /\ StreamInOrder'
  BY <1>1 DEF BufferIsTail, StreamInOrder
<1>4. WaitersMatchParked'
  <2>1. /\ Len(waiters') = Len(waiters) + 1 /\ Len(waiters) \in Nat
        /\ \A i \in 1..Len(waiters) : waiters'[i] = waiters[i]
        /\ waiters'[Len(waiters) + 1] = c
    BY <1>1 DEF TypeOK
  <2>2. \A i \in 1..Len(waiters) : waiters[i] # c
    BY <1>1 DEF WaitersMatchParked
  <2>3. \A i \in 1..Len(waiters') : i \in 1..Len(waiters) \/ i = Len(waiters) + 1
    BY <2>1
  <2>4. \A d \in Conns : st'[d] = IF d = c THEN "parked" ELSE st[d]
    BY <1>1 DEF TypeOK
  <2>. QED
    BY <1>1, <2>1, <2>2, <2>3, <2>4 DEF WaitersMatchParked
<1>5. CursorAhead'
  BY <1>1 DEF CursorAhead, Ahead, OutBelow, TypeOK, Evicted
<1>. QED
  BY <1>2, <1>3, <1>4, <1>5

LEMMA YieldLiveStep ==
    ASSUME IInv, NEW c \in Conns, YieldLive(c)
    PROVE  IInv'
<1>. USE DEF IInv
<1>1. /\ out' = [out EXCEPT ![c] = Append(@, got[c])]
      /\ st' = [st EXCEPT ![c] = "live"] /\ got' = [got EXCEPT ![c] = NoEnv]
      /\ st[c] = "woken" /\ c \notin aborted
      /\ UNCHANGED <<buffer, nextSeq, waiters, at, from, aborted, turn,
                     produced, opened>>
  BY DEF YieldLive
<1>2. got[c] \in Envelope /\ got[c].seq < nextSeq /\ OutBelow(c, got[c].seq)
  BY <1>1 DEF CursorAhead, Ahead
<1>3. /\ out' \in [Conns -> Seq(Envelope)]
      /\ StreamInOrder'
      /\ \A s \in Nat : got[c].seq < s => OutBelow(c, s)'
      /\ \A d \in Conns : d # c => out'[d] = out[d]
  BY <1>1, <1>2, AppendKeepsOrder
<1>4. TypeOK'
  BY <1>1, <1>3 DEF TypeOK
<1>5. BufferIsTail' /\ WaitersMatchParked'
  <2>1. BufferIsTail'
    BY <1>1, BufferFrame
  <2>2. \A d \in Conns : st'[d] = "parked" <=> st[d] = "parked"
    BY <1>1 DEF TypeOK
  <2>3. WaitersMatchParked'
    BY <1>1, <2>2, WaitersFrame
  <2>. QED
    BY <2>1, <2>3
<1>6. ASSUME NEW d \in Conns PROVE Ahead(d)'
  <2>1. CASE d = c
    BY <2>1, <1>1, <1>2, <1>3 DEF Ahead, TypeOK
  <2>2. CASE d # c
    BY <2>2, <1>1, <1>3 DEF CursorAhead, Ahead, OutBelow, TypeOK, Evicted
  <2>. QED
    BY <2>1, <2>2
<1>. QED
  BY <1>3, <1>4, <1>5, <1>6 DEF CursorAhead

(* The one waiter of c is spliced out, and c leaves "parked" with it. *)
LEMMA AbortStep ==
    ASSUME IInv, NEW c \in Conns, Abort(c)
    PROVE  IInv'
<1>. USE DEF IInv
<1>1. /\ aborted' = aborted \union {c}
      /\ UNCHANGED <<buffer, nextSeq, at, from, got, out, turn, produced, opened>>
  BY DEF Abort
<1>2. CASE st[c] = "parked"
  <2> DEFINE k == CHOOSE i \in 1..Len(waiters) : waiters[i] = c
  <2>1. waiters' = RemoveAt(waiters, k) /\ st' = [st EXCEPT ![c] = "woken"]
    BY <1>2 DEF Abort, OnAbort, WaiterSpliced
  <2>2. k \in 1..Len(waiters) /\ waiters[k] = c
    BY <1>2 DEF WaitersMatchParked
  <2> HIDE DEF k
  <2>3. /\ waiters' \in Seq(Conns) /\ Len(waiters') = Len(waiters) - 1
        /\ \A j \in 1..(Len(waiters) - 1) :
              waiters'[j] = IF j < k THEN waiters[j] ELSE waiters[j + 1]
    <3>. waiters \in Seq(Conns)
      BY DEF TypeOK
    <3>. QED
      BY <2>1, <2>2, SpliceFacts
  <2>4. Len(waiters) \in Nat /\ k \in Nat
    BY <2>2 DEF TypeOK
  <2>5. TypeOK'
    BY <1>1, <2>1, <2>3 DEF TypeOK
  <2>6. \A d \in Conns : st'[d] = IF d = c THEN "woken" ELSE st[d]
    BY <2>1 DEF TypeOK
  <2>7. WaitersMatchParked'
    <3>1. \A i, j \in 1..Len(waiters') : waiters'[i] = waiters'[j] => i = j
      <4>. TAKE i, j \in 1..Len(waiters')
      <4>1. PICK x \in 1..Len(waiters) :
                waiters'[i] = waiters[x] /\ x = IF i < k THEN i ELSE i + 1
        BY <2>3, <2>4
      <4>2. PICK y \in 1..Len(waiters) :
                waiters'[j] = waiters[y] /\ y = IF j < k THEN j ELSE j + 1
        BY <2>3, <2>4
      <4>3. waiters[x] = waiters[y] => x = y
        BY DEF WaitersMatchParked
      <4>. QED
        BY <4>1, <4>2, <4>3, <2>3, <2>4
    <3>2. ASSUME NEW j \in 1..Len(waiters')
          PROVE  waiters'[j] # c /\ waiters'[j] \notin aborted'
      <4>1. PICK i \in 1..Len(waiters) : i # k /\ waiters'[j] = waiters[i]
        BY <2>3, <2>4
      <4>2. waiters[i] # c
        BY <2>2, <4>1 DEF WaitersMatchParked
      <4>3. waiters[i] \notin aborted
        BY DEF WaitersMatchParked
      <4>. QED
        BY <1>1, <4>1, <4>2, <4>3
    <3>3. ASSUME NEW d \in Conns, d # c
          PROVE  (\E i \in 1..Len(waiters') : waiters'[i] = d)
                     <=> (\E i \in 1..Len(waiters) : waiters[i] = d)
      <4>1. ASSUME NEW i \in 1..Len(waiters), waiters[i] = d
            PROVE  \E j \in 1..Len(waiters') : waiters'[j] = d
        <5>1. i # k
          BY <2>2, <3>3, <4>1
        <5>2. CASE i < k
          BY <2>2, <2>3, <2>4, <4>1, <5>2
        <5>3. CASE i > k
          <6>1. i - 1 \in 1..(Len(waiters) - 1) /\ ~(i - 1 < k) /\ (i - 1) + 1 = i
            BY <2>2, <2>4, <5>3
          <6>2. waiters'[i - 1] = waiters[i]
            BY <2>3, <6>1
          <6>. QED
            BY <2>3, <4>1, <6>1, <6>2
        <5>. QED
          BY <2>4, <5>1, <5>2, <5>3
      <4>2. ASSUME NEW j \in 1..Len(waiters'), waiters'[j] = d
            PROVE  \E i \in 1..Len(waiters) : waiters[i] = d
        BY <2>3, <2>4, <4>2
      <4>. QED
        BY <4>1, <4>2
    <3>. QED
      BY <2>6, <3>1, <3>2, <3>3 DEF WaitersMatchParked
  <2>8. BufferIsTail' /\ StreamInOrder' /\ CursorAhead'
    BY <1>1, <2>6 DEF BufferIsTail, StreamInOrder, CursorAhead, Ahead, OutBelow,
                      Evicted
  <2>. QED
    BY <2>5, <2>7, <2>8
<1>3. CASE st[c] # "parked"
  <2>1. UNCHANGED <<waiters, st>>
    BY <1>3 DEF Abort, OnAbort
  <2>2. \A i \in 1..Len(waiters) : waiters[i] # c
    BY <1>3 DEF WaitersMatchParked
  <2>3. TypeOK'
    BY <1>1, <2>1 DEF TypeOK
  <2>4. BufferIsTail'
    BY <1>1, BufferFrame
  <2>5. WaitersMatchParked'
    <3>1. \A i \in 1..Len(waiters') : waiters'[i] \notin aborted'
      BY <1>1, <2>1, <2>2 DEF WaitersMatchParked
    <3>. QED
      BY <2>1, <3>1 DEF WaitersMatchParked
  <2>6. StreamInOrder' /\ CursorAhead'
    BY <1>1, <2>1 DEF StreamInOrder, CursorAhead, Ahead, OutBelow, Evicted
  <2>. QED
    BY <2>3, <2>4, <2>5, <2>6
<1>. QED
  BY <1>2, <1>3

LEMMA FinishStep ==
    ASSUME IInv, NEW c \in Conns, Finish(c)
    PROVE  IInv'
<1>. USE DEF IInv
<1>1. /\ c \in aborted /\ aborted' = aborted \ {c}
      /\ st[c] # "parked" /\ st' = [st EXCEPT ![c] = "closed"]
      /\ at' = [at EXCEPT ![c] = 1] /\ from' = [from EXCEPT ![c] = 0]
      /\ got' = [got EXCEPT ![c] = NoEnv]
      /\ UNCHANGED <<buffer, nextSeq, waiters, out, turn, produced, opened>>
  BY DEF Finish
<1>2. TypeOK'
  BY <1>1 DEF TypeOK
<1>3. BufferIsTail' /\ StreamInOrder' /\ WaitersMatchParked'
  <2>1. BufferIsTail'
    BY <1>1, BufferFrame
  <2>2. StreamInOrder'
    BY <1>1 DEF StreamInOrder
  <2>3. \A d \in Conns : st'[d] = "parked" <=> st[d] = "parked"
    BY <1>1 DEF TypeOK
  <2>4. WaitersMatchParked'
    <3>1. \A i \in 1..Len(waiters') : waiters'[i] \notin aborted'
      BY <1>1 DEF WaitersMatchParked
    <3>2. \A d \in Conns : st'[d] = "parked"
                                <=> \E i \in 1..Len(waiters) : waiters[i] = d
      BY <2>3 DEF WaitersMatchParked
    <3>. QED
      BY <1>1, <3>1, <3>2 DEF WaitersMatchParked
  <2>. QED
    BY <2>1, <2>2, <2>4
<1>4. CursorAhead'
  BY <1>1 DEF CursorAhead, Ahead, OutBelow, TypeOK, Evicted
<1>. QED
  BY <1>2, <1>3, <1>4

(* Appending to the bounded buffer keeps it a tail of what was emitted. *)
LEMMA EmitBuffer ==
    ASSUME IInv, NEW m \in Turns, Emit(m)
    PROVE  /\ buffer' \in Seq(Envelope)
           /\ nextSeq' = nextSeq + 1
           /\ BufferIsTail'
           /\ Len(buffer') >= Len(buffer)
           /\ Evicted' >= Evicted
<1> DEFINE e == [seq |-> nextSeq, turn |-> m, n |-> produced[m] + 1]
           b == Append(buffer, e)
<1>1. nextSeq' = nextSeq + 1 /\ buffer' = IF Len(buffer) < MaxBuffer THEN b ELSE Tail(b)
  BY DEF Emit, Retain, Stamp
<1>2. e \in Envelope /\ e.seq = nextSeq
  BY DEF IInv, TypeOK, Envelope
<1>3. buffer \in Seq(Envelope) /\ Len(buffer) \in Nat /\ nextSeq \in Nat
  BY LenProperties DEF IInv, TypeOK
<1> HIDE DEF e
<1>4. /\ b \in Seq(Envelope) /\ Len(b) = Len(buffer) + 1 /\ b # <<>>
      /\ \A i \in 1..Len(buffer) : b[i] = buffer[i]
      /\ b[Len(buffer) + 1] = e
  BY <1>2, <1>3
<1> HIDE DEF b
<1>5. \A i \in 1..Len(b) : b[i].seq = nextSeq - Len(b) + i
  <2>. TAKE i \in 1..Len(b)
  <2>1. CASE i \in 1..Len(buffer)
    BY <2>1, <1>3, <1>4 DEF IInv, BufferIsTail
  <2>2. CASE i = Len(buffer) + 1
    BY <2>2, <1>2, <1>3, <1>4
  <2>. QED
    BY <2>1, <2>2, <1>3, <1>4
<1>6. CASE ~(Len(buffer) < MaxBuffer)
  <2>1. buffer' = Tail(b)
    BY <1>1, <1>6
  <2>2. /\ Tail(b) \in Seq(Envelope) /\ Len(Tail(b)) = Len(buffer)
        /\ \A i \in 1..Len(Tail(b)) : Tail(b)[i] = b[i + 1]
    BY <1>3, <1>4, HeadTailProperties
  <2>3. \A i \in 1..Len(buffer) : buffer'[i].seq = nextSeq' - 1 - Len(buffer) + i
    BY <2>1, <2>2, <1>1, <1>3, <1>4, <1>5
  <2>. QED
    <3>1. Len(buffer') = Len(buffer) /\ Len(buffer) <= MaxBuffer /\ Len(buffer) < nextSeq
      BY <2>1, <2>2 DEF IInv, BufferIsTail
    <3>2. BufferIsTail'
      BY <2>3, <3>1, <1>1, <1>3, BoundsAssumption DEF BufferIsTail
    <3>. QED
      BY <2>1, <2>2, <3>1, <3>2, <1>1, <1>3 DEF Evicted
<1>7. CASE Len(buffer) < MaxBuffer
  <2>1. buffer' = b
    BY <1>1, <1>7
  <2>. QED
    <3>1. Len(buffer') = Len(buffer) + 1 /\ Len(buffer) < nextSeq
      BY <2>1, <1>4 DEF IInv, BufferIsTail
    <3>2. \A i \in 1..Len(buffer') : buffer'[i].seq = nextSeq' - 1 - Len(buffer') + i
      BY <2>1, <3>1, <1>1, <1>3, <1>4, <1>5
    <3>3. BufferIsTail'
      BY <2>1, <3>1, <3>2, <1>1, <1>3, <1>4, <1>7, BoundsAssumption DEF BufferIsTail
    <3>. QED
      BY <2>1, <3>1, <3>3, <1>1, <1>3, <1>4 DEF Evicted
<1>. QED
  BY <1>6, <1>7

(* emit pops at most the first waiter, and its owner is the one woken. *)
LEMMA EmitStep ==
    ASSUME IInv, NEW m \in Turns, Emit(m)
    PROVE  IInv'
<1>. USE DEF IInv
<1> DEFINE e == [seq |-> nextSeq, turn |-> m, n |-> produced[m] + 1]
<1>1. /\ produced' = [produced EXCEPT ![m] = @ + 1]
      /\ UNCHANGED <<at, from, aborted, out, turn, opened>>
  BY DEF Emit
<1>2. /\ buffer' \in Seq(Envelope) /\ nextSeq' = nextSeq + 1
      /\ BufferIsTail' /\ Len(buffer') >= Len(buffer) /\ Evicted' >= Evicted
  BY EmitBuffer
<1>3. e \in Envelope /\ e.seq = nextSeq /\ nextSeq \in Nat
  BY DEF TypeOK, Envelope
<1>4. /\ Len(buffer) \in Nat /\ Len(buffer') \in Nat
      /\ Evicted \in Int /\ Evicted' \in Int
  BY <1>2, LenProperties DEF TypeOK, Evicted
<1>5. StreamInOrder'
  BY <1>1 DEF StreamInOrder
<1>6. ASSUME NEW d \in Conns
      PROVE  /\ OutBelow(d, nextSeq)'
             /\ st[d] = "replay" => /\ at'[d] <= Len(buffer') + 1
                                    /\ OutBelow(d, Evicted + at[d])'
             /\ \A k \in 1..Len(out'[d]) : out'[d][k].seq < nextSeq
  <2>1. Ahead(d) /\ at[d] \in Nat
    BY DEF CursorAhead, TypeOK
  <2>2. \A k \in 1..Len(out[d]) : out[d][k].seq \in Nat
    BY EnvelopeElements DEF TypeOK
  <2>3. \A s, t \in Int : OutBelow(d, s) /\ s <= t => OutBelow(d, t)
    BY <2>2 DEF OutBelow
  <2>4. OutBelow(d, nextSeq) /\ OutBelow(d, nextSeq + 1)
    BY <2>1, <2>2, <1>3 DEF Ahead, OutBelow
  <2>5. st[d] = "replay" => /\ at[d] <= Len(buffer) + 1
                            /\ OutBelow(d, Evicted + at[d])
    BY <2>1 DEF Ahead
  <2>6. st[d] = "replay" => OutBelow(d, Evicted' + at[d])
    BY <2>1, <2>3, <2>5, <1>2, <1>4
  <2>. QED
    BY <2>1, <2>4, <2>5, <2>6, <1>1, <1>2, <1>4 DEF OutBelow
<1>7. CASE waiters = <<>>
  <2>1. UNCHANGED <<waiters, st, got>>
    BY <1>7 DEF Emit
  <2>2. TypeOK'
    BY <1>1, <1>2, <1>3, <2>1 DEF TypeOK
  <2>3. WaitersMatchParked'
    BY <1>1, <2>1 DEF WaitersMatchParked
  <2>4. CursorAhead'
    BY <1>1, <1>2, <1>3, <1>6, <2>1 DEF CursorAhead, Ahead, OutBelow, Envelope
  <2>. QED
    BY <1>2, <1>5, <2>2, <2>3, <2>4
<1>8. CASE waiters # <<>>
  <2> DEFINE w == Head(waiters)
  <2>1. /\ waiters' = Tail(waiters)
        /\ st' = [st EXCEPT ![w] = "woken"]
        /\ got' = [got EXCEPT ![w] = e]
    BY <1>8 DEF Emit, Stamp
  <2>2. /\ w \in Conns /\ w = waiters[1] /\ Len(waiters) \in Nat \ {0}
        /\ waiters' \in Seq(Conns) /\ Len(waiters') = Len(waiters) - 1
        /\ \A i \in 1..(Len(waiters) - 1) : waiters'[i] = waiters[i + 1]
    BY <1>8, <2>1, HeadTailProperties DEF TypeOK
  <2> HIDE DEF w, e
  <2>3. TypeOK'
    <3>1. st' \in [Conns -> {"closed", "replay", "parked", "woken", "live"}]
      BY <2>1 DEF TypeOK
    <3>2. got' \in [Conns -> Envelope \union {NoEnv}]
      BY <1>3, <2>1 DEF TypeOK
    <3>3. nextSeq' \in Nat \ {0} /\ produced' \in [Turns -> Nat]
      BY <1>1, <1>2 DEF TypeOK
    <3>4. UNCHANGED <<at, from, aborted, out, turn, opened>>
      BY <1>1
    <3>. QED
      BY <1>2, <2>2, <3>1, <3>2, <3>3, <3>4 DEF TypeOK
  <2>4. \A d \in Conns : /\ st'[d] = IF d = w THEN "woken" ELSE st[d]
                         /\ got'[d] = IF d = w THEN e ELSE got[d]
    BY <2>1 DEF TypeOK
  <2>5. WaitersMatchParked'
    <3>1. \A i, j \in 1..Len(waiters') : waiters'[i] = waiters'[j] => i = j
      <4>. TAKE i, j \in 1..Len(waiters')
      <4>1. /\ waiters'[i] = waiters[i + 1] /\ i + 1 \in 1..Len(waiters)
            /\ waiters'[j] = waiters[j + 1] /\ j + 1 \in 1..Len(waiters)
        BY <2>2
      <4>2. waiters[i + 1] = waiters[j + 1] => i + 1 = j + 1
        BY <4>1 DEF WaitersMatchParked
      <4>. QED
        BY <4>1, <4>2
    <3>2. ASSUME NEW i \in 1..Len(waiters')
          PROVE  waiters'[i] # w /\ waiters'[i] \notin aborted'
      <4>1. waiters'[i] = waiters[i + 1] /\ i + 1 \in 1..Len(waiters) /\ i + 1 # 1
        BY <2>2
      <4>2. waiters[i + 1] # waiters[1]
        BY <2>2, <4>1 DEF WaitersMatchParked
      <4>3. waiters[i + 1] \notin aborted
        BY <4>1 DEF WaitersMatchParked
      <4>. QED
        BY <1>1, <2>2, <4>1, <4>2, <4>3
    <3>3. ASSUME NEW d \in Conns, d # w
          PROVE  (\E i \in 1..Len(waiters') : waiters'[i] = d)
                     <=> (\E i \in 1..Len(waiters) : waiters[i] = d)
      <4>1. ASSUME NEW i \in 1..Len(waiters), waiters[i] = d
            PROVE  \E j \in 1..Len(waiters') : waiters'[j] = d
        <5>1. i - 1 \in 1..(Len(waiters) - 1) /\ (i - 1) + 1 = i
          BY <2>2, <3>3, <4>1
        <5>. QED
          BY <2>2, <4>1, <5>1
      <4>2. ASSUME NEW j \in 1..Len(waiters'), waiters'[j] = d
            PROVE  \E i \in 1..Len(waiters) : waiters[i] = d
        BY <2>2, <4>2
      <4>. QED
        BY <4>1, <4>2
    <3>. QED
      BY <2>4, <3>1, <3>2, <3>3 DEF WaitersMatchParked
  <2>6. ASSUME NEW d \in Conns PROVE Ahead(d)'
    <3>1. CASE d = w
      BY <3>1, <1>2, <1>3, <1>6, <2>4 DEF Ahead, OutBelow
    <3>2. CASE d # w
      <4>1. Ahead(d)
        BY DEF CursorAhead
      <4>2. (st[d] = "woken" /\ d \notin aborted) => got[d].seq \in Nat
        BY <4>1 DEF Ahead, Envelope
      <4>. QED
        <5>1. /\ OutBelow(d, nextSeq)'
              /\ st'[d] = "replay" => /\ at'[d] <= Len(buffer') + 1
                                      /\ OutBelow(d, Evicted + at[d])'
          BY <3>2, <1>6, <2>4
        <5>2. (st'[d] = "woken" /\ d \notin aborted') =>
                  /\ got'[d] \in Envelope /\ got'[d].seq < nextSeq'
                  /\ OutBelow(d, got[d].seq)'
          BY <3>2, <4>1, <4>2, <1>1, <1>2, <1>3, <2>4 DEF Ahead, OutBelow
        <5>. QED
          BY <5>1, <5>2 DEF Ahead
    <3>. QED
      BY <3>1, <3>2
  <2>. QED
    BY <1>2, <1>5, <2>3, <2>5, <2>6 DEF CursorAhead
<1>. QED
  BY <1>7, <1>8

(* sendMessage materialises the session exactly as a connection does. *)
LEMMA SendMessageStep ==
    ASSUME IInv, NEW m \in Turns, SendMessage(m)
    PROVE  IInv'
<1>. USE DEF IInv
<1>1. /\ buffer' \in Seq(Envelope) /\ nextSeq' \in Nat \ {0}
      /\ nextSeq' >= nextSeq /\ Len(buffer') >= Len(buffer)
      /\ Evicted' = Evicted /\ BufferIsTail'
  BY MaterialiseFacts DEF SendMessage, Evicted
<1>2. UNCHANGED <<waiters, st, at, from, got, aborted, out>>
  BY DEF SendMessage, gen
<1>3. TypeOK'
  BY <1>1 DEF TypeOK, SendMessage, gen
<1>4. WaitersMatchParked' /\ StreamInOrder'
  BY <1>2 DEF WaitersMatchParked, StreamInOrder
<1>5. ASSUME NEW d \in Conns PROVE Ahead(d)'
  <2>1. Ahead(d) /\ at[d] \in Nat /\ nextSeq \in Nat /\ Len(buffer) \in Nat
        /\ Len(buffer') \in Nat
    BY <1>1, LenProperties DEF CursorAhead, TypeOK
  <2>2. \A k \in 1..Len(out[d]) : out[d][k].seq \in Nat
    BY EnvelopeElements DEF TypeOK
  <2>3. (st[d] = "woken" /\ d \notin aborted) => got[d].seq \in Nat
    BY <2>1 DEF Ahead, Envelope
  <2>4. \A s, t \in Int : OutBelow(d, s) /\ s <= t => OutBelow(d, t)
    BY <2>2 DEF OutBelow
  <2>5. OutBelow(d, nextSeq)'
    BY <1>1, <1>2, <2>1, <2>4 DEF Ahead, OutBelow
  <2>6. st'[d] = "replay" => /\ at'[d] <= Len(buffer') + 1
                             /\ OutBelow(d, Evicted + at[d])'
    BY <1>1, <1>2, <2>1 DEF Ahead, OutBelow
  <2>7. (st'[d] = "woken" /\ d \notin aborted') =>
            /\ got'[d] \in Envelope /\ got'[d].seq < nextSeq'
            /\ OutBelow(d, got[d].seq)'
    BY <1>1, <1>2, <2>1, <2>3 DEF Ahead, OutBelow
  <2>. QED
    BY <2>5, <2>6, <2>7 DEF Ahead
<1>. QED
  BY <1>1, <1>3, <1>4, <1>5 DEF CursorAhead

(* A step of the runtime in which a client may ask for any cursor: those of  *)
(* the specification, and those of the tabs that retry or resume.            *)
RuntimeNext ==
    \/ \E c \in Conns : Generator(c) \/ Abort(c) \/ \E f \in Nat : Connect(c, f)
    \/ \E m \in Turns : SendMessage(m) \/ RunResolved(m) \/ Emit(m) \/ PumpEnds(m)

LEMMA NextIsRuntimeNext == Next => RuntimeNext
<1>. Cursors \subseteq Nat
  BY BoundsAssumption
<1>. QED
  BY DEF Next, RuntimeNext

LEMMA StepIInv == IInv /\ [RuntimeNext]_vars => IInv'
<1>. SUFFICES ASSUME IInv, [RuntimeNext]_vars PROVE IInv'
  OBVIOUS
<1>1. ASSUME NEW c \in Conns, Generator(c) PROVE IInv'
  BY <1>1, ReplayYieldStep, ParkStep, YieldLiveStep, FinishStep DEF Generator
<1>2. ASSUME NEW c \in Conns, Abort(c) PROVE IInv'
  BY <1>2, AbortStep
<1>3. ASSUME NEW c \in Conns, NEW f \in Nat, Connect(c, f) PROVE IInv'
  BY <1>3, ConnectStep
<1>4. ASSUME NEW m \in Turns, SendMessage(m) PROVE IInv'
  BY <1>4, SendMessageStep
<1>5. ASSUME NEW m \in Turns, RunResolved(m) \/ PumpEnds(m) PROVE IInv'
  <2>1. TypeOK'
    BY <1>5 DEF RunResolved, PumpEnds, gen, IInv, TypeOK
  <2>. QED
    BY <1>5, <2>1, TurnOnly DEF RunResolved, PumpEnds, gen
<1>6. ASSUME NEW m \in Turns, Emit(m) PROVE IInv'
  BY <1>6, EmitStep
<1>7. CASE UNCHANGED vars
  <2>1. TypeOK'
    BY <1>7 DEF vars, IInv, TypeOK
  <2>. QED
    BY <1>7, <2>1, TurnOnly DEF vars
<1>. QED
  BY <1>1, <1>2, <1>3, <1>4, <1>5, <1>6, <1>7 DEF RuntimeNext

LEMMA NextIInv == IInv /\ [Next]_vars => IInv'
  BY StepIInv, NextIsRuntimeNext

-------------------------------------------------------------------------------
(* Every reachable state is well typed. *)
THEOREM TypeCorrect == Spec => []TypeOK
  BY InitIInv, NextIInv, PTL DEF Spec, IInv

(* Retention: for every MAX_BUFFER the buffer is a gapless tail of the       *)
(* envelopes emitted so far (emit, session-runtime.ts).                      *)
THEOREM RetentionCorrect == Spec => []BufferIsTail
  BY InitIInv, NextIInv, PTL DEF Spec, IInv

(* Wake-ups: for any number of connections, parked generators and queued     *)
(* waiters correspond one to one, and no waiter outlives its signal.         *)
THEOREM WaitersCorrect == Spec => []WaitersMatchParked
  BY InitIInv, NextIInv, PTL DEF Spec, IInv

(* Delivery: no connection ever sees an envelope twice or out of order       *)
(* (streamSession, across replay, eviction and the switch to live).          *)
THEOREM OrderCorrect == Spec => []StreamInOrder
  BY InitIInv, NextIInv, PTL DEF Spec, IInv

-------------------------------------------------------------------------------
(* What a replay has yielded *)

(* As long as nothing was evicted, a connection in its replay loop has been  *)
(* handed every envelope before its index that its cursor asks for.          *)
ReplayedTo(c) ==
    st[c] = "replay" /\ Len(buffer) < MaxBuffer =>
        \A i \in 1..(at[c] - 1) : buffer[i].seq > from[c] => Yielded(c, buffer[i])

ReplaySoFar == \A c \in Conns : ReplayedTo(c)

(* Below capacity the buffer only grows at its end. *)
OnlyGrows ==
    /\ Len(buffer) \in Nat /\ Len(buffer') \in Nat /\ Len(buffer) <= Len(buffer')
    /\ Len(buffer') < MaxBuffer => \A i \in 1..Len(buffer) : buffer'[i] = buffer[i]

LEMMA StepGrows == ASSUME IInv, [RuntimeNext]_vars PROVE OnlyGrows
<1>1. buffer \in Seq(Envelope) /\ Len(buffer) \in Nat /\ MaxBuffer \in Nat
  BY LenProperties, BoundsAssumption DEF IInv, TypeOK
<1>2. CASE GetOrCreateSession
  <2>1. CASE nextSeq = FirstSeq
    <3>1. Len(buffer) = 0
      BY <2>1, <1>1 DEF IInv, TypeOK, BufferIsTail, FirstSeq
    <3>2. buffer' \in Seq(Envelope)
      BY <1>2, MaterialiseFacts DEF IInv
    <3>. QED
      BY <3>1, <3>2, LenProperties DEF OnlyGrows
  <2>2. CASE nextSeq # FirstSeq
    <3>1. buffer' = buffer
      BY <1>2, <2>2 DEF GetOrCreateSession
    <3>. QED
      BY <3>1, <1>1 DEF OnlyGrows
  <2>. QED
    BY <2>1, <2>2
<1>3. ASSUME NEW m \in Turns, Emit(m) PROVE OnlyGrows
  <2> DEFINE e == [seq |-> nextSeq, turn |-> m, n |-> produced[m] + 1]
  <2>1. buffer' = IF Len(buffer) < MaxBuffer THEN Append(buffer, e)
                  ELSE Tail(Append(buffer, e))
    BY <1>3 DEF Emit, Retain, Stamp
  <2>2. buffer' \in Seq(Envelope) /\ Len(buffer') >= Len(buffer)
    BY <1>3, EmitBuffer
  <2>3. Len(buffer') \in Nat
    BY <2>2, LenProperties
  <2>4. e \in Envelope
    BY DEF IInv, TypeOK, Envelope
  <2> HIDE DEF e
  <2>5. CASE Len(buffer) < MaxBuffer
    <3>1. \A i \in 1..Len(buffer) : Append(buffer, e)[i] = buffer[i]
      BY <1>1, <2>4
    <3>. QED
      BY <1>1, <2>1, <2>2, <2>3, <2>5, <3>1 DEF OnlyGrows
  <2>6. CASE ~(Len(buffer) < MaxBuffer)
    BY <1>1, <2>2, <2>3, <2>6 DEF OnlyGrows
  <2>. QED
    BY <2>5, <2>6
<1>4. CASE UNCHANGED buffer
  BY <1>1, <1>4 DEF OnlyGrows
<1>. QED
  BY <1>2, <1>3, <1>4 DEF RuntimeNext, Generator, ReplayYield, Park, YieldLive, Finish,
     Abort, Connect, SendMessage, RunResolved, PumpEnds, vars

(* A connection that stays where it is in its replay loop, and is handed     *)
(* nothing or more, while the buffer grows.                                  *)
LEMMA ReplayStays ==
    ASSUME IInv, OnlyGrows, NEW d \in Conns, ReplayedTo(d),
           st'[d] = "replay" => st[d] = "replay" /\ UNCHANGED <<at[d], from[d], out[d]>>
    PROVE  ReplayedTo(d)'
<1>. SUFFICES ASSUME st'[d] = "replay", Len(buffer') < MaxBuffer,
                     NEW i \in 1..(at'[d] - 1), buffer'[i].seq > from'[d]
              PROVE  Yielded(d, buffer[i])'
  BY DEF ReplayedTo
<1>1. st[d] = "replay" /\ UNCHANGED <<at[d], from[d], out[d]>>
  OBVIOUS
<1>2. at[d] \in Nat /\ at[d] <= Len(buffer) + 1
  BY <1>1 DEF IInv, TypeOK, CursorAhead, Ahead
<1>3. i \in 1..Len(buffer) /\ Len(buffer) < MaxBuffer
  BY <1>1, <1>2, BoundsAssumption DEF OnlyGrows
<1>4. buffer'[i] = buffer[i]
  BY <1>3 DEF OnlyGrows
<1>5. Yielded(d, buffer[i])
  BY <1>1, <1>3, <1>4 DEF ReplayedTo
<1>. QED
  BY <1>1, <1>4, <1>5 DEF Yielded

(* The replay loop hands over the next envelope and skips what is before.    *)
LEMMA ReplayAdvances ==
    ASSUME IInv, NEW c \in Conns, ReplayedTo(c), ReplayYield(c)
    PROVE  ReplayedTo(c)'
<1>. PICK i \in at[c]..Len(buffer) :
        /\ \A j \in at[c]..(i - 1) : Skipped(c, j)
        /\ out' = [out EXCEPT ![c] = Append(@, buffer[i])]
        /\ at' = [at EXCEPT ![c] = i + 1]
  BY DEF ReplayYield
<1>1. /\ UNCHANGED <<buffer, st, from>> /\ st[c] = "replay"
      /\ at[c] \in Nat \ {0} /\ Len(buffer) \in Nat /\ i \in 1..Len(buffer)
      /\ out[c] \in Seq(Envelope) /\ buffer[i] \in Envelope
      /\ at'[c] = i + 1 /\ out'[c] = Append(out[c], buffer[i])
      /\ from[c] \in Nat
  BY DEF ReplayYield, IInv, TypeOK
<1>2. /\ Len(out[c]) \in Nat /\ Len(out'[c]) = Len(out[c]) + 1
      /\ \A k \in 1..Len(out[c]) : out'[c][k] = out[c][k]
      /\ out'[c][Len(out[c]) + 1] = buffer[i]
  BY <1>1
<1>3. \A e : Yielded(c, e) => Yielded(c, e)'
  BY <1>2 DEF Yielded
<1>4. Yielded(c, buffer[i])'
  BY <1>1, <1>2 DEF Yielded
<1>. SUFFICES ASSUME Len(buffer) < MaxBuffer, NEW j \in 1..i, buffer[j].seq > from[c]
              PROVE  Yielded(c, buffer[j])'
  BY <1>1 DEF ReplayedTo
<1>5. CASE j < at[c]
  BY <1>1, <1>3, <1>5 DEF ReplayedTo
<1>6. CASE j \in at[c]..(i - 1)
  <2>1. buffer[j].seq \in Nat
    BY <1>1, EnvelopeElements DEF IInv, TypeOK
  <2>. QED
    BY <1>1, <1>6, <2>1 DEF Skipped
<1>7. CASE j = i
  BY <1>4, <1>7, <1>1
<1>. QED
  BY <1>1, <1>5, <1>6, <1>7

LEMMA ReplayNext == IInv /\ ReplaySoFar /\ [RuntimeNext]_vars => ReplaySoFar'
<1>. SUFFICES ASSUME IInv, ReplaySoFar, [RuntimeNext]_vars, NEW d \in Conns
              PROVE  ReplayedTo(d)'
  BY DEF ReplaySoFar
<1>. DEFINE Stays == st'[d] = "replay" => st[d] = "replay" /\ UNCHANGED <<at[d], from[d], out[d]>>
<1>1. Stays => ReplayedTo(d)'
  BY StepGrows, ReplayStays DEF ReplaySoFar
<1>2. ASSUME NEW c \in Conns, ReplayYield(c) PROVE ReplayedTo(d)'
  <2>1. CASE c = d
    BY <1>2, <2>1, ReplayAdvances DEF ReplaySoFar
  <2>2. CASE c # d
    <3>1. Stays
      BY <1>2, <2>2 DEF ReplayYield, IInv, TypeOK
    <3>. QED
      BY <1>1, <3>1
  <2>. QED
    BY <2>1, <2>2
<1>3. ASSUME NEW c \in Conns, Park(c) \/ YieldLive(c) \/ Finish(c) PROVE ReplayedTo(d)'
  <2>1. Stays
    BY <1>3 DEF Park, YieldLive, Finish, IInv, TypeOK
  <2>. QED
    BY <1>1, <2>1
<1>4. ASSUME NEW c \in Conns, Abort(c) PROVE ReplayedTo(d)'
  <2>1. Stays
    BY <1>4 DEF Abort, OnAbort, IInv, TypeOK
  <2>. QED
    BY <1>1, <2>1
<1>5. ASSUME NEW c \in Conns, NEW f \in Nat, Connect(c, f) PROVE ReplayedTo(d)'
  <2>1. CASE c = d
    <3>1. at'[d] = 1
      BY <1>5, <2>1 DEF Connect, IInv, TypeOK
    <3>. QED
      BY <3>1 DEF ReplayedTo
  <2>2. CASE c # d
    <3>1. Stays
      BY <1>5, <2>2 DEF Connect, IInv, TypeOK
    <3>. QED
      BY <1>1, <3>1
  <2>. QED
    BY <2>1, <2>2
<1>6. ASSUME NEW m \in Turns, SendMessage(m) \/ RunResolved(m) \/ PumpEnds(m)
      PROVE  ReplayedTo(d)'
  <2>1. Stays
    BY <1>6 DEF SendMessage, RunResolved, PumpEnds, gen
  <2>. QED
    BY <1>1, <2>1
<1>7. ASSUME NEW m \in Turns, Emit(m) PROVE ReplayedTo(d)'
  <2>1. UNCHANGED <<at, from, out>> /\ (st'[d] = st[d] \/ st'[d] = "woken")
    BY <1>7 DEF Emit, IInv, TypeOK
  <2>. QED
    BY <1>1, <2>1
<1>8. CASE UNCHANGED vars
  <2>1. Stays
    BY <1>8 DEF vars
  <2>. QED
    BY <1>1, <2>1
<1>. QED
  BY <1>2, <1>3, <1>4, <1>5, <1>6, <1>7, <1>8 DEF RuntimeNext, Generator

(* Only Park leaves the replay loop for the live one, at the buffer's end.   *)
LEMMA ReplayLeaves ==
    ASSUME IInv, ReplaySoFar, [RuntimeNext]_vars, NEW c \in Conns, LeavesReplay(c)
    PROVE  RetainedSeen(c) \/ Len(buffer) = MaxBuffer
<1>1. st[c] = "replay" /\ st'[c] = "parked"
  BY DEF LeavesReplay
<1>2. Park(c)
  <2>1. ASSUME NEW d \in Conns, Generator(d) PROVE Park(c)
    BY <1>1, <2>1 DEF Generator, ReplayYield, Park, YieldLive, Finish, IInv, TypeOK
  <2>2. ASSUME NEW d \in Conns, Abort(d) \/ \E f \in Nat : Connect(d, f) PROVE FALSE
    BY <1>1, <2>2 DEF Abort, OnAbort, Connect, IInv, TypeOK
  <2>3. ASSUME NEW m \in Turns, Emit(m) PROVE FALSE
    BY <1>1, <2>3 DEF Emit, IInv, TypeOK
  <2>4. ASSUME NEW m \in Turns, SendMessage(m) \/ RunResolved(m) \/ PumpEnds(m) PROVE FALSE
    BY <1>1, <2>4 DEF SendMessage, RunResolved, PumpEnds, gen
  <2>5. CASE UNCHANGED vars
    BY <1>1, <2>5 DEF vars
  <2>. QED
    BY <2>1, <2>2, <2>3, <2>4, <2>5 DEF RuntimeNext
<1>3. \A i \in at[c]..Len(buffer) : Skipped(c, i)
  BY <1>1, <1>2 DEF Park
<1>4. /\ at[c] \in Nat \ {0} /\ from[c] \in Nat /\ Len(buffer) \in Nat
      /\ \A i \in 1..Len(buffer) : buffer[i].seq \in Nat
  BY EnvelopeElements DEF IInv, TypeOK
<1>5. Len(buffer) <= MaxBuffer
  BY DEF IInv, BufferIsTail
<1>. SUFFICES ASSUME Len(buffer) < MaxBuffer, NEW i \in 1..Len(buffer), buffer[i].seq > from[c]
              PROVE  Yielded(c, buffer[i])
  BY <1>4, <1>5, BoundsAssumption DEF RetainedSeen
<1>6. i < at[c]
  BY <1>3, <1>4 DEF Skipped
<1>. QED
  BY <1>1, <1>4, <1>6 DEF ReplaySoFar, ReplayedTo

(* Replay: for every MAX_BUFFER, a generator that goes from its replay to    *)
(* waiting has yielded every retained envelope above its cursor, unless the  *)
(* buffer is full and may have evicted one under it.                         *)
THEOREM ReplayCorrect == Spec => ReplayCompleteBelowCapacity
<1>1. Init => ReplaySoFar
  BY DEF Init, ReplaySoFar, ReplayedTo
<1>2. IInv /\ ReplaySoFar /\ [RuntimeNext]_vars =>
          [\A c \in Conns : LeavesReplay(c) => RetainedSeen(c) \/ Len(buffer) = MaxBuffer]_vars
  BY ReplayLeaves
<1>. QED
  BY InitIInv, NextIInv, <1>1, ReplayNext, <1>2, NextIsRuntimeNext, PTL
     DEF Spec, ReplayCompleteBelowCapacity

-------------------------------------------------------------------------------
(* The tabs of the Session lens *)

SceneBelow(t, s) == \A j \in 1..Len(scene[t]) : scene[t][j].seq < s

LensTypeOK ==
    /\ tabConn \in [Tabs -> Conns \union {NoConn}]
    /\ url \in [Tabs -> Nat]
    /\ mounted \subseteq Tabs
    /\ read \in [Tabs -> Nat]
    /\ lastSeq \in [Tabs -> Nat]
    /\ scene \in [Tabs -> Seq(Envelope)]
    /\ retries \subseteq Tabs

(* A slot is reused only after its signal was consumed. *)
ClosedIsClean == \A c \in Conns : st[c] = "closed" => c \notin aborted

(* The connection a tab reads is open, answers the tab's URL, and what the   *)
(* tab has read of it is in the tab's scene.                                 *)
HeldOpen(t, c) ==
    /\ st[c] # "closed"
    /\ c \notin aborted
    /\ from[c] = url[t]
    /\ read[t] <= Len(out[c])
    /\ \A k \in 1..read[t] : \E j \in 1..Len(scene[t]) : scene[t][j] = out[c][k]

(* A scene holds nothing that is not emitted yet, and lastSeq covers it.     *)
SceneSeen(t) ==
    /\ SceneBelow(t, nextSeq)
    /\ \A j \in 1..Len(scene[t]) : scene[t][j].seq <= lastSeq[t]

(* What the connection still has for the tab lies above its scene: the       *)
(* frames not read yet, what the replay goes on to yield, and the envelope   *)
(* its waiter was resolved with.                                             *)
SceneAhead(t, c) ==
    /\ \A k \in (read[t] + 1)..Len(out[c]) : SceneBelow(t, out[c][k].seq)
    /\ st[c] = "replay" =>
          \A j \in 1..Len(scene[t]) :
             scene[t][j].seq <= from[c] \/ scene[t][j].seq < Evicted + at[c]
    /\ st[c] = "woken" => SceneBelow(t, got[c].seq)

TabOK(t) ==
    /\ SceneSeen(t)
    /\ tabConn[t] # NoConn => HeldOpen(t, tabConn[t])
    /\ tabConn[t] # NoConn /\ t \notin retries => SceneAhead(t, tabConn[t])

LInv ==
    /\ IInv
    /\ LensTypeOK
    /\ ClosedIsClean
    /\ \A t \in Tabs : TabOK(t)
    /\ SceneCleanUntilRetry

-------------------------------------------------------------------------------
LEMMA EnvelopeAppend ==
    ASSUME NEW q \in Seq(Envelope), NEW e \in Envelope
    PROVE  /\ Append(q, e) \in Seq(Envelope)
           /\ Len(q) \in Nat
           /\ Len(Append(q, e)) = Len(q) + 1
           /\ \A k \in 1..Len(q) : Append(q, e)[k] = q[k] /\ q[k].seq \in Nat
           /\ Append(q, e)[Len(q) + 1] = e
           /\ e.seq \in Nat
<1>1. e.seq \in Nat
  BY DEF Envelope
<1>2. Len(q) \in Nat /\ \A k \in 1..Len(q) : q[k].seq \in Nat
  BY EnvelopeElements
<1>3. Append(q, e) \in Seq(Envelope) /\ Len(Append(q, e)) = Len(q) + 1
  BY AppendProperties
<1>4. \A k \in 1..Len(q) : Append(q, e)[k] = q[k]
  BY <1>2, AppendProperties
<1>5. Append(q, e)[Len(q) + 1] = e
  BY <1>2, AppendProperties
<1>. QED
  BY <1>1, <1>2, <1>3, <1>4, <1>5

(* Seqs and the eviction point only advance. *)
LEMMA SeqAdvances ==
    ASSUME IInv, [RuntimeNext]_vars
    PROVE  /\ nextSeq \in Nat /\ nextSeq' \in Nat /\ nextSeq <= nextSeq'
           /\ Evicted \in Int /\ Evicted' \in Int /\ Evicted <= Evicted'
<1>1. nextSeq \in Nat /\ Evicted \in Int
  BY LenProperties DEF IInv, TypeOK, Evicted
<1>2. CASE GetOrCreateSession
  <2>1. nextSeq' \in Nat /\ nextSeq' >= nextSeq /\ Evicted' = Evicted
    BY <1>2, MaterialiseFacts DEF IInv, Evicted
  <2>. QED
    BY <1>1, <2>1
<1>3. ASSUME NEW m \in Turns, Emit(m)
      PROVE  nextSeq' = nextSeq + 1 /\ Evicted' \in Int /\ Evicted <= Evicted'
  <2>1. buffer' \in Seq(Envelope) /\ nextSeq' = nextSeq + 1 /\ Evicted' >= Evicted
    BY <1>3, EmitBuffer
  <2>2. Len(buffer') \in Nat
    BY <2>1, LenProperties
  <2>. QED
    BY <1>1, <2>1, <2>2 DEF Evicted
<1>4. CASE UNCHANGED <<buffer, nextSeq>>
  BY <1>1, <1>4 DEF Evicted
<1>. QED
  BY <1>1, <1>2, <1>3, <1>4 DEF RuntimeNext, Generator, ReplayYield, Park, YieldLive,
     Finish, Abort, Connect, SendMessage, RunResolved, PumpEnds, vars

(* What one step of the runtime can do to an open connection whose signal    *)
(* has not fired: yield the next envelope of its replay or the one it was    *)
(* woken with, move on in its replay, park, or be woken.                     *)
Yields(c) ==
    \E e \in Envelope :
        /\ out'[c] = Append(out[c], e)
        /\ \/ st[c] = "replay" /\ from[c] < e.seq /\ Evicted + at[c] <= e.seq
           \/ st[c] = "woken" /\ e = got[c]

Steps(c) ==
    /\ st'[c] # "closed"
    /\ from'[c] = from[c]
    /\ out'[c] = out[c] \/ Yields(c)
    /\ st'[c] = "replay" => st[c] = "replay" /\ at[c] <= at'[c]
    /\ st'[c] = "woken" => \/ st[c] = "woken" /\ got'[c] = got[c] /\ out'[c] = out[c]
                           \/ got'[c].seq = nextSeq /\ out'[c] = out[c]
    /\ st'[c] = "replay" /\ out'[c] # out[c] => out'[c][Len(out'[c])].seq < Evicted + at'[c]

LEMMA OpenSteps ==
    ASSUME IInv, [RuntimeNext]_vars, NEW c \in Conns, st[c] # "closed",
           c \notin aborted, c \notin aborted'
    PROVE  Steps(c)
<1>. USE DEF IInv
<1>0. at[c] \in Nat /\ st \in [Conns -> {"closed", "replay", "parked", "woken", "live"}]
  BY DEF TypeOK
<1>1. CASE UNCHANGED <<st[c], from[c], out[c], at[c], got[c]>>
  BY <1>0, <1>1 DEF Steps
<1>2. ASSUME ReplayYield(c) PROVE Steps(c)
  <2>. PICK i \in at[c]..Len(buffer) :
          /\ ~Skipped(c, i)
          /\ out' = [out EXCEPT ![c] = Append(@, buffer[i])]
          /\ at' = [at EXCEPT ![c] = i + 1]
    BY <1>2 DEF ReplayYield
  <2>1. /\ UNCHANGED <<buffer, nextSeq, st, from, got>> /\ st[c] = "replay"
        /\ at[c] \in Nat \ {0} /\ Len(buffer) \in Nat /\ i \in 1..Len(buffer)
        /\ out[c] \in Seq(Envelope) /\ buffer[i] \in Envelope
        /\ at'[c] = i + 1 /\ out'[c] = Append(out[c], buffer[i])
        /\ from[c] \in Nat /\ nextSeq \in Nat
    BY <1>2 DEF ReplayYield, TypeOK
  <2>2. buffer[i].seq = Evicted + i /\ Evicted \in Int
    BY <2>1 DEF BufferIsTail, Evicted
  <2>3. from[c] < buffer[i].seq /\ Evicted + at[c] <= buffer[i].seq
    BY <2>1, <2>2 DEF Skipped
  <2>4. Yields(c)
    BY <2>1, <2>3 DEF Yields
  <2>5. out'[c][Len(out'[c])] = buffer[i]
    BY <2>1, EnvelopeAppend
  <2>6. buffer[i].seq < Evicted + at'[c] /\ at[c] <= at'[c]
    BY <2>1, <2>2
  <2>. QED
    BY <2>1, <2>4, <2>5, <2>6 DEF Steps
<1>3. ASSUME Park(c) PROVE Steps(c)
  BY <1>3 DEF Park, TypeOK, Steps
<1>4. ASSUME YieldLive(c) PROVE Steps(c)
  <2>1. /\ st[c] = "woken" /\ st'[c] = "live" /\ from' = from
        /\ out'[c] = Append(out[c], got[c])
    BY <1>4 DEF YieldLive, TypeOK
  <2>2. got[c] \in Envelope
    BY <2>1 DEF CursorAhead, Ahead
  <2>. QED
    BY <2>1, <2>2 DEF Steps, Yields
<1>5. ASSUME NEW d \in Conns, Generator(d) PROVE Steps(c)
  <2>1. CASE d = c
    <3>1. ~Finish(c)
      BY DEF Finish
    <3>. QED
      BY <1>2, <1>3, <1>4, <1>5, <2>1, <3>1 DEF Generator
  <2>2. CASE d # c
    <3>1. UNCHANGED <<st[c], from[c], out[c], at[c], got[c]>>
      BY <1>5, <2>2 DEF Generator, ReplayYield, Park, YieldLive, Finish, TypeOK
    <3>. QED
      BY <1>1, <3>1
  <2>. QED
    BY <2>1, <2>2
<1>6. ASSUME NEW d \in Conns, Abort(d) PROVE Steps(c)
  <2>1. d # c
    BY <1>6 DEF Abort
  <2>2. UNCHANGED <<st[c], from[c], out[c], at[c], got[c]>>
    BY <1>6, <2>1 DEF Abort, OnAbort, TypeOK
  <2>. QED
    BY <1>1, <2>2
<1>7. ASSUME NEW d \in Conns, NEW f \in Nat, Connect(d, f) PROVE Steps(c)
  <2>1. d # c
    BY <1>7 DEF Connect
  <2>2. UNCHANGED <<st[c], from[c], out[c], at[c], got[c]>>
    BY <1>7, <2>1 DEF Connect, TypeOK
  <2>. QED
    BY <1>1, <2>2
<1>8. ASSUME NEW m \in Turns, SendMessage(m) \/ RunResolved(m) \/ PumpEnds(m) PROVE Steps(c)
  <2>1. UNCHANGED <<st[c], from[c], out[c], at[c], got[c]>>
    BY <1>8 DEF SendMessage, RunResolved, PumpEnds, gen
  <2>. QED
    BY <1>1, <2>1
<1>9. ASSUME NEW m \in Turns, Emit(m) PROVE Steps(c)
  <2>1. UNCHANGED <<at, from, out>>
    BY <1>9 DEF Emit
  <2>2. CASE waiters = <<>>
    BY <1>1, <1>9, <2>1, <2>2 DEF Emit
  <2>3. CASE waiters # <<>>
    <3> DEFINE e == [seq |-> nextSeq, turn |-> m, n |-> produced[m] + 1]
    <3>1. /\ st' = [st EXCEPT ![Head(waiters)] = "woken"]
          /\ got' = [got EXCEPT ![Head(waiters)] = e]
      BY <1>9, <2>3 DEF Emit, Stamp
    <3>2. e.seq = nextSeq
      OBVIOUS
    <3> HIDE DEF e
    <3>3. CASE c = Head(waiters)
      <4>1. st'[c] = "woken" /\ got'[c] = e
        BY <3>1, <3>3 DEF TypeOK
      <4>. QED
        BY <2>1, <3>2, <4>1 DEF Steps
    <3>4. CASE c # Head(waiters)
      <4>1. UNCHANGED <<st[c], got[c]>>
        BY <3>1, <3>4 DEF TypeOK
      <4>. QED
        BY <1>1, <2>1, <4>1
    <3>. QED
      BY <3>3, <3>4
  <2>. QED
    BY <2>2, <2>3
<1>10. CASE UNCHANGED vars
  BY <1>1, <1>10 DEF vars
<1>. QED
  BY <1>5, <1>6, <1>7, <1>8, <1>9, <1>10 DEF RuntimeNext

(* A tab that does not act keeps its part of the invariant while the runtime *)
(* takes a step that does not fire its connection's signal.                  *)
LEMMA StepKeepsTab ==
    ASSUME IInv, LensTypeOK, [RuntimeNext]_vars, NEW t \in Tabs, TabOK(t),
           UNCHANGED <<tabConn[t], url[t], read[t], lastSeq[t], scene[t]>>,
           t \notin retries' => t \notin retries,
           tabConn[t] # NoConn => tabConn[t] \notin aborted'
    PROVE  TabOK(t)'
<1>1. /\ Len(scene[t]) \in Nat /\ read[t] \in Nat /\ url[t] \in Nat
      /\ \A j \in 1..Len(scene[t]) : scene[t][j].seq \in Nat
  BY EnvelopeElements DEF LensTypeOK
<1>2. /\ nextSeq \in Nat /\ nextSeq' \in Nat /\ nextSeq <= nextSeq'
      /\ Evicted \in Int /\ Evicted' \in Int /\ Evicted <= Evicted'
  BY SeqAdvances
<1>3. SceneSeen(t)'
  BY <1>1, <1>2 DEF TabOK, SceneSeen, SceneBelow
<1>4. ASSUME NEW c, c = tabConn[t], c # NoConn
      PROVE  HeldOpen(t, c)' /\ (t \notin retries => SceneAhead(t, c)')
  <2>1. c \in Conns /\ HeldOpen(t, c) /\ c \notin aborted /\ c \notin aborted' /\ st[c] # "closed"
    BY <1>4 DEF LensTypeOK, TabOK, HeldOpen
  <2>2. Steps(c)
    BY <2>1, OpenSteps
  <2>3. out[c] \in Seq(Envelope) /\ Len(out[c]) \in Nat /\ at[c] \in Nat
    BY <2>1, LenProperties DEF IInv, TypeOK
  <2>4. /\ Len(out'[c]) \in Nat /\ Len(out[c]) <= Len(out'[c])
        /\ \A k \in 1..Len(out[c]) : out'[c][k] = out[c][k]
    <3>1. CASE out'[c] = out[c]
      BY <2>3, <3>1
    <3>2. CASE Yields(c)
      BY <2>3, <3>2, EnvelopeAppend DEF Yields
    <3>. QED
      BY <2>2, <3>1, <3>2 DEF Steps
  <2>5. HeldOpen(t, c)'
    <3>1. st'[c] # "closed" /\ c \notin aborted' /\ from'[c] = url'[t]
      BY <2>1, <2>2 DEF HeldOpen, Steps
    <3>2. read[t] <= Len(out'[c]) /\ \A k \in 1..read[t] : k \in 1..Len(out[c])
      BY <2>1, <2>3, <2>4, <1>1 DEF HeldOpen
    <3>3. \A k \in 1..read[t] : \E j \in 1..Len(scene[t]) : scene[t][j] = out'[c][k]
      BY <2>1, <2>4, <3>2 DEF HeldOpen
    <3>. QED
      BY <3>1, <3>2, <3>3 DEF HeldOpen
  <2>6. ASSUME t \notin retries PROVE SceneAhead(t, c)'
    <3>1. SceneAhead(t, c)
      BY <1>4, <2>6 DEF TabOK
    <3>2. from[c] \in Nat
      BY <2>1, <1>1 DEF HeldOpen
    <3>3. \A k \in (read[t] + 1)..Len(out'[c]) :
             \A j \in 1..Len(scene[t]) : scene[t][j].seq < out'[c][k].seq
      <4>. TAKE k \in (read[t] + 1)..Len(out'[c])
      <4>. TAKE j \in 1..Len(scene[t])
      <4>1. CASE k <= Len(out[c])
        <5>1. k \in (read[t] + 1)..Len(out[c]) /\ k \in 1..Len(out[c])
          BY <4>1, <1>1, <2>3
        <5>. QED
          BY <5>1, <3>1, <2>4 DEF SceneAhead, SceneBelow
      <4>2. CASE ~(k <= Len(out[c]))
        <5>1. out'[c] # out[c]
          BY <4>2, <2>3
        <5>2. PICK e \in Envelope :
                  /\ out'[c] = Append(out[c], e)
                  /\ \/ st[c] = "replay" /\ from[c] < e.seq /\ Evicted + at[c] <= e.seq
                     \/ st[c] = "woken" /\ e = got[c]
          BY <5>1, <2>2 DEF Steps, Yields
        <5>3. /\ e.seq \in Nat /\ Len(out'[c]) = Len(out[c]) + 1
              /\ out'[c][Len(out[c]) + 1] = e
          BY <5>2, <2>3, EnvelopeAppend
        <5>4. k = Len(out[c]) + 1
          BY <4>2, <5>3, <2>3, <1>1
        <5>5. scene[t][j].seq < e.seq
          <6>1. CASE st[c] = "replay" /\ from[c] < e.seq /\ Evicted + at[c] <= e.seq
            <7>1. scene[t][j].seq <= from[c] \/ scene[t][j].seq < Evicted + at[c]
              BY <6>1, <3>1 DEF SceneAhead
            <7>2. scene[t][j].seq \in Nat
              BY <1>1
            <7>. QED
              BY <6>1, <7>1, <7>2, <3>2, <5>3, <1>2, <2>3
          <6>2. CASE st[c] = "woken" /\ e = got[c]
            BY <6>2, <3>1 DEF SceneAhead, SceneBelow
          <6>. QED
            BY <5>2, <6>1, <6>2
        <5>. QED
          BY <5>3, <5>4, <5>5
      <4>. QED
        BY <4>1, <4>2
    <3>4. ASSUME st'[c] = "replay", NEW j \in 1..Len(scene[t])
          PROVE  scene[t][j].seq <= from'[c] \/ scene[t][j].seq < Evicted' + at'[c]
      <4>1. st[c] = "replay" /\ at[c] <= at'[c] /\ from'[c] = from[c]
        BY <3>4, <2>2 DEF Steps
      <4>2. at'[c] \in Nat
        BY <2>1, StepIInv DEF IInv, TypeOK
      <4>. QED
        <5>1. scene[t][j].seq <= from[c] \/ scene[t][j].seq < Evicted + at[c]
          BY <4>1, <3>1 DEF SceneAhead
        <5>2. scene[t][j].seq \in Nat
          BY <1>1
        <5>. QED
          BY <4>1, <4>2, <5>1, <5>2, <3>2, <1>2, <2>3
    <3>5. ASSUME st'[c] = "woken", NEW j \in 1..Len(scene[t])
          PROVE  scene[t][j].seq < got'[c].seq
      <4>1. CASE st[c] = "woken" /\ got'[c] = got[c]
        BY <4>1, <3>1 DEF SceneAhead, SceneBelow
      <4>2. CASE got'[c].seq = nextSeq
        BY <4>2 DEF TabOK, SceneSeen, SceneBelow
      <4>. QED
        BY <3>5, <4>1, <4>2, <2>2 DEF Steps
    <3>. QED
      BY <3>3, <3>4, <3>5 DEF SceneAhead, SceneBelow
  <2>. QED
    BY <2>5, <2>6
<1>5. tabConn[t] # NoConn =>
          HeldOpen(t, tabConn[t])' /\ (t \notin retries => SceneAhead(t, tabConn[t])')
  BY <1>4
<1>. QED
  BY <1>3, <1>5 DEF TabOK

(* A tab that opens a connection at the end of its scene, or retries.        *)
LEMMA TabOpens ==
    ASSUME IInv, LensTypeOK, ClosedIsClean, NEW t \in Tabs, NEW c \in Conns, NEW f \in Nat,
           Connect(c, f), tabConn'[t] = c, url'[t] = f, read'[t] = 0,
           SceneSeen(t)', t \notin retries' => f = lastSeq'[t]
    PROVE  TabOK(t)'
<1>1. /\ st[c] = "closed" /\ st'[c] = "replay" /\ from'[c] = f /\ out'[c] = <<>>
      /\ c \notin aborted /\ aborted' = aborted
  BY DEF Connect, IInv, TypeOK, ClosedIsClean
<1>2. HeldOpen(t, c)'
  BY <1>1 DEF HeldOpen
<1>3. ASSUME t \notin retries' PROVE SceneAhead(t, c)'
  <2>1. \A j \in 1..Len(scene'[t]) : scene'[t][j].seq <= from'[c]
    BY <1>1, <1>3 DEF SceneSeen
  <2>2. \A k \in (read'[t] + 1)..Len(out'[c]) : FALSE
    BY <1>1
  <2>. QED
    BY <1>1, <2>1, <2>2 DEF SceneAhead
<1>. QED
  BY <1>2, <1>3 DEF TabOK

(* A tab that lets its connection go keeps its scene and lastSeq.            *)
LEMMA TabLetsGo ==
    ASSUME NEW t \in Tabs, TabOK(t), UNCHANGED <<vars, lastSeq, scene>>, tabConn'[t] = NoConn
    PROVE  TabOK(t)'
  BY DEF TabOK, SceneSeen, SceneBelow, vars

(* A tab folds the next frame of its connection into its scene.              *)
LEMMA ReceiveStep ==
    ASSUME LInv, NEW t \in Tabs, Receive(t)
    PROVE  /\ scene' \in [Tabs -> Seq(Envelope)] /\ lastSeq' \in [Tabs -> Nat]
           /\ TabOK(t)'
           /\ t \notin retries =>
                 \A i, j \in 1..Len(scene'[t]) :
                     i < j => scene'[t][i].seq < scene'[t][j].seq
<1>. USE DEF LInv
<1>1. PICK c \in Conns : c = tabConn[t]
  BY DEF Receive, LensTypeOK
<1>2. PICK n \in Nat : n = read[t]
  BY DEF LensTypeOK
<1>3. PICK e : e = out[c][n + 1]
  OBVIOUS
<1>4. /\ c # NoConn /\ n < Len(out[c])
      /\ scene' = [scene EXCEPT ![t] = Append(@, e)]
      /\ lastSeq' = [lastSeq EXCEPT ![t] = IF e.seq > @ THEN e.seq ELSE @]
      /\ read' = [read EXCEPT ![t] = @ + 1]
      /\ UNCHANGED <<vars, tabConn, url, mounted, retries>>
  BY <1>1, <1>2, <1>3 DEF Receive
<1>5. /\ out[c] \in Seq(Envelope) /\ Len(out[c]) \in Nat /\ n + 1 \in 1..Len(out[c])
      /\ e \in Envelope /\ e.seq \in Nat
  <2>1. out[c] \in Seq(Envelope) /\ Len(out[c]) \in Nat
    BY LenProperties DEF IInv, TypeOK
  <2>2. n + 1 \in 1..Len(out[c])
    BY <1>4, <2>1
  <2>. QED
    BY <1>3, <2>1, <2>2, EnvelopeElements
<1>6. UNCHANGED <<buffer, nextSeq, st, at, from, got, aborted, out>>
  BY <1>4 DEF vars
<1>7. /\ scene[t] \in Seq(Envelope) /\ lastSeq[t] \in Nat /\ nextSeq \in Nat
      /\ scene'[t] = Append(scene[t], e)
      /\ lastSeq'[t] = IF e.seq > lastSeq[t] THEN e.seq ELSE lastSeq[t]
      /\ read'[t] = n + 1
  BY <1>2, <1>4 DEF LensTypeOK, IInv, TypeOK
<1>8. /\ Len(scene[t]) \in Nat /\ Len(scene'[t]) = Len(scene[t]) + 1
      /\ \A k \in 1..Len(scene[t]) : scene'[t][k] = scene[t][k] /\ scene[t][k].seq \in Nat
      /\ scene'[t][Len(scene[t]) + 1] = e
  BY <1>5, <1>7, EnvelopeAppend
<1>9. scene' \in [Tabs -> Seq(Envelope)] /\ lastSeq' \in [Tabs -> Nat]
  BY <1>4, <1>5, EnvelopeAppend DEF LensTypeOK
<1>10. \A j \in 1..Len(scene'[t]) : j \in 1..Len(scene[t]) \/ j = Len(scene[t]) + 1
  BY <1>8
<1>11. HeldOpen(t, c) /\ SceneSeen(t)
  BY <1>1, <1>4 DEF TabOK
<1>12. SceneSeen(t)'
  <2>1. e.seq < nextSeq
    BY <1>3, <1>5 DEF IInv, CursorAhead, Ahead, OutBelow
  <2>2. ASSUME NEW j \in 1..Len(scene'[t])
        PROVE  scene'[t][j].seq < nextSeq /\ scene'[t][j].seq <= lastSeq'[t]
    <3>1. CASE j \in 1..Len(scene[t])
      <4>1. /\ scene'[t][j].seq \in Nat /\ scene'[t][j].seq < nextSeq
            /\ scene'[t][j].seq <= lastSeq[t]
        BY <1>8, <1>11, <3>1 DEF SceneSeen, SceneBelow
      <4>. QED
        BY <4>1, <1>5, <1>7
    <3>2. CASE j = Len(scene[t]) + 1
      <4>1. scene'[t][j] = e
        BY <1>8, <3>2
      <4>. QED
        BY <4>1, <1>5, <1>7, <2>1
    <3>. QED
      BY <1>10, <3>1, <3>2
  <2>. QED
    BY <1>6, <2>2 DEF SceneSeen, SceneBelow
<1>13. HeldOpen(t, c)'
  <2>1. \A k \in 1..(n + 1) : \E j \in 1..Len(scene'[t]) : scene'[t][j] = out[c][k]
    <3>. TAKE k \in 1..(n + 1)
    <3>1. CASE k \in 1..n
      <4>1. PICK j \in 1..Len(scene[t]) : scene[t][j] = out[c][k]
        BY <1>2, <1>11, <3>1 DEF HeldOpen
      <4>2. j \in 1..Len(scene'[t]) /\ scene'[t][j] = out[c][k]
        BY <1>8, <4>1
      <4>. QED
        BY <4>2
    <3>2. CASE k = n + 1
      <4>1. Len(scene[t]) + 1 \in 1..Len(scene'[t])
        BY <1>8
      <4>. QED
        BY <1>3, <1>8, <3>2, <4>1
    <3>. QED
      BY <1>2, <3>1, <3>2
  <2>2. st'[c] # "closed" /\ c \notin aborted' /\ from'[c] = url'[t]
    BY <1>4, <1>6, <1>11 DEF HeldOpen
  <2>3. read'[t] <= Len(out'[c])
    BY <1>5, <1>6, <1>7
  <2>. QED
    BY <1>6, <1>7, <2>1, <2>2, <2>3 DEF HeldOpen
<1>14. ASSUME t \notin retries PROVE SceneAhead(t, c)'
  <2>1. SceneAhead(t, c)
    BY <1>1, <1>4, <1>14 DEF TabOK
  <2>2. ASSUME NEW k \in (n + 2)..Len(out[c]), NEW j \in 1..Len(scene'[t])
        PROVE  scene'[t][j].seq < out[c][k].seq
    <3>1. CASE j \in 1..Len(scene[t])
      <4>1. k \in (read[t] + 1)..Len(out[c])
        BY <1>2, <1>5
      <4>. QED
        BY <1>8, <2>1, <3>1, <4>1 DEF SceneAhead, SceneBelow
    <3>2. CASE j = Len(scene[t]) + 1
      <4>1. n + 1 < k /\ k \in 1..Len(out[c])
        BY <1>5
      <4>2. out[c][n + 1].seq < out[c][k].seq
        BY <1>5, <4>1 DEF IInv, StreamInOrder
      <4>. QED
        BY <1>3, <1>8, <3>2, <4>2
    <3>. QED
      BY <1>10, <3>1, <3>2
  <2>3. ASSUME st[c] = "replay", NEW j \in 1..Len(scene'[t])
        PROVE  scene'[t][j].seq <= from[c] \/ scene'[t][j].seq < Evicted + at[c]
    <3>1. CASE j \in 1..Len(scene[t])
      BY <1>8, <2>1, <2>3, <3>1 DEF SceneAhead
    <3>2. CASE j = Len(scene[t]) + 1
      <4>1. e.seq < Evicted + at[c]
        BY <1>3, <1>5, <2>3 DEF IInv, CursorAhead, Ahead, OutBelow
      <4>. QED
        BY <1>8, <3>2, <4>1
    <3>. QED
      BY <1>10, <3>1, <3>2
  <2>4. ASSUME st[c] = "woken", NEW j \in 1..Len(scene'[t])
        PROVE  scene'[t][j].seq < got[c].seq
    <3>1. CASE j \in 1..Len(scene[t])
      BY <1>8, <2>1, <2>4, <3>1 DEF SceneAhead, SceneBelow
    <3>2. CASE j = Len(scene[t]) + 1
      <4>1. OutBelow(c, got[c].seq)
        BY <1>11, <2>4 DEF IInv, CursorAhead, Ahead, HeldOpen
      <4>. QED
        BY <1>3, <1>5, <1>8, <3>2, <4>1 DEF OutBelow
    <3>. QED
      BY <1>10, <3>1, <3>2
  <2>5. (n + 1) + 1 = n + 2 /\ Evicted' = Evicted
    BY <1>2, <1>6 DEF Evicted
  <2>. QED
    BY <1>6, <1>7, <2>2, <2>3, <2>4, <2>5 DEF SceneAhead, SceneBelow
<1>15. TabOK(t)'
  BY <1>1, <1>4, <1>12, <1>13, <1>14 DEF TabOK
<1>16. ASSUME t \notin retries, NEW i \in 1..Len(scene'[t]), NEW j \in 1..Len(scene'[t]), i < j
       PROVE  scene'[t][i].seq < scene'[t][j].seq
  <2>1. i \in 1..Len(scene[t])
    BY <1>8, <1>16
  <2>2. CASE j \in 1..Len(scene[t])
    BY <1>8, <1>16, <2>1, <2>2 DEF SceneCleanUntilRetry
  <2>3. CASE j = Len(scene[t]) + 1
    <3>1. SceneAhead(t, c)
      BY <1>1, <1>4, <1>16 DEF TabOK
    <3>2. n + 1 \in (read[t] + 1)..Len(out[c])
      BY <1>2, <1>5
    <3>3. SceneBelow(t, out[c][n + 1].seq)
      BY <3>1, <3>2 DEF SceneAhead
    <3>. QED
      BY <1>3, <1>8, <2>1, <2>3, <3>3 DEF SceneBelow
  <2>. QED
    BY <1>10, <2>2, <2>3
<1>. QED
  BY <1>9, <1>15, <1>16

LEMMA ClosedStays ==
    ASSUME IInv, ClosedIsClean, [RuntimeNext]_vars
    PROVE  ClosedIsClean'
<1>. SUFFICES ASSUME NEW c \in Conns, st'[c] = "closed", c \in aborted' PROVE FALSE
  BY DEF ClosedIsClean
<1>1. ASSUME NEW d \in Conns, Generator(d) PROVE FALSE
  BY <1>1 DEF Generator, ReplayYield, Park, YieldLive, Finish, ClosedIsClean, IInv, TypeOK
<1>2. ASSUME NEW d \in Conns, Abort(d) PROVE FALSE
  BY <1>2 DEF Abort, OnAbort, ClosedIsClean, IInv, TypeOK
<1>3. ASSUME NEW d \in Conns, NEW f \in Nat, Connect(d, f) PROVE FALSE
  BY <1>3 DEF Connect, ClosedIsClean, IInv, TypeOK
<1>4. ASSUME NEW m \in Turns, SendMessage(m) \/ RunResolved(m) \/ Emit(m) \/ PumpEnds(m)
      PROVE  FALSE
  BY <1>4 DEF SendMessage, RunResolved, Emit, PumpEnds, gen, ClosedIsClean, IInv, TypeOK
<1>5. CASE UNCHANGED vars
  BY <1>5 DEF vars, ClosedIsClean
<1>. QED
  BY <1>1, <1>2, <1>3, <1>4, <1>5 DEF RuntimeNext

(* A step of the runtime that fires no signal a tab depends on.              *)
LEMMA RuntimeKeepsLens ==
    ASSUME LInv, [RuntimeNext]_vars, UNCHANGED tabVars,
           \A t \in Tabs : tabConn[t] # NoConn => tabConn[t] \notin aborted'
    PROVE  LInv'
<1>1. IInv' /\ ClosedIsClean'
  BY StepIInv, ClosedStays DEF LInv
<1>2. LensTypeOK' /\ SceneCleanUntilRetry'
  BY DEF LInv, LensTypeOK, SceneCleanUntilRetry, tabVars
<1>3. ASSUME NEW t \in Tabs PROVE TabOK(t)'
  BY StepKeepsTab DEF LInv, tabVars
<1>. QED
  BY <1>1, <1>2, <1>3 DEF LInv

(* A tab opens a connection (Mount, Reconnect, Show).                        *)
LEMMA OpenStep ==
    ASSUME LInv, NEW t \in Tabs, NEW c \in Conns, NEW f \in Nat, Connect(c, f),
           LensTypeOK', SceneCleanUntilRetry',
           tabConn' = [tabConn EXCEPT ![t] = c], url'[t] = f, read'[t] = 0,
           \A u \in Tabs : u # t =>
              /\ UNCHANGED <<url[u], read[u], lastSeq[u], scene[u]>>
              /\ u \notin retries' => u \notin retries,
           SceneSeen(t)', t \notin retries' => f = lastSeq'[t]
    PROVE  LInv'
<1>1. RuntimeNext
  BY DEF RuntimeNext
<1>2. IInv' /\ ClosedIsClean'
  BY <1>1, StepIInv, ClosedStays DEF LInv
<1>3. tabConn'[t] = c /\ \A u \in Tabs : u # t => tabConn'[u] = tabConn[u]
  BY DEF LInv, LensTypeOK
<1>4. TabOK(t)'
  BY <1>3, TabOpens DEF LInv
<1>5. ASSUME NEW u \in Tabs, u # t PROVE TabOK(u)'
  <2>1. tabConn[u] # NoConn => tabConn[u] \notin aborted'
    BY DEF LInv, TabOK, HeldOpen, Connect
  <2>2. UNCHANGED <<tabConn[u], url[u], read[u], lastSeq[u], scene[u]>>
    BY <1>3, <1>5
  <2>. QED
    BY <1>1, <1>5, <2>1, <2>2, StepKeepsTab DEF LInv
<1>. QED
  BY <1>2, <1>4, <1>5 DEF LInv

LEMMA MountStep ==
    ASSUME LInv, NEW t \in Tabs, NEW f \in Cursors \union {NoCursor}, Mount(t, f)
    PROVE  LInv'
<1>1. PICK g \in Nat : g = InitialSeq(f)
  BY BoundsAssumption DEF InitialSeq
<1>2. PICK c \in Conns : Connect(c, g) /\ tabConn' = [tabConn EXCEPT ![t] = c]
  BY <1>1 DEF Mount
<1>3. /\ url' = [url EXCEPT ![t] = g] /\ lastSeq' = [lastSeq EXCEPT ![t] = g]
      /\ read' = [read EXCEPT ![t] = 0] /\ scene' = [scene EXCEPT ![t] = <<>>]
      /\ mounted' = mounted \union {t} /\ retries' = retries \ {t}
  BY <1>1 DEF Mount
<1>4. LensTypeOK'
  BY <1>2, <1>3 DEF LInv, LensTypeOK
<1>5. scene'[t] = <<>> /\ url'[t] = g /\ lastSeq'[t] = g /\ read'[t] = 0
  BY <1>3 DEF LInv, LensTypeOK
<1>6. \A u \in Tabs : u # t => /\ UNCHANGED <<url[u], read[u], lastSeq[u], scene[u]>>
                               /\ u \notin retries' => u \notin retries
  BY <1>3 DEF LInv, LensTypeOK
<1>7. SceneCleanUntilRetry'
  <2>1. \A i \in 1..Len(scene'[t]) : FALSE
    BY <1>5
  <2>2. \A u \in Tabs \ retries' : u # t => u \in Tabs \ retries /\ scene'[u] = scene[u]
    BY <1>6
  <2>. QED
    BY <2>1, <2>2 DEF LInv, SceneCleanUntilRetry
<1>8. SceneSeen(t)'
  BY <1>5 DEF SceneSeen, SceneBelow
<1>. QED
  BY <1>2, <1>4, <1>5, <1>6, <1>7, <1>8, OpenStep

LEMMA ReopenStep ==
    ASSUME LInv, NEW t \in Tabs, Reconnect(t) \/ Show(t)
    PROVE  LInv'
<1>0. UNCHANGED <<lastSeq, scene>>
  BY DEF Reconnect, Show
<1>1. PICK g \in Nat, c \in Conns :
          /\ Connect(c, g) /\ tabConn' = [tabConn EXCEPT ![t] = c]
          /\ url' = [url EXCEPT ![t] = g]
          /\ \/ retries' = retries \union {t}
             \/ retries' = retries /\ g = lastSeq[t]
  <2>1. CASE Reconnect(t)
    <3>1. url[t] \in Nat /\ url' = [url EXCEPT ![t] = url[t]]
      BY <2>1 DEF Reconnect, LInv, LensTypeOK
    <3>. QED
      BY <2>1, <3>1 DEF Reconnect, RetryCursor
  <2>2. CASE Show(t)
    <3>1. lastSeq[t] \in Nat
      BY DEF LInv, LensTypeOK
    <3>. QED
      BY <2>2, <3>1 DEF Show, ShowCursor
  <2>. QED
    BY <2>1, <2>2
<1>2. read' = [read EXCEPT ![t] = 0] /\ mounted' \subseteq Tabs
  BY DEF Reconnect, Show, LInv, LensTypeOK
<1>3. LensTypeOK'
  BY <1>0, <1>1, <1>2 DEF LInv, LensTypeOK
<1>4. url'[t] = g /\ read'[t] = 0
  BY <1>1, <1>2 DEF LInv, LensTypeOK
<1>5. \A u \in Tabs : u # t => /\ UNCHANGED <<url[u], read[u], lastSeq[u], scene[u]>>
                               /\ u \notin retries' => u \notin retries
  BY <1>0, <1>1, <1>2 DEF LInv, LensTypeOK
<1>6. SceneCleanUntilRetry'
  BY <1>0, <1>1 DEF LInv, SceneCleanUntilRetry
<1>7. SceneSeen(t)'
  <2>1. RuntimeNext
    BY <1>1 DEF RuntimeNext
  <2>2. nextSeq \in Nat /\ nextSeq' \in Nat /\ nextSeq <= nextSeq'
    BY <2>1, SeqAdvances DEF LInv
  <2>3. \A j \in 1..Len(scene[t]) : scene[t][j].seq \in Nat
    BY EnvelopeElements DEF LInv, LensTypeOK
  <2>4. SceneSeen(t)
    BY DEF LInv, TabOK
  <2>. QED
    BY <1>0, <2>2, <2>3, <2>4 DEF SceneSeen, SceneBelow
<1>8. t \notin retries' => g = lastSeq'[t]
  BY <1>0, <1>1
<1>. QED
  BY <1>1, <1>3, <1>4, <1>5, <1>6, <1>7, <1>8, OpenStep

(* The tabs other than t keep theirs while t reads or lets go.               *)
LEMMA OthersStay ==
    ASSUME LInv, NEW u \in Tabs,
           UNCHANGED <<vars, tabConn[u], url[u], read[u], lastSeq[u], scene[u], retries>>
    PROVE  TabOK(u)'
<1>1. tabConn[u] # NoConn => tabConn[u] \notin aborted'
  BY DEF LInv, TabOK, HeldOpen, vars
<1>. QED
  BY <1>1, StepKeepsTab DEF LInv

LEMMA LensNextLInv == LInv /\ [LensNext]_allVars => LInv'
<1>. SUFFICES ASSUME LInv, [LensNext]_allVars PROVE LInv'
  OBVIOUS
<1>0. \A t \in Tabs : tabConn[t] # NoConn => tabConn[t] \notin aborted
  BY DEF LInv, TabOK, HeldOpen
<1>1. CASE Server
  <2>1. RuntimeNext
    BY <1>1 DEF Server, RuntimeNext
  <2>2. aborted' \subseteq aborted
    BY <1>1 DEF Server, Generator, ReplayYield, Park, YieldLive, Finish, SendMessage,
       RunResolved, Emit, PumpEnds
  <2>. QED
    BY <1>0, <1>1, <2>1, <2>2, RuntimeKeepsLens DEF Server
<1>2. ASSUME NEW c \in Conns, ServerSeesClose(c) PROVE LInv'
  <2>1. RuntimeNext /\ UNCHANGED tabVars
    BY <1>2 DEF ServerSeesClose, RuntimeNext
  <2>2. \A t \in Tabs : tabConn[t] # NoConn => tabConn[t] \notin aborted'
    BY <1>0, <1>2 DEF ServerSeesClose, Held, Abort
  <2>. QED
    BY <2>1, <2>2, RuntimeKeepsLens
<1>3. ASSUME NEW t \in Tabs, Receive(t) PROVE LInv'
  <2>1. /\ scene' \in [Tabs -> Seq(Envelope)] /\ lastSeq' \in [Tabs -> Nat]
        /\ TabOK(t)'
        /\ t \notin retries =>
              \A i, j \in 1..Len(scene'[t]) :
                  i < j => scene'[t][i].seq < scene'[t][j].seq
    BY <1>3, ReceiveStep
  <2>2. /\ UNCHANGED <<vars, tabConn, url, mounted, retries>>
        /\ read' = [read EXCEPT ![t] = @ + 1]
        /\ \A u \in Tabs : u # t => UNCHANGED <<read[u], lastSeq[u], scene[u]>>
    BY <1>3 DEF Receive, LInv, LensTypeOK
  <2>3. LensTypeOK'
    BY <2>1, <2>2 DEF LInv, LensTypeOK
  <2>4. SceneCleanUntilRetry'
    BY <2>1, <2>2 DEF LInv, SceneCleanUntilRetry
  <2>5. \A u \in Tabs : u # t => TabOK(u)'
    BY <2>2, OthersStay
  <2>6. IInv' /\ ClosedIsClean'
    BY <2>2, StepIInv, ClosedStays DEF LInv
  <2>. QED
    BY <2>1, <2>3, <2>4, <2>5, <2>6 DEF LInv
<1>4. ASSUME NEW t \in Tabs, Drop(t) \/ Hide(t) PROVE LInv'
  <2>1. /\ UNCHANGED <<vars, url, read, lastSeq, scene, retries>>
        /\ tabConn' = [tabConn EXCEPT ![t] = NoConn] /\ mounted' \subseteq Tabs
    BY <1>4 DEF Drop, Hide, LInv, LensTypeOK
  <2>2. LensTypeOK' /\ SceneCleanUntilRetry'
    BY <2>1 DEF LInv, LensTypeOK, SceneCleanUntilRetry
  <2>3. TabOK(t)'
    <3>1. tabConn'[t] = NoConn
      BY <2>1 DEF LInv, LensTypeOK
    <3>. QED
      BY <2>1, <3>1, TabLetsGo DEF LInv
  <2>4. \A u \in Tabs : u # t => TabOK(u)'
    <3>. TAKE u \in Tabs
    <3>. HAVE u # t
    <3>1. tabConn'[u] = tabConn[u]
      BY <2>1 DEF LInv, LensTypeOK
    <3>. QED
      BY <2>1, <3>1, OthersStay
  <2>5. IInv' /\ ClosedIsClean'
    BY <2>1, StepIInv, ClosedStays DEF LInv
  <2>. QED
    BY <2>2, <2>3, <2>4, <2>5 DEF LInv
<1>5. CASE UNCHANGED allVars
  <2>1. UNCHANGED vars /\ UNCHANGED tabVars
    BY <1>5 DEF allVars
  <2>2. aborted' = aborted
    BY <2>1 DEF vars
  <2>. QED
    BY <1>0, <2>1, <2>2, RuntimeKeepsLens
<1>. QED
  BY <1>1, <1>2, <1>3, <1>4, <1>5, MountStep, ReopenStep DEF LensNext

LEMMA LensInitLInv == LensInit => LInv
<1>. SUFFICES ASSUME LensInit PROVE LInv
  OBVIOUS
<1>1. IInv
  BY InitIInv DEF LensInit
<1>2. /\ \A t \in Tabs : tabConn[t] = NoConn /\ scene[t] = <<>>
      /\ LensTypeOK
  BY DEF LensInit, LensTypeOK
<1>3. ClosedIsClean
  BY DEF LensInit, Init, ClosedIsClean
<1>4. SceneCleanUntilRetry /\ \A t \in Tabs : TabOK(t)
  BY <1>2 DEF SceneCleanUntilRetry, TabOK, SceneSeen, SceneBelow
<1>. QED
  BY <1>1, <1>2, <1>3, <1>4 DEF LInv

-------------------------------------------------------------------------------
(* Scenes: for any number of tabs and connections, whatever is dropped,      *)
(* hidden and shown again, a tab whose EventSource has not retried on its    *)
(* own shows each envelope once and in emission order (useSessionStream.ts). *)
THEOREM SceneCorrect == LensSpec => []SceneCleanUntilRetry
  BY LensInitLInv, LensNextLInv, PTL DEF LensSpec, LInv

(* To the runtime, what the tabs do is connecting with some cursor.          *)
LEMMA LensIsRuntime ==
    ASSUME LensTypeOK, [LensNext]_allVars
    PROVE  [RuntimeNext]_vars
<1>1. ASSUME NEW t \in Tabs, NEW f \in Cursors \union {NoCursor}, Mount(t, f) PROVE RuntimeNext
  <2>1. InitialSeq(f) \in Nat
    BY BoundsAssumption DEF InitialSeq
  <2>. QED
    BY <1>1, <2>1 DEF Mount, RuntimeNext
<1>2. ASSUME NEW t \in Tabs, Reconnect(t) \/ Show(t) PROVE RuntimeNext
  <2>1. RetryCursor(t) \in Nat /\ ShowCursor(t) \in Nat
    BY DEF LensTypeOK, RetryCursor, ShowCursor
  <2>. QED
    BY <1>2, <2>1 DEF Reconnect, Show, RuntimeNext
<1>3. ASSUME NEW t \in Tabs, Receive(t) \/ Drop(t) \/ Hide(t) PROVE UNCHANGED vars
  BY <1>3 DEF Receive, Drop, Hide
<1>4. Server \/ (\E c \in Conns : ServerSeesClose(c)) => RuntimeNext
  BY DEF Server, ServerSeesClose, RuntimeNext
<1>. QED
  BY <1>1, <1>2, <1>3, <1>4 DEF LensNext, allVars

(* A replay that ends has offered its tab what the tab's URL asks for.       *)
LEMMA ReplayOffers ==
    ASSUME LInv, ReplaySoFar, [LensNext]_allVars, NEW t \in Tabs,
           tabConn[t] # NoConn, LeavesReplay(tabConn[t])
    PROVE  \/ Len(buffer) = MaxBuffer
           \/ \A i \in 1..Len(buffer) : buffer[i].seq > url[t] => Offered(t, buffer[i])
<1>1. PICK c \in Conns : c = tabConn[t]
  BY DEF LInv, LensTypeOK
<1>2. RetainedSeen(c) \/ Len(buffer) = MaxBuffer
  BY <1>1, LensIsRuntime, ReplayLeaves DEF LInv
<1>3. HeldOpen(t, c)
  BY <1>1 DEF LInv, TabOK
<1>4. read[t] \in Nat /\ Len(out[c]) \in Nat
  BY LenProperties DEF LInv, IInv, TypeOK, LensTypeOK
<1>5. ASSUME RetainedSeen(c), NEW i \in 1..Len(buffer), buffer[i].seq > url[t]
      PROVE  Offered(t, buffer[i])
  <2>1. PICK k \in 1..Len(out[c]) : out[c][k] = buffer[i]
    BY <1>3, <1>5 DEF RetainedSeen, HeldOpen, Yielded
  <2>2. CASE k \in 1..read[t]
    <3>1. \E j \in 1..Len(scene[t]) : scene[t][j] = out[c][k]
      BY <1>3, <2>2 DEF HeldOpen
    <3>. QED
      BY <2>1, <3>1 DEF Offered
  <2>3. CASE k \in (read[t] + 1)..Len(out[c])
    BY <1>1, <2>1, <2>3 DEF Offered
  <2>. QED
    BY <1>4, <2>1, <2>2, <2>3
<1>. QED
  BY <1>2, <1>5

(* Healing: for any number of tabs and any MAX_BUFFER, the replay behind a   *)
(* retry or a show re-offers the tab every retained envelope above the       *)
(* cursor in its URL, unless the buffer is full (useSessionStream.ts).       *)
THEOREM HealCorrect == LensSpec => ReplayHealsTab
<1>1. LensInit => ReplaySoFar
  BY DEF LensInit, Init, ReplaySoFar, ReplayedTo
<1>2. LInv /\ ReplaySoFar /\ [LensNext]_allVars => ReplaySoFar'
  BY LensIsRuntime, ReplayNext DEF LInv
<1>3. LInv /\ ReplaySoFar /\ [LensNext]_allVars =>
          [\A t \in Tabs : (tabConn[t] # NoConn /\ LeavesReplay(tabConn[t])) =>
              \/ Len(buffer) = MaxBuffer
              \/ \A i \in 1..Len(buffer) :
                    buffer[i].seq > url[t] => Offered(t, buffer[i])]_allVars
  BY ReplayOffers
<1>. QED
  BY LensInitLInv, LensNextLInv, <1>1, <1>2, <1>3, PTL DEF LensSpec, ReplayHealsTab
===============================================================================

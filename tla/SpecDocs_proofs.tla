--------------------------- MODULE SpecDocs_proofs ---------------------------
(***************************************************************************)
(* Version numbering, the one active version of a handle and the dispatch  *)
(* budget, for any number of versions, runtimes, and concurrent            *)
(* transactions and trigger requests.                                      *)
(***************************************************************************)
EXTENDS SpecDispatch, TLAPS

(* An open publish holds the advisory lock, and its version is still next. *)
PublishNext ==
    \A t \in Txns : (pc[t] = "open" /\ kind[t] # "restore")
                        => advisory = t /\ NextVersion(target[t])

(* Rows that were superseded or are to be restored do exist. *)
RowsExist ==
    /\ \A t \in Txns : \A v \in mine[t] : Exists(v)
    /\ \A t \in Txns : (pc[t] = "open" /\ kind[t] = "restore") => Exists(target[t])

(* A transaction nobody has overlapped is alone, and every active row is     *)
(* its target, already superseded by it or still on its list.                *)
Covers(t) == \A v \in Versions : Active(v) => v \in todo[t] \union mine[t] \union {target[t]}

AloneCovers ==
    \A t \in Txns \ crowded : pc[t] = "open" =>
        /\ \A u \in Txns : pc[u] = "open" => u = t
        /\ Covers(t)

Contiguous == \A v, w \in Versions : (v < w /\ Exists(w)) => Exists(v)

IInv == TypeOK /\ PublishNext /\ RowsExist /\ Contiguous /\ AloneCovers

LEMMA InitIInv == Init => IInv
  BY TxnAssumption
  DEF Init, IInv, TypeOK, PublishNext, RowsExist, Contiguous, AloneCovers, Exists,
      States, ActiveStates

(* Steps that insert no row keep the numbering facts. *)
LEMMA SameRows ==
    ASSUME PublishNext, Contiguous, \A v \in Versions : Exists(v)' <=> Exists(v),
           TypeOK,
           \A t \in Txns : (pc'[t] = "open" /\ kind'[t] # "restore") =>
               /\ pc[t] = "open" /\ kind[t] # "restore" /\ advisory' = advisory
               /\ target'[t] = target[t]
    PROVE  PublishNext' /\ Contiguous'
<1>1. Contiguous'
  BY DEF Contiguous
<1>2. ASSUME NEW t \in Txns, pc'[t] = "open", kind'[t] # "restore"
      PROVE  advisory' = t /\ NextVersion(target[t])'
  <2>1. advisory = t /\ advisory' = advisory /\ target'[t] = target[t] /\ pc[t] = "open"
        /\ kind[t] # "restore" /\ target[t] \in Versions
    BY <1>2 DEF PublishNext, TypeOK
  <2>2. NextVersion(target[t])
    BY <2>1 DEF PublishNext
  <2>3. \A n \in Versions : n > 1 => n - 1 \in Versions
    BY VersionAssumption DEF Versions
  <2>. QED
    BY <2>1, <2>2, <2>3 DEF NextVersion
<1>. QED
  BY <1>1, <1>2 DEF PublishNext

LEMMA OpenStep ==
    ASSUME IInv, NEW t \in Txns, NEW k \in {"publish", "draft", "restore"},
           NEW n \in Versions, NEW rows \in SUBSET Versions, Open(t, k, n, rows),
           \A v \in Versions : Active(v) => v \in rows \union {n}
    PROVE  AloneCovers'
<1>. USE DEF IInv
<1>1. /\ \A u \in Txns : pc'[u] = "open" <=> (u = t \/ pc[u] = "open")
      /\ \A v \in Versions : Active(v)' <=> Active(v)
      /\ todo'[t] = rows /\ target'[t] = n
  BY DEF Open, TypeOK, Active
<1>2. CASE \E u \in Txns : pc[u] = "open"
  <2>1. crowded' = crowded \union {u \in Txns : pc[u] = "open"} \union {t}
    BY <1>2 DEF Open
  <2>. QED
    BY <1>1, <2>1 DEF AloneCovers
<1>3. CASE \A u \in Txns : pc[u] # "open"
  BY <1>1, <1>3 DEF AloneCovers, Covers
<1>. QED
  BY <1>2, <1>3

LEMMA BeginPublishStep ==
    ASSUME IInv, NEW t \in Txns, NEW k \in {"publish", "draft"}, BeginPublish(t, k)
    PROVE  IInv'
<1>. USE DEF IInv
<1>1. PICK n \in Versions : /\ AdvisoryLock(t) /\ NextVersion(n)
                            /\ Open(t, k, n, {v \in Versions : Active(v)})
  BY DEF BeginPublish
<1>2. TypeOK'
  BY <1>1, TxnAssumption DEF TypeOK, Open, AdvisoryLock
<1>3. /\ \A u \in Txns : u # t => pc'[u] = pc[u] /\ kind'[u] = kind[u] /\ target'[u] = target[u]
      /\ kind'[t] = k /\ target'[t] = n /\ UNCHANGED <<state, mine>>
      /\ advisory = NoTxn /\ advisory' = t
  BY <1>1 DEF Open, AdvisoryLock, TypeOK
<1>4. RowsExist' /\ Contiguous'
  BY <1>3 DEF RowsExist, Contiguous, Exists
<1>5. PublishNext'
  <2>1. NextVersion(n)'
    BY <1>1, <1>3 DEF NextVersion, Exists
  <2>2. \A u \in Txns : (u # t /\ pc[u] = "open") => kind[u] = "restore"
    BY <1>3, TxnAssumption DEF PublishNext
  <2>. QED
    BY <1>3, <2>1, <2>2 DEF PublishNext
<1>6. AloneCovers'
  BY <1>1, OpenStep
<1>. QED
  BY <1>2, <1>4, <1>5, <1>6

LEMMA BeginRestoreStep ==
    ASSUME IInv, NEW t \in Txns, NEW n \in Versions, BeginRestore(t, n)
    PROVE  IInv'
<1>. USE DEF IInv
<1>1. Exists(n) /\ Open(t, "restore", n, Siblings(n)) /\ UNCHANGED advisory
      /\ Siblings(n) \in SUBSET Versions
  BY DEF BeginRestore, Siblings
<1>2. TypeOK'
  BY <1>1 DEF TypeOK, Open
<1>3. /\ \A u \in Txns : u # t => pc'[u] = pc[u] /\ kind'[u] = kind[u] /\ target'[u] = target[u]
      /\ kind'[t] = "restore" /\ target'[t] = n /\ UNCHANGED <<state, mine, advisory>>
  BY <1>1 DEF Open, TypeOK
<1>4. RowsExist'
  BY <1>1, <1>3 DEF RowsExist, Exists
<1>5. \A v \in Versions : Exists(v)' <=> Exists(v)
  BY <1>3 DEF Exists
<1>6. PublishNext' /\ Contiguous'
  BY <1>3, <1>5, SameRows
<1>7. AloneCovers'
  <2>1. \A v \in Versions : Active(v) => v \in Siblings(n) \union {n}
    BY DEF Siblings
  <2>. QED
    BY <1>1, <2>1, OpenStep
<1>. QED
  BY <1>2, <1>4, <1>6, <1>7

LEMMA SupersedeStep ==
    ASSUME IInv, NEW t \in Txns, NEW v \in Versions, Supersede(t, v)
    PROVE  IInv'
<1>. USE DEF IInv
<1>1. /\ todo' = [todo EXCEPT ![t] = @ \ {v}]
      /\ mine' = [mine EXCEPT ![t] = IF Active(v) THEN @ \union {v} ELSE @]
      /\ UNCHANGED <<state, deleted, pc, kind, target, advisory, crowded>>
  BY DEF Supersede
<1>2. TypeOK'
  BY <1>1 DEF TypeOK
<1>3. \A u \in Txns : /\ todo'[u] = IF u = t THEN todo[u] \ {v} ELSE todo[u]
                      /\ mine'[u] = IF u = t /\ Active(v) THEN mine[u] \union {v} ELSE mine[u]
  BY <1>1 DEF TypeOK
<1>4. Active(v) => Exists(v)
  BY DEF Active, Exists, ActiveStates
<1>5. RowsExist'
  BY <1>1, <1>3, <1>4 DEF RowsExist, Exists
<1>6. \A w \in Versions : (Exists(w)' <=> Exists(w)) /\ (Active(w)' <=> Active(w))
  BY <1>1 DEF Exists, Active
<1>7. PublishNext' /\ Contiguous'
  BY <1>1, <1>6, SameRows
<1>8. AloneCovers'
  BY <1>1, <1>3, <1>6 DEF AloneCovers, Covers
<1>. QED
  BY <1>2, <1>5, <1>7, <1>8

(* A transaction that ends takes its locks with it and was not overlapping  *)
(* one that is alone.                                                        *)
LEMMA CloseStep ==
    ASSUME IInv, NEW t \in Txns, pc[t] = "open", Close(t)
    PROVE  /\ pc' \in [Txns -> {"idle", "open"}]
           /\ kind' \in [Txns -> {"publish", "draft", "restore"}]
           /\ target' \in [Txns -> Versions \union {0}]
           /\ todo' \in [Txns -> SUBSET Versions] /\ mine' \in [Txns -> SUBSET Versions]
           /\ advisory' \in Txns \union {NoTxn} /\ crowded' \subseteq Txns
           /\ \A u \in Txns : pc'[u] = "open" => /\ u # t /\ pc[u] = "open"
                                                 /\ target'[u] = target[u] /\ kind'[u] = kind[u]
                                                 /\ target'[u] \in Versions
           /\ \A u \in Txns : mine'[u] \subseteq mine[u]
           /\ advisory' # NoTxn => pc'[advisory'] = "open"
           /\ \A u \in Txns : (u # t /\ advisory = u) => advisory' = u
           /\ AloneCovers'
<1>. USE DEF IInv
<1>1. \A u \in Txns : /\ pc'[u] = IF u = t THEN "idle" ELSE pc[u]
                      /\ target'[u] = IF u = t THEN 0 ELSE target[u]
                      /\ mine'[u] = IF u = t THEN {} ELSE mine[u]
                      /\ kind'[u] = kind[u]
  BY DEF Close, TypeOK
<1>2. crowded' = crowded \ {t}
  BY DEF Close
<1>3. AloneCovers'
  BY <1>1, <1>2 DEF AloneCovers
<1>4. /\ pc' \in [Txns -> {"idle", "open"}]
      /\ kind' \in [Txns -> {"publish", "draft", "restore"}]
      /\ target' \in [Txns -> Versions \union {0}]
      /\ todo' \in [Txns -> SUBSET Versions] /\ mine' \in [Txns -> SUBSET Versions]
      /\ advisory' \in Txns \union {NoTxn} /\ crowded' \subseteq Txns
  BY DEF Close, AdvisoryAfter, TypeOK
<1>5. advisory' # NoTxn => pc'[advisory'] = "open"
  BY <1>1 DEF Close, AdvisoryAfter, TypeOK
<1>6. \A u \in Txns : (u # t /\ advisory = u) => advisory' = u
  BY DEF Close, AdvisoryAfter
<1>7. \A u \in Txns : pc'[u] = "open" => u # t /\ pc[u] = "open" /\ target'[u] \in Versions
  BY <1>1 DEF TypeOK
<1>. QED
  BY <1>1, <1>3, <1>4, <1>5, <1>6, <1>7

LEMMA CommitPublishStep ==
    ASSUME IInv, NEW t \in Txns, CommitPublish(t)
    PROVE  IInv'
<1>. USE DEF IInv
<1>1. pc[t] = "open" /\ Close(t) /\ UNCHANGED deleted /\ kind[t] # "restore"
  BY DEF CommitPublish
<1>2. advisory = t /\ NextVersion(target[t]) /\ target[t] \in Versions
  BY <1>1 DEF PublishNext, TypeOK
<1>3. ~Exists(target[t])
  BY <1>2, VersionAssumption DEF NextVersion, Versions
<1>4. state' = [v \in Versions |->
                   IF v # target[t] THEN Superseded(t, v)
                   ELSE IF kind[t] = "draft" THEN "draft" ELSE "published"]
  BY <1>3 DEF CommitPublish
<1>5. \A v \in Versions : v # target[t] => (Exists(v)' <=> Exists(v))
  BY <1>4, <1>1 DEF Superseded, Exists, RowsExist
<1>6. state'[target[t]] # "none"
  BY <1>2, <1>4
<1>7. TypeOK'
  <2>1. state' \in [Versions -> States]
    BY <1>4 DEF TypeOK, Superseded, States, ActiveStates
  <2>. QED
    BY <1>1, <2>1, CloseStep DEF TypeOK
<1>8. PublishNext'
  BY <1>1, <1>2, CloseStep DEF PublishNext
<1>9. Contiguous'
  <2>1. \A v \in Versions : Exists(v)' <=> (Exists(v) \/ v = target[t])
    BY <1>3, <1>5, <1>6 DEF Exists
  <2>2. \A v \in Versions : v < target[t] => Exists(v)
    <3>. SUFFICES ASSUME NEW v \in Versions, v < target[t] PROVE Exists(v)
      OBVIOUS
    <3>1. target[t] > 1 /\ target[t] - 1 \in Versions /\ v <= target[t] - 1
      BY <1>2, VersionAssumption DEF Versions
    <3>2. Exists(target[t] - 1)
      BY <1>2, <3>1 DEF NextVersion
    <3>. QED
      BY <3>1, <3>2, VersionAssumption DEF Contiguous, Versions
  <2>. QED
    BY <1>2, <2>1, <2>2 DEF Contiguous, NextVersion
<1>10. RowsExist'
  <2>1. \A v \in Versions : Exists(v) => Exists(v)'
    BY <1>3, <1>5
  <2>2. \A u \in Txns : \A v \in mine[u] : v \in Versions
    BY DEF TypeOK
  <2>3. \A u \in Txns : \A v \in mine'[u] : v \in Versions /\ Exists(v)
    BY <1>1, <2>2, CloseStep DEF RowsExist
  <2>4. \A u \in Txns : (pc'[u] = "open" /\ kind'[u] = "restore") =>
                            target'[u] \in Versions /\ Exists(target[u]) /\ target'[u] = target[u]
    BY <1>1, CloseStep DEF RowsExist
  <2>. QED
    BY <2>1, <2>3, <2>4 DEF RowsExist, Exists
<1>. QED
  BY <1>1, <1>7, <1>8, <1>9, <1>10, CloseStep

LEMMA CommitRestoreStep ==
    ASSUME IInv, NEW t \in Txns, CommitRestore(t)
    PROVE  IInv'
<1>. USE DEF IInv
<1>1. pc[t] = "open" /\ Close(t) /\ UNCHANGED deleted /\ kind[t] = "restore"
      /\ state' = [v \in Versions |->
                     IF v = target[t] THEN "published" ELSE Superseded(t, v)]
  BY DEF CommitRestore
<1>2. Exists(target[t])
  BY <1>1 DEF RowsExist
<1>3. \A v \in Versions : Exists(v)' <=> Exists(v)
  BY <1>1, <1>2 DEF Superseded, Exists, RowsExist
<1>4. TypeOK'
  <2>1. state' \in [Versions -> States]
    BY <1>1 DEF TypeOK, Superseded, States, ActiveStates
  <2>. QED
    BY <1>1, <2>1, CloseStep DEF TypeOK
<1>5. PublishNext' /\ Contiguous'
  <2>1. \A u \in Txns : (pc'[u] = "open" /\ kind'[u] # "restore") =>
            /\ pc[u] = "open" /\ kind[u] # "restore" /\ target'[u] = target[u] /\ u # t
    BY <1>1, CloseStep
  <2>2. \A u \in Txns : (pc'[u] = "open" /\ kind'[u] # "restore") => advisory' = advisory
    BY <1>1, <2>1, CloseStep DEF PublishNext
  <2>. QED
    BY <1>3, <2>1, <2>2, SameRows
<1>6. RowsExist'
  <2>2. \A u \in Txns : \A v \in mine[u] : v \in Versions
    BY DEF TypeOK
  <2>3. \A u \in Txns : \A v \in mine'[u] : v \in Versions /\ Exists(v)
    BY <1>1, <2>2, CloseStep DEF RowsExist
  <2>4. \A u \in Txns : (pc'[u] = "open" /\ kind'[u] = "restore") =>
                            target'[u] \in Versions /\ Exists(target[u]) /\ target'[u] = target[u]
    BY <1>1, CloseStep DEF RowsExist
  <2>. QED
    BY <1>3, <2>3, <2>4 DEF RowsExist, Exists
<1>. QED
  BY <1>1, <1>4, <1>5, <1>6, CloseStep

LEMMA RollBackStep ==
    ASSUME IInv, NEW t \in Txns, RollBack(t)
    PROVE  IInv'
<1>. USE DEF IInv
<1>1. pc[t] = "open" /\ Close(t) /\ UNCHANGED <<state, deleted>>
  BY DEF RollBack
<1>2. \A v \in Versions : Exists(v)' <=> Exists(v)
  BY <1>1 DEF Exists
<1>3. TypeOK'
  BY <1>1, CloseStep DEF TypeOK
<1>4. PublishNext' /\ Contiguous'
  <2>1. \A u \in Txns : (pc'[u] = "open" /\ kind'[u] # "restore") =>
            /\ pc[u] = "open" /\ kind[u] # "restore" /\ target'[u] = target[u] /\ u # t
    BY <1>1, CloseStep
  <2>2. \A u \in Txns : (pc'[u] = "open" /\ kind'[u] # "restore") => advisory' = advisory
    BY <1>1, <2>1, CloseStep DEF PublishNext
  <2>. QED
    BY <1>2, <2>1, <2>2, SameRows
<1>5. RowsExist'
  BY <1>1, CloseStep DEF RowsExist, Exists
<1>. QED
  BY <1>1, <1>3, <1>4, <1>5, CloseStep

LEMMA RowUpdateStep ==
    ASSUME IInv, NEW v \in Versions, Archive(v) \/ SoftDelete(v)
    PROVE  IInv'
<1>. USE DEF IInv
<1>1. /\ UNCHANGED <<pc, kind, target, todo, mine, advisory, crowded>>
      /\ state' \in [Versions -> States] /\ deleted' \subseteq Versions
      /\ \A w \in Versions : Exists(w)' <=> Exists(w)
      /\ \A w \in Versions : Active(w)' => Active(w)
  BY DEF Archive, SoftDelete, TypeOK, Exists, Active, States, ActiveStates
<1>2. TypeOK'
  BY <1>1 DEF TypeOK
<1>3. PublishNext' /\ Contiguous'
  BY <1>1, SameRows
<1>4. RowsExist'
  BY <1>1 DEF RowsExist, TypeOK, Exists
<1>5. AloneCovers'
  BY <1>1 DEF AloneCovers, Covers
<1>. QED
  BY <1>2, <1>3, <1>4, <1>5

LEMMA NextIInv == IInv /\ [Next]_vars => IInv'
<1>. SUFFICES ASSUME IInv, [Next]_vars PROVE IInv'
  OBVIOUS
<1>1. CASE UNCHANGED vars
  BY <1>1
  DEF vars, IInv, TypeOK, PublishNext, NextVersion, RowsExist, Contiguous, Exists,
      AloneCovers, Covers, Active
<1>. QED
  BY <1>1, BeginPublishStep, BeginRestoreStep, SupersedeStep, CommitPublishStep,
     CommitRestoreStep, RollBackStep, RowUpdateStep DEF Next

LEMMA SpecIInv == Spec => []IInv
  BY InitIInv, NextIInv, PTL DEF Spec

(* publishSpecDoc's advisory lock: a publish never finds its version taken,  *)
(* and the versions of a handle are 1..n, deleted ones included.             *)
THEOREM VersionsCorrect == Spec => []VersionsAppend
<1>1. IInv => VersionsAppend
  BY VersionAssumption
  DEF IInv, VersionsAppend, PublishNext, NextVersion, Contiguous, TypeOK, Versions
<1>. QED
  BY <1>1, SpecIInv, PTL

LEMMA SoleStep ==
    ASSUME IInv, Next, NEW t \in Txns \ crowded,
           pc[t] = "open", pc'[t] = "idle", state' # state
    PROVE  \A v \in Versions : Active(v)' => v = target[t]
<1>. USE DEF IInv
<1>1. Covers(t) /\ pc[t] # "idle"
  BY DEF AloneCovers
<1>2. CommitPublish(t) \/ CommitRestore(t)
  <2>1. \A u \in Txns : Close(u) => \A w \in Txns : w # u => pc'[w] = pc[w]
    BY DEF Close, TypeOK
  <2>2. \A u \in Txns : RollBack(u) => state' = state
    BY DEF RollBack
  <2>3. \A u \in Txns : CommitPublish(u) \/ CommitRestore(u) => u = t
    BY <1>1, <2>1 DEF CommitPublish, CommitRestore
  <2>. QED
    BY <1>1, <2>2, <2>3
    DEF Next, BeginPublish, BeginRestore, Open, Supersede, Archive, SoftDelete
<1>3. /\ todo[t] = {} /\ UNCHANGED deleted
      /\ \A v \in Versions : v # target[t] => state'[v] = Superseded(t, v)
  BY <1>2 DEF CommitPublish, CommitRestore
<1>. QED
  BY <1>1, <1>3 DEF Covers, Active, Superseded, ActiveStates

(* publishSpecDoc and restoreSpecDoc: one that overlapped no other leaves    *)
(* its version the only active one, whatever archives and deletes meanwhile. *)
THEOREM SoleActiveCorrect == Spec => SoleActiveAfter
<1>1. IInv /\ [Next]_vars =>
         [\A t \in Txns \ crowded : (pc[t] = "open" /\ pc'[t] = "idle" /\ state' # state)
             => \A v \in Versions : Active(v)' => v = target[t]]_vars
  BY SoleStep
<1>. QED
  BY <1>1, SpecIInv, PTL DEF Spec, SoleActiveAfter

-------------------------------------------------------------------------------
(* The board: triggers over the versions *)

(* What a transaction has read stays true while it holds the lock. *)
LockedFresh ==
    \A t \in Triggers : doc[t] # NoDoc => /\ lock[doc[t]] = t
                                          /\ orch[doc[t]] = "proposed"
                                          /\ seen[t] = 0

BoardInv == DispatchTypeOK /\ OneRunPerVersion /\ MirrorMatchesLog /\ LockedFresh

LEMMA NoDocIsNone == NoDoc \notin Versions
  BY VersionAssumption DEF NoDoc, Versions

LEMMA InitBoardInv == BoardInit => BoardInv
  BY TriggerAssumption, NoDocIsNone
  DEF BoardInit, DispatchInit, BoardInv, DispatchTypeOK, OrchStates, OneRunPerVersion,
      MirrorMatchesLog, Queued, LockedFresh

LEMMA BeginTriggerStep ==
    ASSUME BoardInv, NEW t \in Triggers, NEW d \in Versions, BeginTrigger(t, d)
    PROVE  BoardInv'
<1>. USE DEF BoardInv
<1>1. DispatchTypeOK'
  BY TriggerAssumption, NoDocIsNone DEF DispatchTypeOK, BeginTrigger, TriggerLock
<1>2. OneRunPerVersion' /\ MirrorMatchesLog'
  BY DEF BeginTrigger, OneRunPerVersion, MirrorMatchesLog, Queued
<1>3. orch[d] = "proposed" /\ count[d] = 0
  BY DEF BeginTrigger, Triggerable, MirrorMatchesLog, DispatchTypeOK, OrchStates
<1>4. LockedFresh'
  BY <1>3, TriggerAssumption, NoDocIsNone
  DEF BeginTrigger, TriggerLock, LockedFresh, DispatchTypeOK
<1>. QED
  BY <1>1, <1>2, <1>4

LEMMA CloseTriggerStep ==
    ASSUME DispatchTypeOK, LockedFresh, NEW t \in Triggers, CloseTrigger(t),
           \A d \in Versions : d # doc[t] => orch'[d] = orch[d], doc[t] \in Versions
    PROVE  /\ LockedFresh'
           /\ doc' \in [Triggers -> Versions \union {NoDoc}]
           /\ seen' \in [Triggers -> Nat] /\ lock' \in [Versions -> Triggers \union {NoTxn}]
           /\ \A d \in Versions : lock'[d] # NoTxn => doc'[lock'[d]] = d
<1>1. /\ \A u \in Triggers : u # t => doc'[u] = doc[u] /\ seen'[u] = seen[u]
      /\ doc'[t] = NoDoc
      /\ \A d \in Versions : lock'[d] = IF lock[d] = t THEN NoTxn ELSE lock[d]
  BY DEF CloseTrigger, DispatchTypeOK
<1>2. LockedFresh'
  BY <1>1, TriggerAssumption, NoDocIsNone DEF LockedFresh, DispatchTypeOK
<1>3. /\ doc' \in [Triggers -> Versions \union {NoDoc}]
      /\ seen' \in [Triggers -> Nat] /\ lock' \in [Versions -> Triggers \union {NoTxn}]
  BY DEF CloseTrigger, DispatchTypeOK
<1>4. \A d \in Versions : lock'[d] # NoTxn => doc'[lock'[d]] = d
  BY <1>1 DEF DispatchTypeOK
<1>. QED
  BY <1>2, <1>3, <1>4

LEMMA CommitTriggerStep ==
    ASSUME BoardInv, NEW t \in Triggers, NEW r \in Targets, CommitTrigger(t, r)
    PROVE  BoardInv'
<1>. USE DEF BoardInv
<1> DEFINE d == doc[t]
<1>1. d \in Versions /\ seen[t] = 0 /\ orch[d] = "proposed"
  BY DEF CommitTrigger, DispatchTypeOK, LockedFresh
<1>2. /\ runs' = runs \union {<<d, r>>}
      /\ count' = [count EXCEPT ![d] = 1] /\ orch' = [orch EXCEPT ![d] = "triggered"]
  BY <1>1 DEF CommitTrigger, Budget, NextOrch
<1>3. ~Queued(d)
  BY <1>1 DEF MirrorMatchesLog
<1>4. \A e \in Versions, q \in Targets :
         <<e, q>> \in runs' <=> (<<e, q>> \in runs \/ (e = d /\ q = r))
  BY <1>2
<1>5. OneRunPerVersion'
  BY <1>3, <1>4 DEF OneRunPerVersion, Queued
<1>6. MirrorMatchesLog'
  <2>1. ASSUME NEW e \in Versions
        PROVE  /\ orch'[e] = IF e = d THEN "triggered" ELSE orch[e]
               /\ count'[e] = IF e = d THEN 1 ELSE count[e]
               /\ Queued(e)' <=> (Queued(e) \/ e = d)
    <3>1. /\ orch'[e] = IF e = d THEN "triggered" ELSE orch[e]
          /\ count'[e] = IF e = d THEN 1 ELSE count[e]
      BY <1>2 DEF DispatchTypeOK
    <3>2. Queued(e)' <=> (Queued(e) \/ e = d)
      BY <1>1, <1>4 DEF Queued
    <3>. QED
      BY <3>1, <3>2
  <2>. QED
    BY <2>1 DEF MirrorMatchesLog
<1>7. \A e \in Versions : e # doc[t] => orch'[e] = orch[e]
  BY <1>2 DEF DispatchTypeOK
<1>8. CloseTrigger(t)
  BY DEF CommitTrigger
<1>9. DispatchTypeOK' /\ LockedFresh'
  <2>1. orch' \in [Versions -> OrchStates] /\ count' \in [Versions -> Nat]
        /\ runs' \subseteq Versions \X Targets
    BY <1>1, <1>2 DEF DispatchTypeOK, OrchStates
  <2>. QED
    BY <1>1, <1>7, <1>8, <2>1, CloseTriggerStep DEF DispatchTypeOK
<1>. QED
  BY <1>5, <1>6, <1>9

LEMMA NextBoardInv == BoardInv /\ [BoardNext]_boardVars => BoardInv'
<1>. SUFFICES ASSUME BoardInv, [BoardNext]_boardVars PROVE BoardInv'
  OBVIOUS
<1>1. ASSUME NEW t \in Triggers, NEW d \in Versions, BeginTrigger(t, d)
      PROVE  BoardInv'
  BY <1>1, BeginTriggerStep
<1>2. ASSUME NEW t \in Triggers, NEW r \in Targets, CommitTrigger(t, r) PROVE BoardInv'
  BY <1>2, CommitTriggerStep
<1>3. ASSUME NEW t \in Triggers, UndoTrigger(t) PROVE BoardInv'
  <2>1. CloseTrigger(t) /\ doc[t] \in Versions /\ UNCHANGED <<orch, count, runs>>
    BY <1>3 DEF UndoTrigger, BoardInv, DispatchTypeOK
  <2>2. LockedFresh' /\ DispatchTypeOK'
    BY <2>1, CloseTriggerStep DEF BoardInv, DispatchTypeOK
  <2>3. OneRunPerVersion' /\ MirrorMatchesLog'
    BY <2>1 DEF BoardInv, OneRunPerVersion, MirrorMatchesLog, Queued
  <2>. QED
    BY <2>2, <2>3 DEF BoardInv
<1>4. CASE UNCHANGED dispatchVars
  BY <1>4
  DEF dispatchVars, BoardInv, DispatchTypeOK, OneRunPerVersion, MirrorMatchesLog, Queued,
      LockedFresh
<1>. QED
  BY <1>1, <1>2, <1>3, <1>4 DEF BoardNext, Trigger, boardVars

LEMMA SpecBoardInv == BoardSpec => []BoardInv
  BY InitBoardInv, NextBoardInv, PTL DEF BoardSpec

(* DISPATCH_BUDGET: no version is ever dispatched twice, whatever trigger    *)
(* requests overlap, name different runtimes or lose their connection, and   *)
(* whatever becomes of the version meanwhile.                                *)
THEOREM BudgetCorrect == BoardSpec => []OneRunPerVersion
<1>1. BoardInv => OneRunPerVersion
  BY DEF BoardInv
<1>. QED
  BY <1>1, SpecBoardInv, PTL

(* orchState and dispatchCount always agree with the run log, and the        *)
(* budget-exhausted branch of triggerSpecDoc is unreachable.                 *)
THEOREM MirrorCorrect == BoardSpec => []MirrorMatchesLog
<1>1. BoardInv => MirrorMatchesLog
  BY DEF BoardInv
<1>. QED
  BY <1>1, SpecBoardInv, PTL

(* Triggers leave the versions' lifecycle as it is: what is proved of Spec   *)
(* above holds on the board.                                                 *)
THEOREM BoardKeepsLifecycle == BoardSpec => Spec
<1>1. BoardInit => Init
  BY DEF BoardInit
<1>2. [BoardNext]_boardVars => [Next]_vars
  BY DEF BoardNext, boardVars
<1>. QED
  BY <1>1, <1>2, PTL DEF BoardSpec, Spec
===============================================================================

------------------------------- MODULE SpecDocs -------------------------------
(***************************************************************************)
(* The version lifecycle of one (owner, handle) of lib/db/spec-doc-queries *)
(* .ts: publish, restore, archive and soft-delete as PostgreSQL runs them  *)
(* at READ COMMITTED.  An UPDATE over several rows takes the rows its      *)
(* statement snapshot matches, one lock at a time, evaluates its WHERE     *)
(* again on each row it had to wait for, and cannot see rows another       *)
(* transaction makes match later.  state and deleted are committed rows.   *)
(***************************************************************************)
EXTENDS Integers, FiniteSets

CONSTANTS
    MaxVersion,  \* bound: publishes of the handle
    Txns,        \* publish and restore requests in flight at once
    NoTxn

ASSUME TxnAssumption == NoTxn \notin Txns
ASSUME VersionAssumption == MaxVersion \in Nat

VARIABLES
    state,       \* SpecDoc.state per version, "none" before the insert
    deleted,     \* versions with deletedAt set
    pc, kind,    \* the transactions: how far they are, and what they do
    target,      \* the version a publish inserts or a restore publishes
    todo,        \* rows of its supersede statement still to be locked
    mine,        \* rows it has superseded, locked and not yet committed
    advisory,    \* holder of pg_advisory_xact_lock(owner/handle)
    crowded      \* history: open transactions that have crowded another

vars == <<state, deleted, pc, kind, target, todo, mine, advisory, crowded>>

Versions == 1..MaxVersion
ActiveStates == {"published", "draft"}
States == ActiveStates \union {"none", "superseded", "archived"}

TypeOK ==
    /\ state \in [Versions -> States]
    /\ deleted \subseteq Versions
    /\ pc \in [Txns -> {"idle", "open"}]
    /\ kind \in [Txns -> {"publish", "draft", "restore"}]
    /\ target \in [Txns -> Versions \union {0}]
    /\ todo \in [Txns -> SUBSET Versions]
    /\ mine \in [Txns -> SUBSET Versions]
    /\ advisory \in Txns \union {NoTxn}
    /\ crowded \subseteq Txns
    /\ \A t \in Txns : pc[t] = "open" => target[t] \in Versions
    /\ advisory # NoTxn => pc[advisory] = "open"

Init ==
    /\ state = [v \in Versions |-> "none"]
    /\ deleted = {}
    /\ pc = [t \in Txns |-> "idle"]
    /\ kind = [t \in Txns |-> "restore"]
    /\ target = [t \in Txns |-> 0]
    /\ todo = [t \in Txns |-> {}]
    /\ mine = [t \in Txns |-> {}]
    /\ advisory = NoTxn
    /\ crowded = {}

-------------------------------------------------------------------------------
Exists(v) == state[v] # "none"

(* ACTIVE_STATES, not deleted: what /d/<handle> serves and a publish         *)
(* supersedes.                                                               *)
Active(v) == state[v] \in ActiveStates /\ v \notin deleted

(* version = coalesce(max(version), 0) + 1, over deleted rows too. *)
NextVersion(n) == /\ \A v \in Versions : Exists(v) => v < n
                  /\ n > 1 => Exists(n - 1)

NoAdvisoryLock(t) == UNCHANGED advisory
AdvisoryLock(t) == advisory = NoTxn /\ advisory' = t

RowFree(v) == \A t \in Txns : v \notin mine[t]

(* Transaction t opens as k on version n, its UPDATE's snapshot being rows. *)
Open(t, k, n, rows) ==
    /\ pc[t] = "idle"
    /\ pc' = [pc EXCEPT ![t] = "open"]
    /\ kind' = [kind EXCEPT ![t] = k]
    /\ target' = [target EXCEPT ![t] = n]
    /\ todo' = [todo EXCEPT ![t] = rows]
    /\ LET others == {u \in Txns : pc[u] = "open"}
       IN  crowded' = IF others = {} THEN crowded ELSE crowded \union others \union {t}
    /\ UNCHANGED <<state, deleted, mine>>

(* publishSpecDoc: advisory lock, max(version), supersede statement. *)
BeginPublish(t, k) ==
    \E n \in Versions :
        /\ AdvisoryLock(t)
        /\ NextVersion(n)
        /\ Open(t, k, n, {v \in Versions : Active(v)})

(* restoreSpecDoc supersedes the active siblings of its target. *)
NoSiblings(n) == {}
Siblings(n) == {v \in Versions \ {n} : Active(v)}

BeginRestore(t, n) ==
    /\ Exists(n) /\ n \notin deleted
    /\ Open(t, "restore", n, Siblings(n))
    /\ UNCHANGED advisory

(* The supersede statement gets to one more row and looks at it again. *)
Supersede(t, v) ==
    /\ v \in todo[t]
    /\ RowFree(v)
    /\ todo' = [todo EXCEPT ![t] = @ \ {v}]
    /\ mine' = [mine EXCEPT ![t] = IF Active(v) THEN @ \union {v} ELSE @]
    /\ UNCHANGED <<state, deleted, pc, kind, target, advisory, crowded>>

(* Locks go with the transaction, whether it commits or rolls back: the      *)
(* advisory lock is a transaction-level one.                                 *)
AdvisoryAfter(t) == IF advisory = t THEN NoTxn ELSE advisory

Close(t) ==
    /\ pc' = [pc EXCEPT ![t] = "idle"]
    /\ target' = [target EXCEPT ![t] = 0]
    /\ todo' = [todo EXCEPT ![t] = {}]
    /\ mine' = [mine EXCEPT ![t] = {}]
    /\ advisory' = AdvisoryAfter(t)
    /\ crowded' = crowded \ {t}
    /\ UNCHANGED kind

Superseded(t, v) == IF v \in mine[t] THEN "superseded" ELSE state[v]

(* Insert the new version and commit; SpecDoc_owner_handle_version_uq makes  *)
(* a version that is taken an error.                                         *)
CommitPublish(t) ==
    /\ pc[t] = "open" /\ kind[t] \in {"publish", "draft"}
    /\ todo[t] = {}
    /\ state' = IF Exists(target[t]) THEN state
                ELSE [v \in Versions |->
                        IF v # target[t] THEN Superseded(t, v)
                        ELSE IF kind[t] = "draft" THEN "draft" ELSE "published"]
    /\ Close(t)
    /\ UNCHANGED deleted

(* Publish the target by id, whatever became of it, and commit. *)
CommitRestore(t) ==
    /\ pc[t] = "open" /\ kind[t] = "restore"
    /\ todo[t] = {}
    /\ RowFree(target[t])
    /\ state' = [v \in Versions |->
                    IF v = target[t] THEN "published" ELSE Superseded(t, v)]
    /\ Close(t)
    /\ UNCHANGED deleted

(* A lost connection, or the victim of a row-lock cycle. *)
RollBack(t) ==
    /\ pc[t] = "open"
    /\ Close(t)
    /\ UNCHANGED <<state, deleted>>

(* PATCH archive and DELETE: one UPDATE by id, not of a deleted row. *)
Archive(v) ==
    /\ Exists(v) /\ v \notin deleted /\ RowFree(v)
    /\ state' = [state EXCEPT ![v] = "archived"]
    /\ UNCHANGED <<deleted, pc, kind, target, todo, mine, advisory, crowded>>

SoftDelete(v) ==
    /\ Exists(v) /\ v \notin deleted /\ RowFree(v)
    /\ deleted' = deleted \union {v}
    /\ UNCHANGED <<state, pc, kind, target, todo, mine, advisory, crowded>>

Next ==
    \/ \E t \in Txns :
          \/ \E k \in {"publish", "draft"} : BeginPublish(t, k)
          \/ \E v \in Versions : BeginRestore(t, v) \/ Supersede(t, v)
          \/ CommitPublish(t) \/ CommitRestore(t) \/ RollBack(t)
    \/ \E v \in Versions : Archive(v) \/ SoftDelete(v)

Spec == Init /\ [][Next]_vars

-------------------------------------------------------------------------------
(* Properties *)

(* publishSpecDoc's advisory lock: "the read-max-then-insert below would     *)
(* otherwise race two callers into the same version": a publish never finds  *)
(* its version taken, and versions stay 1..n, deleted rows included.         *)
VersionsAppend ==
    /\ \A t \in Txns : (pc[t] = "open" /\ kind[t] # "restore") => ~Exists(target[t])
    /\ \A v, w \in Versions : (v < w /\ Exists(w)) => Exists(v)

(* publishSpecDoc and restoreSpecDoc, each in one transaction: one that      *)
(* overlapped no other publish or restore leaves its version the only active *)
(* one, whatever archives and deletes ran meanwhile and however many were    *)
(* active before.                                                            *)
SoleActiveAfter ==
    [][\A t \in Txns \ crowded : (pc[t] = "open" /\ pc'[t] = "idle" /\ state' # state)
          => \A v \in Versions : Active(v)' => v = target[t]]_vars

(* spec-doc-queries.ts:487 "Restore a doc (by id) to `published` as the SOLE *)
(* active version of its handle": also when requests overlap.                *)
OneActive == \A v, w \in Versions : (Active(v) /\ Active(w)) => v = w
===============================================================================

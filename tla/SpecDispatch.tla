----------------------------- MODULE SpecDispatch -----------------------------
(***************************************************************************)
(* The dispatch control plane of lib/db/spec-doc-queries.ts triggerSpecDoc *)
(* over the versions of SpecDocs: one transaction per trigger request,     *)
(* serialized per version by an advisory lock of its own, which records a  *)
(* queued run and counts it against the version's budget, while publishes, *)
(* restores, archives and deletes change the same rows.                    *)
(***************************************************************************)
EXTENDS SpecDocs

CONSTANTS
    Targets,     \* runtimes a trigger may name
    Triggers     \* trigger requests in flight at once

ASSUME TriggerAssumption == NoTxn \notin Triggers

VARIABLES
    orch,        \* SpecDoc.orchState
    count,       \* SpecDoc.dispatchCount
    runs,        \* SpecDocRun rows
    doc,         \* per request: the version it triggers
    seen,        \* the dispatchCount it has read
    lock         \* holder of pg_advisory_xact_lock(owner/trigger/id)

dispatchVars == <<orch, count, runs, doc, seen, lock>>
boardVars == <<vars, dispatchVars>>

OrchStates == {"proposed", "triggered", "blocked"}
Budget == 1   \* DISPATCH_BUDGET
NoDoc == 0

DispatchTypeOK ==
    /\ orch \in [Versions -> OrchStates]
    /\ count \in [Versions -> Nat]
    /\ runs \subseteq Versions \X Targets
    /\ doc \in [Triggers -> Versions \union {NoDoc}]
    /\ seen \in [Triggers -> Nat]
    /\ lock \in [Versions -> Triggers \union {NoTxn}]
    /\ \A d \in Versions : lock[d] # NoTxn => doc[lock[d]] = d

(* publishSpecDoc inserts rows with the columns' defaults. *)
DispatchInit ==
    /\ orch = [d \in Versions |-> "proposed"]
    /\ count = [d \in Versions |-> 0]
    /\ runs = {}
    /\ doc = [t \in Triggers |-> NoDoc]
    /\ seen = [t \in Triggers |-> 0]
    /\ lock = [d \in Versions |-> NoTxn]

-------------------------------------------------------------------------------
Triggerable(d) == orch[d] \in {"proposed", "reviewing"}

NoTriggerLock(t, d) == UNCHANGED lock
TriggerLock(t, d) == lock[d] = NoTxn /\ lock' = [lock EXCEPT ![d] = t]

(* Lock, SELECT, and go on only if the version may be dispatched; whether it *)
(* is published, superseded or archived is not looked at.                    *)
BeginTrigger(t, d) ==
    /\ doc[t] = NoDoc
    /\ Exists(d) /\ d \notin deleted /\ Triggerable(d)
    /\ TriggerLock(t, d)
    /\ doc' = [doc EXCEPT ![t] = d]
    /\ seen' = [seen EXCEPT ![t] = count[d]]
    /\ UNCHANGED <<orch, count, runs>>

(* A transaction-level advisory lock goes with its transaction. *)
CloseTrigger(t) ==
    /\ doc' = [doc EXCEPT ![t] = NoDoc]
    /\ lock' = [d \in Versions |-> IF lock[d] = t THEN NoTxn ELSE lock[d]]
    /\ seen' = [seen EXCEPT ![t] = 0]

(* idempotencyKey is unique: handle, version, target and owner. *)
AlreadyQueued(t, r) == <<doc[t], r>> \in runs

NextOrchStale(d) == orch[d]
NextOrch(d) == "triggered"

(* It queues the run for the runtime r the request names; its UPDATE of the  *)
(* version's row waits for a supersede statement that has the row locked.    *)
CommitTrigger(t, r) ==
    /\ doc[t] # NoDoc
    /\ RowFree(doc[t])
    /\ IF seen[t] >= Budget
       THEN /\ orch' = [orch EXCEPT ![doc[t]] = "blocked"]
            /\ UNCHANGED <<count, runs>>
       ELSE /\ ~AlreadyQueued(t, r)
            /\ runs' = runs \union {<<doc[t], r>>}
            /\ count' = [count EXCEPT ![doc[t]] = seen[t] + 1]
            /\ orch' = [orch EXCEPT ![doc[t]] = NextOrch(doc[t])]
    /\ CloseTrigger(t)

(* A duplicate key, or a lost connection: the transaction is undone. *)
UndoTrigger(t) ==
    /\ doc[t] # NoDoc
    /\ CloseTrigger(t)
    /\ UNCHANGED <<orch, count, runs>>

Trigger ==
    \E t \in Triggers :
        \/ \E d \in Versions : BeginTrigger(t, d)
        \/ \E r \in Targets : CommitTrigger(t, r)
        \/ UndoTrigger(t)

BoardInit == Init /\ DispatchInit

BoardNext ==
    \/ Next /\ UNCHANGED dispatchVars
    \/ Trigger /\ UNCHANGED vars

BoardSpec == BoardInit /\ [][BoardNext]_boardVars

-------------------------------------------------------------------------------
(* Properties *)

(* DISPATCH_BUDGET, "N=1 dispatch per spec-version": two requests naming     *)
(* different runtimes never both queue a run of one version, nor does a      *)
(* version that was superseded and restored get a second one.                *)
OneRunPerVersion ==
    \A d \in Versions : \A q, r \in Targets : (<<d, q>> \in runs /\ <<d, r>> \in runs) => q = r

Queued(d) == \E r \in Targets : <<d, r>> \in runs

(* orchState is "a mirror cache over this log" (schema.ts SpecDocRun), and   *)
(* the budget branch is "normally unreachable" (spec-doc-queries.ts:607).    *)
MirrorMatchesLog ==
    \A d \in Versions :
        /\ orch[d] # "blocked"
        /\ orch[d] = "triggered" <=> Queued(d)
        /\ count[d] = IF Queued(d) THEN 1 ELSE 0
===============================================================================

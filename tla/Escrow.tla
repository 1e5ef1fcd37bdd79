-------------------------------- MODULE Escrow --------------------------------
(***************************************************************************)
(* Marketplace escrow (lib/db/marketplace.ts) under concurrent requests to *)
(* app/api/marketplace/escrow/route.ts.  Transactions run at PostgreSQL's  *)
(* READ COMMITTED: a SELECT reads committed rows and locks nothing; an     *)
(* UPDATE waits for the row's lock, evaluates its WHERE and its            *)
(* expressions on the row as then committed, and keeps the lock to the end *)
(* of the transaction.  balance and status are the committed rows.         *)
(***************************************************************************)
EXTENDS Integers, Totals

CONSTANTS
    Orgs,
    Escrows,     \* one per purchase of a task
    Buyer,       \* Escrows -> Orgs
    Seller,      \* Escrows -> Orgs: the organization of the task's agent
    Amount,      \* Escrows -> priceCredits of the task
    Opening,     \* Orgs -> planCreditsRemaining to start with
    Handlers,    \* PATCH requests in flight at once
    NoEscrow, NoHandler

ASSUME FinitelyMany == IsFiniteSet(Orgs) /\ IsFiniteSet(Escrows)

ASSUME PartiesAssumption ==
    /\ Buyer \in [Escrows -> Orgs]
    /\ Seller \in [Escrows -> Orgs]
    /\ \A e \in Escrows : Buyer[e] # Seller[e]
    /\ NoEscrow \notin Escrows /\ NoHandler \notin Handlers

ASSUME AmountAssumption ==
    /\ Amount \in [Escrows -> Nat]
    /\ \A e \in Escrows : Amount[e] > 0
    /\ Opening \in [Orgs -> Nat]

VARIABLES
    balance,     \* organization.planCreditsRemaining
    status,      \* escrowTransaction.status, "none" before the insert
    pc,          \* how far each PATCH has come
    op,          \* its action
    esc,         \* its escrow
    rowLock,     \* the transaction holding an organization row
    paid,        \* history: settlements committed per escrow
    raced        \* history: requests that met another on their escrow

vars == <<balance, status, pc, op, esc, rowLock, paid, raced>>

Ops == {"release", "refund", "dispute"}
Settled == {"released", "refunded"}

(* Types; a balance never goes negative (createEscrow's decrement is guarded  *)
(* by the row it updates), and a request has an escrow while it is served.    *)
TypeOK ==
    /\ balance \in [Orgs -> Nat]
    /\ status \in [Escrows -> {"none", "held", "disputed"} \union Settled]
    /\ pc \in [Handlers -> {"idle", "checked", "selected", "credited"}]
    /\ op \in [Handlers -> Ops]
    /\ esc \in [Handlers -> Escrows \union {NoEscrow}]
    /\ rowLock \in [Orgs -> Handlers \union {NoHandler}]
    /\ paid \in [Escrows -> Nat]
    /\ raced \subseteq Handlers
    /\ \A h \in Handlers : pc[h] # "idle" => esc[h] \in Escrows

Init ==
    /\ balance = Opening
    /\ status = [e \in Escrows |-> "none"]
    /\ pc = [h \in Handlers |-> "idle"]
    /\ op = [h \in Handlers |-> "dispute"]
    /\ esc = [h \in Handlers |-> NoEscrow]
    /\ rowLock = [o \in Orgs |-> NoHandler]
    /\ paid = [e \in Escrows |-> 0]
    /\ raced = {}

-------------------------------------------------------------------------------
(* Math.ceil(amountCredits * COMMISSION_RATE), the rate being 5%. *)
Commission(e) == (Amount[e] + 19) \div 20

(* The conditional decrement of createEscrow. *)
OverdraftByOne(e) == balance[Buyer[e]] + 1 >= Amount[e]
Affordable(e) == balance[Buyer[e]] >= Amount[e]

(* POST: the decrement and the insert are one transaction on one row lock. *)
CreateEscrow(e) ==
    /\ status[e] = "none"
    /\ rowLock[Buyer[e]] = NoHandler
    /\ Affordable(e)
    /\ balance' = [balance EXCEPT ![Buyer[e]] = @ - Amount[e]]
    /\ status' = [status EXCEPT ![e] = "held"]
    /\ UNCHANGED <<pc, op, esc, rowLock, paid, raced>>

(* The requests in flight for an escrow. *)
Serving(e) == {h \in Handlers : pc[h] # "idle" /\ esc[h] = e}

(* PATCH: getEscrowById outside any transaction, rejected unless held. *)
Patch(h, e, o) ==
    /\ pc[h] = "idle"
    /\ status[e] = "held"
    /\ pc' = [pc EXCEPT ![h] = "checked"]
    /\ op' = [op EXCEPT ![h] = o]
    /\ esc' = [esc EXCEPT ![h] = e]
    /\ raced' = IF Serving(e) = {} THEN raced ELSE raced \union Serving(e) \union {h}
    /\ UNCHANGED <<balance, status, rowLock, paid>>

(* The request ends: a response or an error. *)
Reply(h) ==
    /\ pc' = [pc EXCEPT ![h] = "idle"]
    /\ esc' = [esc EXCEPT ![h] = NoEscrow]
    /\ raced' = raced \ {h}
    /\ UNCHANGED op

(* Whether a SELECT or UPDATE ... WHERE status = 'held' finds the row. *)
FoundUnlessMissing(e) == status[e] # "none"
FoundHeld(e) == status[e] = "held"

(* releaseEscrow and refundEscrow: the transaction's plain SELECT. *)
SelectHeld(h) ==
    /\ pc[h] = "checked"
    /\ op[h] \in {"release", "refund"}
    /\ IF FoundHeld(esc[h])
       THEN pc' = [pc EXCEPT ![h] = "selected"] /\ UNCHANGED <<op, esc, raced>>
       ELSE Reply(h)
    /\ UNCHANGED <<balance, status, rowLock, paid>>

(* Who is credited, and how much: net of commission on release. *)
Payee(h) == IF op[h] = "release" THEN Seller[esc[h]] ELSE Buyer[esc[h]]

RefundNet(h) == Amount[esc[h]] - Commission(esc[h])
GrossCredit(h) == Amount[esc[h]]
Credit(h) == IF op[h] = "release" THEN Amount[esc[h]] - Commission(esc[h])
                                  ELSE Amount[esc[h]]

(* UPDATE organization: takes the payee's row lock. *)
CreditOrg(h) ==
    /\ pc[h] = "selected"
    /\ rowLock[Payee(h)] = NoHandler
    /\ rowLock' = [rowLock EXCEPT ![Payee(h)] = h]
    /\ pc' = [pc EXCEPT ![h] = "credited"]
    /\ UNCHANGED <<balance, status, op, esc, paid, raced>>

(* UPDATE escrowTransaction by id, then COMMIT. *)
Commit(h) ==
    /\ pc[h] = "credited"
    /\ balance' = [balance EXCEPT ![Payee(h)] = @ + Credit(h)]
    /\ status' = [status EXCEPT ![esc[h]] =
                     IF op[h] = "release" THEN "released" ELSE "refunded"]
    /\ rowLock' = [rowLock EXCEPT ![Payee(h)] = NoHandler]
    /\ paid' = [paid EXCEPT ![esc[h]] = @ + 1]
    /\ Reply(h)

(* disputeEscrow: one conditional UPDATE. *)
Dispute(h) ==
    /\ pc[h] = "checked"
    /\ op[h] = "dispute"
    /\ status' = IF FoundHeld(esc[h])
                 THEN [status EXCEPT ![esc[h]] = "disputed"]
                 ELSE status
    /\ Reply(h)
    /\ UNCHANGED <<balance, rowLock, paid>>

(* The server or its connection dies: PostgreSQL rolls the transaction back. *)
Crash(h) ==
    /\ pc[h] # "idle"
    /\ rowLock' = [o \in Orgs |-> IF rowLock[o] = h THEN NoHandler ELSE rowLock[o]]
    /\ Reply(h)
    /\ UNCHANGED <<balance, status, paid>>

Next ==
    \/ \E e \in Escrows : CreateEscrow(e)
    \/ \E h \in Handlers :
          \/ \E e \in Escrows, o \in Ops : Patch(h, e, o)
          \/ SelectHeld(h) \/ CreditOrg(h) \/ Commit(h) \/ Dispute(h) \/ Crash(h)

Spec == Init /\ [][Next]_vars

-------------------------------------------------------------------------------
(* Properties *)

(* disputeEscrow against the settlements: an escrow has paid out exactly if  *)
(* its row says so; a dispute never hides a payment already made.            *)
PaidIffSettled == \A e \in Escrows : paid[e] > 0 <=> status[e] \in Settled

(* Credits in accounts, in escrow and kept by the platform. *)
Holding(e) == CASE status[e] \in {"held", "disputed"} -> Amount[e]
                [] status[e] = "released" -> Commission(e)
                [] OTHER -> 0

AllCredits == Total(balance, Orgs) + Total([e \in Escrows |-> Holding(e)], Escrows)
AllOpening == Total(Opening, Orgs)

(* releaseEscrow / refundEscrow: whatever overlaps or crashes, credits are   *)
(* never lost.                                                               *)
CreditsNeverLost == AllCredits >= AllOpening

(* marketplace.ts:219 "Lock and verify escrow is still held": a settlement   *)
(* finds its escrow held for as long as its transaction lasts.               *)
SettledOnce == \A e \in Escrows : paid[e] <= 1

(* Every request that has its escrow to itself keeps the ledger's promise,   *)
(* crashes included: credits leave an escrow once, to the right account, and *)
(* a disputed one keeps them.  Only the settlement of a request that met     *)
(* another one on its escrow may break it.                                   *)
Ledger == INSTANCE EscrowLedger
LedgerKept ==
    /\ Ledger!LedgerInit
    /\ [][(\E h \in raced : Commit(h)) \/ Ledger!LedgerNext]_(Ledger!ledgerVars)
===============================================================================

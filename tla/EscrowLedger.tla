----------------------------- MODULE EscrowLedger -----------------------------
(***************************************************************************)
(* What marketplace escrow promises: credits leave the buyer when an       *)
(* escrow is created and come back out of it exactly once, to the seller   *)
(* (less the platform's commission) or to the buyer; a disputed escrow     *)
(* keeps its credits.                                                      *)
(***************************************************************************)
EXTENDS Integers

CONSTANTS Orgs, Escrows, Buyer, Seller, Amount, Opening

VARIABLES balance, status

ledgerVars == <<balance, status>>

LedgerInit ==
    /\ balance = Opening
    /\ status = [e \in Escrows |-> "none"]

(* ceil(amount * 0.05): lib/db/marketplace.ts COMMISSION_RATE. *)
Commission(e) == (Amount[e] + 19) \div 20

Pay(o, n) == balance' = [balance EXCEPT ![o] = @ + n]

Move(e, from, to) ==
    /\ status[e] = from
    /\ status' = [status EXCEPT ![e] = to]

Open(e) ==
    /\ Amount[e] <= balance[Buyer[e]]
    /\ Move(e, "none", "held")
    /\ Pay(Buyer[e], 0 - Amount[e])

SettleToSeller(e) ==
    /\ Move(e, "held", "released")
    /\ Pay(Seller[e], Amount[e] - Commission(e))

SettleToBuyer(e) ==
    /\ Move(e, "held", "refunded")
    /\ Pay(Buyer[e], Amount[e])

Freeze(e) == Move(e, "held", "disputed") /\ UNCHANGED balance

LedgerNext ==
    \E e \in Escrows : Open(e) \/ SettleToSeller(e) \/ SettleToBuyer(e) \/ Freeze(e)

LedgerSpec == LedgerInit /\ [][LedgerNext]_ledgerVars
===============================================================================

----------------------------- MODULE UserCredit -----------------------------
(***************************************************************************)
(* One user's row of UserCredit (lib/db/credits.ts): a balance in cents    *)
(* that chat turns look at before they start, and that chat turns and life *)
(* runs draw from when they end. No route here looks at it before a run.   *)
(***************************************************************************)
EXTENDS Integers

CONSTANTS
    Opening,          \* the balance before anything is charged
    MaxOverdraft      \* maxOverdraft: how far below zero a charge may go

ASSUME CreditAssumption ==
    /\ Opening \in Int
    /\ MaxOverdraft \in Nat
    /\ Opening >= -MaxOverdraft

VARIABLE balance

(* canSpend with its default minimum.  A read: nothing is set aside.         *)
CanSpend == balance > 0

(* Without the floor.                                                        *)
Unfloored(n) == balance - n

(* GREATEST(credits - amount, -maxOverdraft).                                *)
Deducted(n) ==
    IF balance - n > -MaxOverdraft THEN balance - n ELSE -MaxOverdraft

(* deductCredits: one UPDATE, computed from the row as it is then.           *)
Deduct(n) == balance' = Deducted(n)
=============================================================================

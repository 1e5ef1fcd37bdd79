---------------------------- MODULE Escrow_proofs ----------------------------
(***************************************************************************)
(* Machine-checked facts about escrow, for any organizations, prices and   *)
(* number of concurrent requests; and that a request alone on its escrow   *)
(* implements EscrowLedger, whatever the others do.                        *)
(***************************************************************************)
EXTENDS Escrow, Totals_proofs, TLAPS

(* The commission never exceeds the price, so a net credit is not negative. *)
LEMMA CreditBounds ==
    ASSUME NEW e \in Escrows
    PROVE  Commission(e) \in Nat /\ Amount[e] - Commission(e) \in Nat
<1>1. Amount[e] \in Nat /\ Amount[e] >= 1
  BY AmountAssumption
<1>2. \A a \in Nat : a >= 1 => (a + 19) \div 20 \in Nat /\ a - ((a + 19) \div 20) \in Nat
  OBVIOUS
<1>. QED
  BY <1>1, <1>2 DEF Commission

(* Whoever is credited is an organization, and the credit is a number. *)
LEMMA PayeeFacts ==
    ASSUME TypeOK, NEW h \in Handlers, pc[h] # "idle"
    PROVE  esc[h] \in Escrows /\ Payee(h) \in Orgs /\ Credit(h) \in Nat
<1>1. esc[h] \in Escrows
  BY DEF TypeOK
<1>. QED
  BY <1>1, CreditBounds, PartiesAssumption, AmountAssumption DEF Payee, Credit

-------------------------------------------------------------------------------
LEMMA InitTypeOK == Init => TypeOK
  BY PartiesAssumption, AmountAssumption DEF Init, TypeOK, Ops, Settled

LEMMA NextTypeOK == TypeOK /\ [Next]_vars => TypeOK'
<1>. SUFFICES ASSUME TypeOK, [Next]_vars PROVE TypeOK'
  OBVIOUS
<1>1. ASSUME NEW e \in Escrows, CreateEscrow(e) PROVE TypeOK'
  <2>1. Buyer[e] \in Orgs /\ Amount[e] \in Nat
    BY PartiesAssumption, AmountAssumption
  <2>2. balance' \in [Orgs -> Nat]
    BY <1>1, <2>1 DEF CreateEscrow, Affordable, TypeOK
  <2>. QED
    BY <1>1, <2>2 DEF CreateEscrow, TypeOK
<1>2. ASSUME NEW h \in Handlers, NEW e \in Escrows, NEW o \in Ops, Patch(h, e, o)
      PROVE  TypeOK'
  BY <1>2 DEF Patch, Serving, TypeOK
<1>3. ASSUME NEW h \in Handlers, SelectHeld(h) PROVE TypeOK'
  BY <1>3 DEF SelectHeld, Reply, TypeOK
<1>4. ASSUME NEW h \in Handlers, CreditOrg(h) PROVE TypeOK'
  BY <1>4 DEF CreditOrg, TypeOK
<1>5. ASSUME NEW h \in Handlers, Commit(h) PROVE TypeOK'
  <2>1. Payee(h) \in Orgs /\ Credit(h) \in Nat /\ esc[h] \in Escrows
    BY <1>5, PayeeFacts DEF Commit
  <2>2. balance' \in [Orgs -> Nat] /\ paid' \in [Escrows -> Nat]
    BY <1>5, <2>1 DEF Commit, TypeOK
  <2>3. status' \in [Escrows -> {"none", "held", "disputed"} \union Settled]
    BY <1>5 DEF Commit, TypeOK, Settled
  <2>4. rowLock' \in [Orgs -> Handlers \union {NoHandler}]
    BY <1>5 DEF Commit, TypeOK
  <2>5. /\ pc' \in [Handlers -> {"idle", "checked", "selected", "credited"}]
        /\ op' \in [Handlers -> Ops]
        /\ esc' \in [Handlers -> Escrows \union {NoEscrow}]
        /\ raced' \subseteq Handlers
        /\ \A g \in Handlers : pc'[g] # "idle" => esc'[g] \in Escrows
    BY <1>5 DEF Commit, Reply, TypeOK
  <2>. QED
    BY <2>2, <2>3, <2>4, <2>5 DEF TypeOK
<1>6. ASSUME NEW h \in Handlers, Dispute(h) PROVE TypeOK'
  BY <1>6 DEF Dispute, Reply, TypeOK
<1>7. ASSUME NEW h \in Handlers, Crash(h) PROVE TypeOK'
  BY <1>7 DEF Crash, Reply, TypeOK
<1>8. CASE UNCHANGED vars
  BY <1>8 DEF vars, TypeOK
<1>. QED
  BY <1>1, <1>2, <1>3, <1>4, <1>5, <1>6, <1>7, <1>8 DEF Next

(* lib/db/marketplace.ts: state is well formed and no balance is overdrawn,  *)
(* however purchases, settlements and crashes interleave.                    *)
THEOREM TypeCorrect == Spec => []TypeOK
  BY InitTypeOK, NextTypeOK, PTL DEF Spec

-------------------------------------------------------------------------------
LEMMA NextPaidIffSettled ==
    TypeOK /\ PaidIffSettled /\ [Next]_vars => PaidIffSettled'
<1>. SUFFICES ASSUME TypeOK, PaidIffSettled, [Next]_vars PROVE PaidIffSettled'
  OBVIOUS
<1>1. ASSUME NEW e \in Escrows, CreateEscrow(e) PROVE PaidIffSettled'
  BY <1>1 DEF CreateEscrow, PaidIffSettled, TypeOK, Settled
<1>2. ASSUME NEW h \in Handlers, Commit(h) PROVE PaidIffSettled'
  <2>1. esc[h] \in Escrows
    BY <1>2 DEF Commit, TypeOK
  <2>2. \A e \in Escrows : /\ paid[e] \in Nat
                           /\ paid'[e] = IF e = esc[h] THEN paid[e] + 1 ELSE paid[e]
                           /\ e # esc[h] => status'[e] = status[e]
                           /\ e = esc[h] => status'[e] \in Settled
    BY <1>2, <2>1 DEF Commit, TypeOK, Settled
  <2>. QED
    BY <2>2 DEF PaidIffSettled
<1>3. ASSUME NEW h \in Handlers, Dispute(h) PROVE PaidIffSettled'
  BY <1>3 DEF Dispute, FoundHeld, PaidIffSettled, TypeOK, Settled
<1>4. CASE UNCHANGED <<paid, status>>
  BY <1>4 DEF PaidIffSettled
<1>5. ASSUME NEW h \in Handlers,
             SelectHeld(h) \/ CreditOrg(h) \/ Crash(h)
                \/ \E e \in Escrows, o \in Ops : Patch(h, e, o)
      PROVE  UNCHANGED <<paid, status>>
  BY <1>5 DEF SelectHeld, CreditOrg, Crash, Patch
<1>. QED
  BY <1>1, <1>2, <1>3, <1>4, <1>5 DEF Next, vars

(* disputeEscrow against releaseEscrow and refundEscrow: a row says settled  *)
(* exactly if credits were paid out for it, under any overlap of requests.   *)
THEOREM PaidCorrect == Spec => []PaidIffSettled
<1>1. Init => PaidIffSettled
  BY DEF Init, PaidIffSettled, Settled
<1>. QED
  BY <1>1, InitTypeOK, NextTypeOK, NextPaidIffSettled, PTL DEF Spec

-------------------------------------------------------------------------------
(* Two requests on one escrow have met, and are known to have.               *)
Met ==
    \A g, h \in Handlers :
        (g # h /\ pc[g] # "idle" /\ pc[h] # "idle" /\ esc[g] = esc[h]) => h \in raced

(* Nothing changes the escrow of a request that met no other between the     *)
(* SELECT that found it held and the UPDATE that settles it.                 *)
StillHeld ==
    \A h \in Handlers \ raced : pc[h] \in {"selected", "credited"} => status[esc[h]] = "held"

LedgerInv == TypeOK /\ Met /\ StillHeld

(* A request that ends leaves nobody's escrow but its own changed. *)
LEMMA ReplyKeeps ==
    ASSUME LedgerInv, NEW h \in Handlers, pc[h] # "idle", Reply(h),
           \A e \in Escrows : e # esc[h] => status'[e] = status[e]
    PROVE  Met' /\ StillHeld'
<1>1. /\ raced' = raced \ {h} /\ pc'[h] = "idle"
      /\ \A g \in Handlers : g # h => pc'[g] = pc[g] /\ esc'[g] = esc[g]
  BY DEF Reply, LedgerInv, TypeOK
<1>2. Met'
  BY <1>1 DEF LedgerInv, Met
<1>3. ASSUME NEW g \in Handlers, g \notin raced', pc'[g] \in {"selected", "credited"}
      PROVE  status'[esc'[g]] = "held"
  <2>1. g # h /\ g \notin raced /\ pc[g] = pc'[g] /\ esc'[g] = esc[g] /\ esc[g] \in Escrows
    BY <1>1, <1>3 DEF LedgerInv, TypeOK
  <2>2. status[esc[g]] = "held"
    BY <1>3, <2>1 DEF LedgerInv, StillHeld
  <2>3. esc[g] # esc[h]
    BY <1>3, <2>1 DEF LedgerInv, Met
  <2>. QED
    BY <2>1, <2>2, <2>3
<1>. QED
  BY <1>2, <1>3 DEF StillHeld

LEMMA NextLedgerInv == LedgerInv /\ [Next]_vars => LedgerInv'
<1>. SUFFICES ASSUME LedgerInv, [Next]_vars PROVE Met' /\ StillHeld'
  BY NextTypeOK DEF LedgerInv
<1>0. TypeOK /\ Met /\ StillHeld
  BY DEF LedgerInv
<1>1. ASSUME NEW e \in Escrows, CreateEscrow(e) PROVE Met' /\ StillHeld'
  BY <1>0, <1>1 DEF CreateEscrow, Met, StillHeld, TypeOK
<1>2. ASSUME NEW h \in Handlers, NEW e \in Escrows, NEW o \in Ops, Patch(h, e, o)
      PROVE  Met' /\ StillHeld'
  <2>1. /\ pc'[h] = "checked" /\ esc'[h] = e /\ raced \subseteq raced' /\ status' = status
        /\ \A g \in Handlers : g # h => pc'[g] = pc[g] /\ esc'[g] = esc[g]
        /\ \A g \in Handlers : (g # h /\ pc[g] # "idle" /\ esc[g] = e) => g \in raced' /\ h \in raced'
    BY <1>0, <1>2 DEF Patch, Serving, TypeOK
  <2>2. Met'
    BY <1>0, <2>1 DEF Met
  <2>3. StillHeld'
    BY <1>0, <2>1 DEF StillHeld, TypeOK
  <2>. QED
    BY <2>2, <2>3
<1>3. ASSUME NEW h \in Handlers, SelectHeld(h) PROVE Met' /\ StillHeld'
  <2>1. CASE Reply(h)
    BY <1>3, <2>1, ReplyKeeps DEF SelectHeld
  <2>2. CASE FoundHeld(esc[h]) /\ pc' = [pc EXCEPT ![h] = "selected"] /\ UNCHANGED <<op, esc, raced>>
    BY <1>0, <1>3, <2>2 DEF SelectHeld, FoundHeld, Met, StillHeld, TypeOK
  <2>. QED
    BY <1>3, <2>1, <2>2 DEF SelectHeld
<1>4. ASSUME NEW h \in Handlers, CreditOrg(h) PROVE Met' /\ StillHeld'
  BY <1>0, <1>4 DEF CreditOrg, Met, StillHeld, TypeOK
<1>5. ASSUME NEW h \in Handlers, Commit(h) PROVE Met' /\ StillHeld'
  BY <1>0, <1>5, ReplyKeeps DEF Commit, TypeOK
<1>6. ASSUME NEW h \in Handlers, Dispute(h) PROVE Met' /\ StillHeld'
  BY <1>0, <1>6, ReplyKeeps DEF Dispute, TypeOK
<1>7. ASSUME NEW h \in Handlers, Crash(h) PROVE Met' /\ StillHeld'
  BY <1>0, <1>7, ReplyKeeps DEF Crash
<1>8. CASE UNCHANGED vars
  BY <1>0, <1>8 DEF vars, Met, StillHeld
<1>. QED
  BY <1>1, <1>2, <1>3, <1>4, <1>5, <1>6, <1>7, <1>8 DEF Next

LEMMA StepsOnLedger ==
    ASSUME LedgerInv, [Next]_vars
    PROVE  [(\E h \in raced : Commit(h)) \/ Ledger!LedgerNext]_(Ledger!ledgerVars)
<1>0. TypeOK /\ StillHeld
  BY DEF LedgerInv
<1>. USE DEF Ledger!LedgerNext, Ledger!ledgerVars, Ledger!Move, Ledger!Pay
<1>1. ASSUME NEW e \in Escrows, CreateEscrow(e) PROVE Ledger!Open(e)
  <2>1. \A x \in Orgs : balance[x] \in Nat
    BY <1>0 DEF TypeOK
  <2>2. Amount[e] \in Nat /\ Buyer[e] \in Orgs
    BY AmountAssumption, PartiesAssumption
  <2>3. balance[Buyer[e]] - Amount[e] = balance[Buyer[e]] + (0 - Amount[e])
    BY <2>1, <2>2
  <2>. QED
    BY <1>0, <1>1, <2>1, <2>2, <2>3 DEF CreateEscrow, Affordable, Ledger!Open
<1>2. ASSUME NEW h \in Handlers \ raced, Commit(h)
      PROVE  Ledger!SettleToSeller(esc[h]) \/ Ledger!SettleToBuyer(esc[h])
  <2>1. status[esc[h]] = "held" /\ op[h] \in Ops
    BY <1>0, <1>2 DEF Commit, StillHeld, TypeOK
  <2>. QED
    BY <1>2, <2>1 DEF Commit, Payee, Credit, Commission, Ledger!Commission,
                      Ledger!SettleToSeller, Ledger!SettleToBuyer
<1>3. ASSUME NEW h \in Handlers, Dispute(h)
      PROVE  Ledger!Freeze(esc[h]) \/ UNCHANGED <<balance, status>>
  BY <1>3 DEF Dispute, FoundHeld, Ledger!Freeze
<1>4. ASSUME NEW h \in Handlers,
             SelectHeld(h) \/ CreditOrg(h) \/ Crash(h)
                \/ \E e \in Escrows, o \in Ops : Patch(h, e, o)
      PROVE  UNCHANGED <<balance, status>>
  BY <1>4 DEF SelectHeld, CreditOrg, Crash, Patch
<1>5. ASSUME NEW h \in Handlers, Commit(h) \/ Dispute(h) PROVE esc[h] \in Escrows
  BY <1>0, <1>5 DEF Commit, Dispute, TypeOK
<1>. QED
  BY <1>1, <1>2, <1>3, <1>4, <1>5 DEF Next, vars

(* app/api/marketplace/escrow/route.ts: a PATCH request that has its escrow  *)
(* to itself keeps the ledger's promise, whatever other requests do to other *)
(* escrows and whoever crashes: an escrow pays out at most once, to the      *)
(* right account, and a disputed one keeps its credits.                      *)
THEOREM LedgerCorrect == Spec => LedgerKept
<1>1. Init => Ledger!LedgerInit
  BY DEF Init, Ledger!LedgerInit
<1>2. Init => LedgerInv
  BY InitTypeOK DEF Init, LedgerInv, Met, StillHeld
<1>. QED
  BY <1>1, <1>2, NextLedgerInv, StepsOnLedger, PTL DEF Spec, LedgerKept

-------------------------------------------------------------------------------
(* The credits in accounts, in escrow and kept as commission *)

(* What an escrow holds back is a number, at most its price. *)
LEMMA HoldingBounds ==
    ASSUME NEW e \in Escrows
    PROVE  Holding(e) \in Nat /\ Holding(e) <= Amount[e] /\ Amount[e] \in Nat
<1>1. Amount[e] \in Nat /\ Commission(e) \in Nat /\ Amount[e] - Commission(e) \in Nat
  BY CreditBounds, AmountAssumption
<1>2. Commission(e) <= Amount[e]
  BY <1>1
<1>3. Holding(e) \in {0, Amount[e], Commission(e)}
  BY DEF Holding
<1>. QED
  BY <1>1, <1>2, <1>3

(* A step that moves credits between one account and one escrow changes the  *)
(* credits of the whole market by what it changes there.                     *)
LEMMA CreditsMove ==
    ASSUME TypeOK, TypeOK', NEW o \in Orgs, NEW e \in Escrows,
           \A x \in Orgs \ {o} : balance'[x] = balance[x],
           \A d \in Escrows \ {e} : status'[d] = status[d],
           balance'[o] + Holding(e)' >= balance[o] + Holding(e)
    PROVE  AllCredits' >= AllCredits
<1>. DEFINE held == [d \in Escrows |-> Holding(d)]
<1>1. balance \in [Orgs -> Int] /\ balance' \in [Orgs -> Int]
  BY DEF TypeOK
<1>2. held \in [Escrows -> Int] /\ held' \in [Escrows -> Int]
  <2>1. \A d \in Escrows : Holding(d) \in Int
    BY HoldingBounds
  <2>2. \A d \in Escrows : Holding(d)' \in Int
    BY HoldingBounds, AmountAssumption, CreditBounds DEF Holding, Commission
  <2>. QED
    BY <2>1, <2>2
<1>3. \A d \in Escrows \ {e} : held'[d] = held[d]
  BY DEF Holding, Commission
<1>4. held[e] = Holding(e) /\ held'[e] = Holding(e)'
  OBVIOUS
<1>. HIDE DEF held
<1>5. /\ Total(balance', Orgs) = Total(balance, Orgs) + (balance'[o] - balance[o])
      /\ Total(balance, Orgs) \in Int
  BY <1>1, FinitelyMany, TotalChanges, TotalIsInt
<1>6. /\ Total(held', Escrows) = Total(held, Escrows) + (held'[e] - held[e])
      /\ Total(held, Escrows) \in Int
  BY <1>2, <1>3, FinitelyMany, TotalChanges, TotalIsInt
<1>7. /\ AllCredits = Total(balance, Orgs) + Total(held, Escrows)
      /\ AllCredits' = Total(balance', Orgs) + Total(held', Escrows)
  BY DEF AllCredits, held
<1>8. balance[o] \in Int /\ balance'[o] \in Int /\ held[e] \in Int /\ held'[e] \in Int
  BY <1>1, <1>2
<1>. QED
  BY <1>4, <1>5, <1>6, <1>7, <1>8

(* A step that moves none keeps the sum. *)
LEMMA CreditsStay ==
    ASSUME UNCHANGED balance, \A e \in Escrows : Holding(e)' = Holding(e)
    PROVE  AllCredits' = AllCredits
<1>. DEFINE held == [d \in Escrows |-> Holding(d)]
<1>1. held' = held
  OBVIOUS
<1>2. AllCredits = Total(balance, Orgs) + Total(held, Escrows)
      /\ AllCredits' = Total(balance', Orgs) + Total(held', Escrows)
  BY DEF AllCredits
<1>. HIDE DEF held
<1>. QED
  BY <1>1, <1>2

(* No step loses credits: a purchase and a first settlement move them, and a *)
(* second settlement of the same escrow only adds.                           *)
LEMMA NextCredits ==
    ASSUME TypeOK, [Next]_vars
    PROVE  AllCredits' >= AllCredits
<1>0. TypeOK' /\ AllCredits \in Int
  <2>1. balance \in [Orgs -> Int]
    BY DEF TypeOK
  <2>2. [e \in Escrows |-> Holding(e)] \in [Escrows -> Int]
    BY HoldingBounds
  <2>. QED
    BY <2>1, <2>2, NextTypeOK, FinitelyMany, TotalIsInt DEF AllCredits
<1>1. ASSUME NEW e \in Escrows, CreateEscrow(e) PROVE AllCredits' >= AllCredits
  <2>1. Buyer[e] \in Orgs /\ Amount[e] \in Nat /\ balance[Buyer[e]] \in Nat
    BY PartiesAssumption, AmountAssumption DEF TypeOK
  <2>2. /\ balance'[Buyer[e]] = balance[Buyer[e]] - Amount[e]
        /\ \A x \in Orgs \ {Buyer[e]} : balance'[x] = balance[x]
        /\ \A d \in Escrows \ {e} : status'[d] = status[d]
        /\ Holding(e) = 0 /\ Holding(e)' = Amount[e]
    BY <1>1, <2>1 DEF CreateEscrow, Holding, TypeOK
  <2>3. balance'[Buyer[e]] + Holding(e)' >= balance[Buyer[e]] + Holding(e)
    BY <2>1, <2>2
  <2>. QED
    BY <1>0, <2>1, <2>2, <2>3, CreditsMove
<1>2. ASSUME NEW h \in Handlers, Commit(h) PROVE AllCredits' >= AllCredits
  <2>. DEFINE e == esc[h]
              o == Payee(h)
  <2>1. e \in Escrows /\ o \in Orgs /\ Credit(h) \in Nat
    BY <1>2, PayeeFacts DEF Commit
  <2>2. /\ balance'[o] = balance[o] + Credit(h)
        /\ \A x \in Orgs \ {o} : balance'[x] = balance[x]
        /\ \A d \in Escrows \ {e} : status'[d] = status[d]
        /\ status'[e] = IF op[h] = "release" THEN "released" ELSE "refunded"
    BY <1>2, <2>1 DEF Commit, TypeOK
  <2>3. PICK d \in Escrows : d = e
    BY <2>1
  <2>4. Holding(d)' = IF op[h] = "release" THEN Commission(d) ELSE 0
    BY <2>2, <2>3 DEF Holding, Commission
  <2>5. Credit(h) + Holding(d)' = Amount[d]
    BY <2>3, <2>4, CreditBounds, HoldingBounds DEF Credit
  <2>6. Holding(d) \in Nat /\ Holding(d) <= Amount[d] /\ Amount[d] \in Nat
        /\ Holding(d)' \in Nat /\ balance[o] \in Nat
    BY <2>1, <2>4, HoldingBounds, CreditBounds DEF TypeOK
  <2>7. balance'[o] + Holding(d)' >= balance[o] + Holding(d)
    BY <2>1, <2>2, <2>5, <2>6
  <2>. QED
    BY <1>0, <2>1, <2>2, <2>3, <2>7, CreditsMove
<1>3. ASSUME NEW h \in Handlers, Dispute(h) PROVE AllCredits' >= AllCredits
  <2>1. UNCHANGED balance /\ \A e \in Escrows : Holding(e)' = Holding(e)
    BY <1>3 DEF Dispute, FoundHeld, Holding, Commission, TypeOK
  <2>. QED
    BY <1>0, <2>1, CreditsStay
<1>4. CASE UNCHANGED <<balance, status>>
  <2>1. UNCHANGED balance /\ \A e \in Escrows : Holding(e)' = Holding(e)
    BY <1>4 DEF Holding, Commission
  <2>. QED
    BY <1>0, <2>1, CreditsStay
<1>5. ASSUME NEW h \in Handlers,
             SelectHeld(h) \/ CreditOrg(h) \/ Crash(h)
                \/ \E e \in Escrows, o \in Ops : Patch(h, e, o)
      PROVE  UNCHANGED <<balance, status>>
  BY <1>5 DEF SelectHeld, CreditOrg, Crash, Patch
<1>. QED
  BY <1>1, <1>2, <1>3, <1>4, <1>5 DEF Next, vars

(* releaseEscrow and refundEscrow: whatever requests overlap or crash, for    *)
(* any organizations and prices, no credit that was in the market is lost.   *)
THEOREM CreditsCorrect == Spec => []CreditsNeverLost
<1>1. Init => CreditsNeverLost
  <2>. SUFFICES ASSUME Init PROVE CreditsNeverLost
    OBVIOUS
  <2>1. Total([e \in Escrows |-> Holding(e)], Escrows) = 0
    <3>1. \A e \in Escrows : [d \in Escrows |-> Holding(d)][e] = 0
      BY DEF Init, Holding
    <3>. QED
      BY <3>1, FinitelyMany, TotalOfZeros
  <2>2. AllOpening \in Int /\ AllCredits = AllOpening + 0
    <3>1. Opening \in [Orgs -> Int]
      BY AmountAssumption
    <3>. QED
      BY <2>1, <3>1, FinitelyMany, TotalIsInt DEF Init, AllCredits, AllOpening
  <2>. QED
    BY <2>2 DEF CreditsNeverLost
<1>2. TypeOK /\ CreditsNeverLost /\ [Next]_vars => CreditsNeverLost'
  <2>. SUFFICES ASSUME TypeOK, CreditsNeverLost, [Next]_vars PROVE CreditsNeverLost'
    OBVIOUS
  <2>1. AllOpening \in Int /\ AllCredits \in Int /\ AllCredits' \in Int
    <3>1. /\ balance \in [Orgs -> Int] /\ balance' \in [Orgs -> Int] /\ Opening \in [Orgs -> Int]
      BY NextTypeOK, AmountAssumption DEF TypeOK
    <3>2. [e \in Escrows |-> Holding(e)] \in [Escrows -> Int]
      BY HoldingBounds
    <3>3. [e \in Escrows |-> Holding(e)]' \in [Escrows -> Int]
      BY AmountAssumption, CreditBounds DEF Holding, Commission
    <3>. QED
      BY <3>1, <3>2, <3>3, FinitelyMany, TotalIsInt DEF AllCredits, AllOpening
  <2>2. AllCredits' >= AllCredits /\ AllOpening' = AllOpening
    BY NextCredits DEF AllOpening
  <2>. QED
    BY <2>1, <2>2 DEF CreditsNeverLost
<1>. QED
  BY <1>1, <1>2, InitTypeOK, NextTypeOK, PTL DEF Spec
===============================================================================

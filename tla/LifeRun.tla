------------------------------- MODULE LifeRun ------------------------------
(***************************************************************************)
(* A run of a Life project (lib/life-runtime/canonical.ts): run() creates  *)
(* the run's row, and pumpEnvelopes, a generator, turns the session        *)
(* client's events into envelopes as its consumer pulls them.  When the    *)
(* stream ends it records the outcome and settles the price, inside the    *)
(* try block whose catch records a failure.  A consumer that stops pulling *)
(* ends the generator where it is, and nothing more runs.                  *)
(***************************************************************************)
EXTENDS UserCredit

CONSTANTS
    Runs,         \* runs of the same user
    OnCredits,    \* those whose decision.mode is "credits"
    Price         \* decision.quotedCents

RunConstants == OnCredits \subseteq Runs /\ Price \in Nat \ {0}

VARIABLES
    gen,       \* where each run's generator is
    lifeRow,   \* the LifeRun row: its status and consumerPaidCents
    bad,       \* didError
    debited    \* history: what the run took from the balance

lifeVars == <<gen, lifeRow, bad, debited>>

Places == {"idle", "working", "yielded", "finishing", "debiting", "failing",
           "caught", "recording", "over", "left", "threw", "dead"}

Init ==
    /\ gen = [r \in Runs |-> "idle"]
    /\ lifeRow = [r \in Runs |-> [status |-> "none", paid |-> 0]]
    /\ bad = [r \in Runs |-> FALSE]
    /\ debited = [r \in Runs |-> 0]

Goes(r, from, to) == gen[r] = from /\ gen' = [gen EXCEPT ![r] = to]

(* finishRun writes the whole outcome, the amount paid included.             *)
FinishRun(r, status, paid) ==
    lifeRow' = [lifeRow EXCEPT ![r] = [status |-> status, paid |-> paid]]

-------------------------------------------------------------------------------
(* run(): createRun, then lifed's createSession, which may throw and leave   *)
(* the row as it was created.                                                *)
Begin(r) ==
    /\ \/ Goes(r, "idle", "working")
       \/ Goes(r, "idle", "threw")
    /\ FinishRun(r, "streaming", 0)
    /\ UNCHANGED <<balance, bad, debited>>

(* An envelope is handed over; one made of an error event is remembered.     *)
Deliver(r) ==
    /\ Goes(r, "working", "yielded")
    /\ bad' \in {bad, [bad EXCEPT ![r] = TRUE]}
    /\ UNCHANGED <<balance, lifeRow, debited>>

(* next(): on with the stream, or from catch's envelopes on to onError.      *)
Pull(r) ==
    /\ Goes(r, "yielded", "working") \/ Goes(r, "caught", "recording")
    /\ UNCHANGED <<balance, lifeRow, bad, debited>>

(* return(): the consumer's connection is gone.                              *)
Leave(r) ==
    /\ Goes(r, "yielded", "left") \/ Goes(r, "caught", "left")
    /\ UNCHANGED <<balance, lifeRow, bad, debited>>

StreamEnds(r) ==
    /\ Goes(r, "working", IF bad[r] THEN "failing" ELSE "finishing")
    /\ UNCHANGED <<balance, lifeRow, bad, debited>>

StreamThrows(r) ==
    /\ Goes(r, "working", "caught")
    /\ UNCHANGED <<balance, lifeRow, bad, debited>>

(* onFinish, its first half: the row says succeeded and paid.                *)
Succeed(r) ==
    /\ \/ Goes(r, "finishing", "debiting") /\ FinishRun(r, "succeeded", Price)
       \/ Goes(r, "finishing", "caught") /\ UNCHANGED lifeRow
    /\ UNCHANGED <<balance, bad, debited>>

(* A failure of bumpProjectStats reaches the catch.                          *)
StatsMatter == {"over", "caught"}

(* bumpProjectStats is the last thing onFinish does, and its failure is      *)
(* swallowed.                                                                *)
AfterStats == {"over"}

(* onFinish, its second half: settleCreditsDebit, which may throw.           *)
Settle(r) ==
    /\ \/ /\ \E to \in AfterStats : Goes(r, "debiting", to)
          /\ IF r \in OnCredits
             THEN Deduct(Price) /\ debited' = [debited EXCEPT ![r] = @ + Price]
             ELSE UNCHANGED <<balance, debited>>
       \/ /\ r \in OnCredits
          /\ Goes(r, "debiting", "caught")
          /\ UNCHANGED <<balance, debited>>
    /\ UNCHANGED <<lifeRow, bad>>

(* onError after an error event, inside the try block.                       *)
Fail(r) ==
    /\ \/ Goes(r, "failing", "over") /\ FinishRun(r, "failed", 0)
       \/ Goes(r, "failing", "caught") /\ UNCHANGED lifeRow
    /\ UNCHANGED <<balance, bad, debited>>

(* onError in the catch: what it throws, the consumer gets.                  *)
Record(r) ==
    /\ \/ Goes(r, "recording", "over") /\ FinishRun(r, "failed", 0)
       \/ Goes(r, "recording", "threw") /\ UNCHANGED lifeRow
    /\ UNCHANGED <<balance, bad, debited>>

DieRun(r) ==
    /\ gen[r] \notin {"idle", "over", "left", "threw", "dead"}
    /\ gen' = [gen EXCEPT ![r] = "dead"]
    /\ UNCHANGED <<balance, lifeRow, bad, debited>>

RunStep(r) ==
    \/ Begin(r) \/ Deliver(r) \/ Pull(r) \/ Leave(r)
    \/ StreamEnds(r) \/ StreamThrows(r)
    \/ Succeed(r) \/ Settle(r) \/ Fail(r) \/ Record(r)
    \/ DieRun(r)

Next == \E r \in Runs : RunStep(r)

TypeOK ==
    /\ gen \in [Runs -> Places]
    /\ lifeRow \in [Runs -> [status : {"none", "streaming", "succeeded", "failed"},
                             paid : {0, Price}]]
    /\ bad \in [Runs -> BOOLEAN]
    /\ debited \in [Runs -> {0, Price}]

(* canonical.ts onFinish/onError: the row of a run whose generator went to   *)
(* its end says what became of the money: failed is free, and succeeded on   *)
(* credits was debited.  Whatever became of the generator, a debited run's   *)
(* row says succeeded and the price.                                         *)
RowTellsDebit ==
    \A r \in Runs :
       /\ debited[r] > 0 => lifeRow[r] = [status |-> "succeeded", paid |-> Price]
       /\ gen[r] = "over" /\ r \in OnCredits /\ debited[r] = 0
             => lifeRow[r] = [status |-> "failed", paid |-> 0]
=============================================================================

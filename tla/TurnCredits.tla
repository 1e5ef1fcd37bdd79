---------------------------- MODULE TurnCredits -----------------------------
(***************************************************************************)
(* The chat turns and the life runs of one user, which draw on the same    *)
(* balance and never wait for each other.                                  *)
(***************************************************************************)
EXTENDS ChatTurn, Totals

CONSTANTS
    Runs, OnCredits, Price                                     \* of LifeRun

VARIABLES gen, lifeRow, bad, debited                           \* of LifeRun

Life == INSTANCE LifeRun

ASSUME RunAssumption == Life!RunConstants
ASSUME FinitelyMany == IsFiniteSet(Turns) /\ IsFiniteSet(Runs)

lifeVars == <<gen, lifeRow, bad, debited>>
all == <<balance, chatVars, lifeVars>>

CreditsInit == Init /\ Life!Init

Chat(step) == step /\ UNCHANGED lifeVars
OfLife(step) == step /\ UNCHANGED chatVars

CreditsNext == Chat(Next) \/ OfLife(Life!Next)

(* A response is given, a frame comes or the deadline passes, a throttled    *)
(* check is made, and the end is gone through; nothing is assumed of lifed's *)
(* ending its turn or of the 290 s timer.                                    *)
CreditsFairness ==
    \A t \in Turns :
       /\ WF_all(Chat(Responds(t)))
       /\ WF_all(Chat(Streams(t)))
       /\ WF_all(Chat(Check(t)))
       /\ WF_all(Chat(Finalizes(t)))

CreditsSpec == CreditsInit /\ [][CreditsNext]_all /\ CreditsFairness

-------------------------------------------------------------------------------
(* Properties *)

(* lib/db/credits.ts deductCredits: however the charges of turns and runs    *)
(* interleave, each comes off the balance once, and what they leave is never *)
(* below the overdraft.                                                      *)
CreditsBooked ==
    LET left == Opening - Total(charged, Turns) - Total(debited, Runs)
    IN balance = IF left > -MaxOverdraft THEN left ELSE -MaxOverdraft

(* route.ts finalizeMessageAndCredits: a turn that was charged for stored    *)
(* the whole answer first, and was charged once for the usage reported.      *)
ChargedIsStored ==
    \A t \in Turns :
       charged[t] > 0 =>
          /\ charged[t] = cost[t]
          /\ row[t].status = "settled"
          /\ row[t].parts = shown[t]

(* route.ts onFinish, and onError's "ensure the placeholder assistant        *)
(* message is no longer marked resumable": a stream that is over is not      *)
(* named by its message, unless the answer could not be saved.               *)
EndedNotResumable ==
    \A t \in Turns : pc[t] = "over" /\ ~lost[t] => row[t].status = "settled"

(* [id]/stream/route.ts: a reader whose turn was registered when it asked,   *)
(* lost nothing, and who reached Redis, gets the stream or the whole answer, *)
(* even when the stream ends between its look at the row and its look at     *)
(* Redis. The exception is the empty placeholder, sent as the "finalized     *)
(* message" when onError's hook ran before the answer was saved.             *)
ResumeAnswers ==
    \A r \in Readers :
       LET t == reader[r].turn
       IN ~lost[t] =>
             /\ reader[r].at = "empty" => reader[r].saw \in {"none", "unreached"}
             /\ reader[r].at = "failed" => reader[r].saw = "unreached"
             /\ reader[r].at = "message" =>
                   \/ reader[r].parts = shown[t]
                   \/ hook[t] = "early" /\ reader[r].parts = 0

(* canonical.ts onFinish/onError: see LifeRun.                               *)
RowTellsDebit == Life!RowTellsDebit

(* chat.router.ts stopStream and route.ts onChunk: a turn that is stopped    *)
(* while it runs ends, though lifed would send frames for ever.              *)
CancelStops ==
    \A t \in Turns :
       row[t].canceled /\ pc[t] \in {"placed", "running"}
          ~> pc[t] \notin {"placed", "running"}
=============================================================================

------------------------------ MODULE ChatTurn ------------------------------
(***************************************************************************)
(* A chat turn of a signed-in user (app/(chat)/api/chat/route.ts): POST    *)
(* checks the credits, saves a placeholder of the answer that names its    *)
(* stream, streams lifed's frames through a resumable Redis stream,        *)
(* replaces the placeholder by the answer, and charges for it.  stopStream *)
(* sets a column that the streaming function polls.  A reader who comes    *)
(* back (api/chat/[id]/stream/route.ts) gets the stored answer or the      *)
(* stream, whichever there is.                                             *)
(*                                                                         *)
(* The AI SDK and resumable-stream are seen from here: onFinish is awaited *)
(* before the stream closes, and a closed stream's sentinel says DONE.     *)
(***************************************************************************)
EXTENDS UserCredit

CONSTANTS
    Turns,        \* POSTs of the same user
    Readers,      \* GETs of a stream
    Costs,        \* what lifed's usage may come to, in cents
    MaxFrames     \* frames are counted up to it, and then from 1 again

ASSUME ChatAssumption == Costs \subseteq Nat /\ MaxFrames \in Nat \ {0, 1}

VARIABLES
    pc,        \* where each turn's function is
    asked,     \* the user's message is stored
    row,       \* the assistant message: its activeStreamId, parts, canceledAt
    relay,     \* the stream's sentinel in Redis
    shown,     \* frames written to the stream
    due,       \* a throttled cancel check is waiting
    aborted,   \* abortController.signal.aborted
    hook,      \* onError's after() hook; "early" once run before the save
    cost,      \* costAccumulator's total
    charged,   \* history: what the turn took from the balance
    lost,      \* history: the function died, or failed to save the answer
    reader     \* each GET: its turn, where it is, the sentinel it saw

turnVars == <<pc, asked, row, relay, shown, due, aborted, hook, cost, charged, lost>>
chatVars == <<turnVars, reader>>

Row == [status : {"absent", "active", "settled"}, parts : 0..MaxFrames,
        canceled : BOOLEAN]

Reader == [turn : Turns, at : {"idle", "resuming", "rereading", "message",
                               "stream", "empty", "failed"},
               saw : {"none", "live", "done", "gone", "unreached"},
           parts : 0..MaxFrames]

Hooks == {"none", "waiting", "early", "late"}

Stages == {"idle", "checked", "placed", "running", "finishing", "charging",
           "closing", "over", "refused", "failed", "dead"}

Init ==
    /\ balance = Opening
    /\ pc = [t \in Turns |-> "idle"]
    /\ asked = [t \in Turns |-> FALSE]
    /\ row = [t \in Turns |->
                [status |-> "absent", parts |-> 0, canceled |-> FALSE]]
    /\ relay = [t \in Turns |-> "none"]
    /\ shown = [t \in Turns |-> 0]
    /\ due = [t \in Turns |-> FALSE]
    /\ aborted = [t \in Turns |-> FALSE]
    /\ hook = [t \in Turns |-> "none"]
    /\ cost = [t \in Turns |-> 0]
    /\ charged = [t \in Turns |-> 0]
    /\ lost = [t \in Turns |-> FALSE]
    /\ reader \in [Readers -> {[turn |-> t, at |-> "idle", saw |-> "none",
                                parts |-> 0] : t \in Turns}]

Move(t, from, to) == pc[t] = from /\ pc' = [pc EXCEPT ![t] = to]

-------------------------------------------------------------------------------
(* POST *)

(* A gate before the user's message is stored: model, plan, rate limit.      *)
TurnedAway(t) ==
    /\ Move(t, "idle", "refused")
    /\ UNCHANGED <<balance, asked, row, relay, shown, due, aborted, hook,
                   cost, charged, lost, reader>>

(* handleUserValidationAndCredits: the message is stored, then canSpend.     *)
Post(t) ==
    /\ Move(t, "idle", IF CanSpend THEN "checked" ELSE "refused")
    /\ asked' = [asked EXCEPT ![t] = TRUE]
    /\ UNCHANGED <<balance, row, relay, shown, due, aborted, hook, cost,
                   charged, lost, reader>>

(* A gate after it, or the placeholder cannot be saved.                      *)
Declined(t) ==
    /\ Move(t, "checked", "refused")
    /\ UNCHANGED <<balance, asked, row, relay, shown, due, aborted, hook,
                   cost, charged, lost, reader>>

(* executeChatRequest saves the placeholder.                                 *)
Placeholder(t) ==
    /\ Move(t, "checked", "placed")
    /\ row' = [row EXCEPT ![t].status = "active"]
    /\ UNCHANGED <<balance, asked, relay, shown, due, aborted, hook, cost,
                   charged, lost, reader>>

(* resumableStream.  What lifed sent before it is still in the stream.       *)
Register(t) ==
    /\ Move(t, "placed", "running")
    /\ relay' = [relay EXCEPT ![t] = "live"]
    /\ UNCHANGED <<balance, asked, row, shown, due, aborted, hook, cost,
                   charged, lost, reader>>

(* The stream context is null, after a connection to Redis that failed: the  *)
(* response is the stream itself, and no one else can read it.               *)
Unregistered(t) ==
    /\ Move(t, "placed", "running")
    /\ UNCHANGED <<balance, asked, row, relay, shown, due, aborted, hook,
                   cost, charged, lost, reader>>

Responds(t) == Register(t) \/ Unregistered(t)

(* Redis throws on the way to it: POST answers 500, and no one reads the     *)
(* stream, so its onFinish never runs.                                       *)
RegisterFails(t) ==
    /\ Move(t, "placed", "failed")
    /\ lost' = [lost EXCEPT ![t] = TRUE]
    /\ UNCHANGED <<balance, asked, row, relay, shown, due, aborted, hook,
                   cost, charged, reader>>

-------------------------------------------------------------------------------
(* The stream *)

(* Only the first frame would start a check: a throttle without a trailing   *)
(* call.                                                                     *)
LeadingCheck(t) == shown[t] = 0

(* wrapWithProgress: a frame starts the throttled check, or leaves one       *)
(* waiting for the second to be over.                                        *)
CheckAfter(t) == TRUE

Frame(t) ==
    /\ pc[t] = "running"
    /\ ~aborted[t]
    /\ shown' = [shown EXCEPT ![t] = (@ % MaxFrames) + 1]
    /\ due' = [due EXCEPT ![t] = CheckAfter(t)]
    /\ UNCHANGED <<balance, pc, asked, row, relay, aborted, hook, cost,
                   charged, lost, reader>>

Check(t) ==
    /\ pc[t] = "running"
    /\ due[t]
    /\ due' = [due EXCEPT ![t] = FALSE]
    /\ aborted' = [aborted EXCEPT ![t] = @ \/ row[t].canceled]
    /\ UNCHANGED <<balance, pc, asked, row, relay, shown, hook, cost,
                   charged, lost, reader>>

(* The 290 s timer.                                                          *)
TimeUp(t) ==
    /\ pc[t] = "running"
    /\ aborted' = [aborted EXCEPT ![t] = TRUE]
    /\ UNCHANGED <<balance, pc, asked, row, relay, shown, due, hook, cost,
                   charged, lost, reader>>

(* lifed's finish event, with the usage it reports.                          *)
LifedEnds(t) ==
    /\ ~aborted[t]
    /\ Move(t, "running", "finishing")
    /\ \E c \in Costs : cost' = [cost EXCEPT ![t] = c]
    /\ UNCHANGED <<balance, asked, row, relay, shown, due, aborted, hook,
                   charged, lost, reader>>

(* The stream ends with an error chunk, and no usage is accounted.           *)
EndsUnmetered(t) ==
    /\ Move(t, "running", "finishing")
    /\ UNCHANGED <<balance, asked, row, relay, shown, due, aborted, hook,
                   cost, charged, lost, reader>>

(* dispatchViaLifegw throws.                                                 *)
DispatchFails(t) == shown[t] = 0 /\ EndsUnmetered(t)

(* The session client meets the abort when it takes its next frame.          *)
MeetsAbort(t) == aborted[t] /\ EndsUnmetered(t)

(* wrapWithFrameDeadline gives up on a lifed that is silent, aborted or not. *)
Deadline(t) == EndsUnmetered(t)

(* The iterator or the translator throws: onError leaves an after() hook.    *)
Throws(t) ==
    /\ Move(t, "running", "finishing")
    /\ hook' = [hook EXCEPT ![t] = "waiting"]
    /\ UNCHANGED <<balance, asked, row, relay, shown, due, aborted, cost,
                   charged, lost, reader>>

(* The one reader of an unregistered stream goes: the AI SDK calls onFinish  *)
(* with what was shown, or no one does.                                      *)
ReaderLeaves(t) ==
    /\ relay[t] = "none"
    /\ \/ EndsUnmetered(t)
       \/ /\ Move(t, "running", "failed")
          /\ lost' = [lost EXCEPT ![t] = TRUE]
          /\ UNCHANGED <<balance, asked, row, relay, shown, due, aborted,
                         hook, cost, charged, reader>>

-------------------------------------------------------------------------------
(* finalizeMessageAndCredits, and the end *)

(* The parts are replaced and the stream's name forgotten.                   *)
StillNamed(r, n) == [r EXCEPT !.parts = n]

(* updateMessage with what stitchAssistantMessage made of the row.           *)
Stitched(r, n) == [r EXCEPT !.status = "settled", !.parts = n]

Finish(t) ==
    /\ Move(t, "finishing", "charging")
    /\ row' = [row EXCEPT ![t] = Stitched(@, shown[t])]
    /\ UNCHANGED <<balance, asked, relay, shown, due, aborted, hook, cost,
                   charged, lost, reader>>

(* The save has a try block of its own.                                      *)
GoesOnToCharge == "charging"

(* One try block: if the answer is not saved, nothing is charged.            *)
AfterFailedSave == "closing"

FinishFails(t) ==
    /\ Move(t, "finishing", AfterFailedSave)
    /\ lost' = [lost EXCEPT ![t] = TRUE]
    /\ UNCHANGED <<balance, asked, row, relay, shown, due, aborted, hook,
                   cost, charged, reader>>

Charge(t) ==
    /\ Move(t, "charging", "closing")
    /\ Deduct(cost[t])
    /\ charged' = [charged EXCEPT ![t] = @ + cost[t]]
    /\ UNCHANGED <<asked, row, relay, shown, due, aborted, hook, cost, lost,
                   reader>>

ChargeFails(t) ==
    /\ Move(t, "charging", "closing")
    /\ UNCHANGED <<balance, asked, row, relay, shown, due, aborted, hook,
                   cost, charged, lost, reader>>

Close(t) ==
    /\ Move(t, "closing", "over")
    /\ relay' = [relay EXCEPT ![t] = IF @ = "live" THEN "done" ELSE @]
    /\ UNCHANGED <<balance, asked, row, shown, due, aborted, hook, cost,
                   charged, lost, reader>>

(* onError's hook: updateMessageActiveStreamId, its failure caught. after()  *)
(* waits for the response to be closed, which a reader that leaves does      *)
(* before the answer is saved.                                               *)
Clear(t) ==
    /\ hook[t] = "waiting"
    /\ pc[t] # "dead"
    /\ hook' = [hook EXCEPT ![t] = IF pc[t] = "finishing" THEN "early" ELSE "late"]
    /\ \/ row' = [row EXCEPT ![t].status = "settled"]
       \/ UNCHANGED row
    /\ UNCHANGED <<balance, pc, asked, relay, shown, due, aborted, cost,
                   charged, lost, reader>>

(* The function is killed.                                                   *)
Die(t) ==
    /\ pc[t] \in {"checked", "placed", "running", "finishing", "charging",
                  "closing"}
    /\ pc' = [pc EXCEPT ![t] = "dead"]
    /\ lost' = [lost EXCEPT ![t] = TRUE]
    /\ UNCHANGED <<balance, asked, row, relay, shown, due, aborted, hook,
                   cost, charged, reader>>

(* The sentinel of a dead function's stream expires.                         *)
Expire(t) ==
    /\ pc[t] = "dead"
    /\ relay[t] = "live"
    /\ relay' = [relay EXCEPT ![t] = "gone"]
    /\ UNCHANGED <<balance, pc, asked, row, shown, due, aborted, hook, cost,
                   charged, lost, reader>>

(* stopStream.                                                               *)
Stop(t) ==
    /\ row[t].status # "absent"
    /\ row' = [row EXCEPT ![t].canceled = TRUE]
    /\ UNCHANGED <<balance, pc, asked, relay, shown, due, aborted, hook,
                   cost, charged, lost, reader>>

-------------------------------------------------------------------------------
(* GET api/chat/[id]/stream *)

Reply(r, to, n) ==
    reader' = [reader EXCEPT ![r] = [@ EXCEPT !.at = to, !.parts = n]]

(* The first look at the row; a row that is not there is 404.                *)
ReadRow(r) ==
    LET m == row[reader[r].turn]
    IN /\ reader[r].at = "idle"
       /\ \/ m.status = "settled" /\ Reply(r, "message", m.parts)
          \/ m.status = "active" /\ Reply(r, "resuming", 0)
       /\ UNCHANGED <<balance, turnVars>>

(* Without the second look.                                                  *)
Unrefreshed == "empty"

(* resumeExistingStream: null unless the sentinel says live; a live sentinel *)
(* without its producer is not answered.                                     *)
AfterNoStream == "rereading"

Resume(r) ==
    LET t == reader[r].turn
        to == CASE relay[t] # "live" -> AfterNoStream
                [] pc[t] = "dead"    -> "failed"
                [] OTHER             -> "stream"
    IN /\ reader[r].at = "resuming"
       /\ reader' = [reader EXCEPT ![r] = [@ EXCEPT !.at = to, !.saw = relay[t]]]
       /\ UNCHANGED <<balance, turnVars>>

(* The reader's own request does not reach Redis: its stream context is      *)
(* null, and it is answered nothing, or Redis throws.                        *)
ResumeUnreached(r) ==
    /\ reader[r].at = "resuming"
    /\ \E to \in {"empty", "failed"} :
          reader' = [reader EXCEPT ![r] = [@ EXCEPT !.at = to, !.saw = "unreached"]]
    /\ UNCHANGED <<balance, turnVars>>

(* The second look, for a stream that ended between the two.                 *)
Reread(r) ==
    LET m == row[reader[r].turn]
    IN /\ reader[r].at = "rereading"
       /\ IF m.status = "settled" THEN Reply(r, "message", m.parts)
          ELSE Reply(r, "empty", 0)
       /\ UNCHANGED <<balance, turnVars>>

-------------------------------------------------------------------------------
(* What the deadline bounds: a frame comes, or the stream ends.              *)
Streams(t) ==
    \/ Frame(t) \/ LifedEnds(t) \/ DispatchFails(t) \/ MeetsAbort(t)
    \/ Deadline(t) \/ Throws(t) \/ ReaderLeaves(t)

Finalizes(t) ==
    Finish(t) \/ FinishFails(t) \/ Charge(t) \/ ChargeFails(t) \/ Close(t)

TurnStep(t) ==
    \/ TurnedAway(t) \/ Post(t) \/ Declined(t) \/ Placeholder(t)
    \/ Responds(t) \/ RegisterFails(t)
    \/ Streams(t) \/ Check(t) \/ TimeUp(t)
    \/ Finalizes(t) \/ Clear(t)
    \/ Die(t) \/ Expire(t) \/ Stop(t)

ReaderStep(r) == ReadRow(r) \/ Resume(r) \/ ResumeUnreached(r) \/ Reread(r)

Next == (\E t \in Turns : TurnStep(t)) \/ (\E r \in Readers : ReaderStep(r))

TypeOK ==
    /\ pc \in [Turns -> Stages]
    /\ asked \in [Turns -> BOOLEAN]
    /\ row \in [Turns -> Row]
    /\ relay \in [Turns -> {"none", "live", "done", "gone"}]
    /\ shown \in [Turns -> 0..MaxFrames]
    /\ due \in [Turns -> BOOLEAN]
    /\ aborted \in [Turns -> BOOLEAN]
    /\ hook \in [Turns -> Hooks]
    /\ cost \in [Turns -> Costs \cup {0}]
    /\ charged \in [Turns -> Nat]
    /\ lost \in [Turns -> BOOLEAN]
    /\ reader \in [Readers -> Reader]
=============================================================================

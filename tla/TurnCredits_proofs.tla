------------------------- MODULE TurnCredits_proofs -------------------------
(***************************************************************************)
(* What the rows of a user's chat turns and life runs say of the money,    *)
(* and what a reader is answered, for any number of turns, readers and     *)
(* runs.                                                                   *)
(***************************************************************************)
EXTENDS TurnCredits, Totals_proofs, TLAPS

CreditsTypeOK == balance \in Int /\ TypeOK /\ Life!TypeOK

(* A row is settled by the save of the whole answer, or with nothing in it   *)
(* by the hook of a turn that is about to save it or has lost it; after      *)
(* either the stream is silent.                                              *)
TurnInv(t) ==
    /\ pc[t] \in {"failed", "dead"} => lost[t]
    /\ lost[t] => pc[t] \in {"failed", "dead", "closing", "over"}
    /\ pc[t] = "charging" => row[t].status = "settled" /\ row[t].parts = shown[t]
    /\ pc[t] \in {"closing", "over"} /\ ~lost[t] => row[t].status = "settled"
    /\ row[t].status = "settled" /\ ~lost[t] =>
          \/ pc[t] \in {"charging", "closing", "over"} /\ row[t].parts = shown[t]
          \/ pc[t] = "finishing" /\ hook[t] = "early"
    /\ pc[t] \in {"idle", "checked", "placed", "running", "finishing"} =>
          row[t].parts = 0
    /\ hook[t] # "none" =>
          pc[t] \in {"finishing", "charging", "closing", "over", "dead"}
    /\ charged[t] > 0 =>
          /\ pc[t] \in {"closing", "over", "dead"}
          /\ charged[t] = cost[t]
          /\ row[t].status = "settled"
          /\ row[t].parts = shown[t]
    /\ relay[t] = "done" => pc[t] = "over"
    /\ relay[t] = "gone" => lost[t]

(* A reader that found the sentinel done looks again at a turn that is over. *)
ReaderInv(r) ==
    LET t == reader[r].turn
    IN /\ ~lost[t] /\ reader[r].at = "rereading" /\ reader[r].saw # "none"
             => pc[t] = "over"
       /\ ~lost[t] /\ reader[r].at = "empty" =>
             reader[r].saw \in {"none", "unreached"}
       /\ ~lost[t] /\ reader[r].at = "message" =>
             /\ row[t].status = "settled"
             /\ \/ reader[r].parts = shown[t]
                \/ hook[t] = "early" /\ reader[r].parts = 0
       /\ reader[r].at = "failed" => lost[t] \/ reader[r].saw = "unreached"

(* The row says succeeded before the debit is tried, and the generator that  *)
(* debited is at its end.                                                    *)
RunInv(r) ==
    /\ gen[r] = "debiting" =>
          lifeRow[r] = [status |-> "succeeded", paid |-> Price]
    /\ debited[r] > 0 =>
          gen[r] = "over" /\ lifeRow[r] = [status |-> "succeeded", paid |-> Price]
    /\ gen[r] = "over" /\ r \in OnCredits /\ debited[r] = 0 =>
          lifeRow[r] = [status |-> "failed", paid |-> 0]

CreditsInv ==
    /\ CreditsTypeOK
    /\ \A t \in Turns : TurnInv(t)
    /\ \A r \in Readers : ReaderInv(r)
    /\ \A r \in Runs : RunInv(r)

USE DEF Stages, Hooks, Move, Life!Goes, Life!FinishRun, Life!Places

(* Before anything is posted.                                                *)
LEMMA CreditsInitially ==
    ASSUME CreditAssumption, ChatAssumption, RunAssumption, CreditsInit
    PROVE  CreditsInv
<1> USE DEF CreditAssumption, ChatAssumption, RunAssumption,
            Life!RunConstants, CreditsInit
<1>1. balance \in Int /\ Life!TypeOK
  BY DEF Init, Life!Init, Life!TypeOK
<1>2. row \in [Turns -> Row]
  BY DEF Init, Row
<1>7. reader \in [Readers -> Reader]
  BY DEF Init, Reader
<1>3. TypeOK
  BY <1>2, <1>7 DEF Init, TypeOK
<1>4. \A t \in Turns : TurnInv(t)
  BY DEF Init, TurnInv
<1>5. \A r \in Readers : ReaderInv(r)
  BY DEF Init, ReaderInv
<1>6. \A r \in Runs : RunInv(r)
  BY DEF Life!Init, RunInv
<1> QED BY <1>1, <1>3, <1>4, <1>5, <1>6 DEF CreditsInv, CreditsTypeOK

(* What the queries make of a row is a row.                                  *)
LEMMA RowEdits ==
    ASSUME NEW m \in Row, NEW n \in 0..MaxFrames
    PROVE  /\ [m EXCEPT !.status = "active"] \in Row
           /\ [m EXCEPT !.status = "settled"] \in Row
           /\ [m EXCEPT !.canceled = TRUE] \in Row
           /\ [m EXCEPT !.status = "settled", !.parts = n] \in Row
BY DEF Row

(* What a turn may come to is a natural number.                              *)
LEMMA CostIsNat ==
    ASSUME ChatAssumption, NEW c \in Costs \cup {0}
    PROVE  c \in Nat
BY DEF ChatAssumption

(* A turn's own steps keep the types.                                        *)
LEMMA TurnTypes ==
    ASSUME CreditAssumption, ChatAssumption, balance \in Int, TypeOK,
           NEW s \in Turns, TurnStep(s)
    PROVE  (balance \in Int)' /\ TypeOK'
<1> USE DEF TypeOK
<1> DEFINE m == row[s]
<1>row. /\ [m EXCEPT !.status = "active"] \in Row
        /\ [m EXCEPT !.status = "settled"] \in Row
        /\ [m EXCEPT !.canceled = TRUE] \in Row
        /\ [m EXCEPT !.status = "settled", !.parts = shown[s]] \in Row
  <2>1. m \in Row /\ shown[s] \in 0..MaxFrames
    OBVIOUS
  <2> HIDE DEF m, TypeOK
  <2> QED BY <2>1, RowEdits
<1>1. CASE TurnedAway(s)
  BY <1>1 DEF TurnedAway
<1>2. CASE Post(s)
  BY <1>2 DEF Post
<1>3. CASE Declined(s)
  BY <1>3 DEF Declined
<1>4. CASE Placeholder(s)
  <2>1. row' \in [Turns -> Row]
    BY <1>4, <1>row DEF Placeholder
  <2> QED BY <1>4, <2>1 DEF Placeholder
<1>5. CASE Register(s)
  BY <1>5 DEF Register
<1>22. CASE Unregistered(s)
  BY <1>22 DEF Unregistered
<1>23. CASE ReaderLeaves(s)
  BY <1>23 DEF ReaderLeaves, EndsUnmetered
<1>6. CASE RegisterFails(s)
  BY <1>6 DEF RegisterFails
<1>7. CASE Frame(s)
  <2>1. (shown[s] % MaxFrames) + 1 \in 0..MaxFrames
    BY DEF ChatAssumption
  <2> QED BY <1>7, <2>1 DEF Frame, CheckAfter
<1>8. CASE Check(s)
  BY <1>8 DEF Check
<1>9. CASE TimeUp(s)
  BY <1>9 DEF TimeUp
<1>10. CASE LifedEnds(s)
  BY <1>10 DEF LifedEnds
<1>11. CASE EndsUnmetered(s)
  BY <1>11 DEF EndsUnmetered
<1>12. CASE Throws(s)
  BY <1>12 DEF Throws
<1>13. CASE Finish(s)
  <2>1. row' \in [Turns -> Row]
    BY <1>13, <1>row DEF Finish, Stitched
  <2> QED BY <1>13, <2>1 DEF Finish
<1>14. CASE FinishFails(s)
  BY <1>14 DEF FinishFails, AfterFailedSave
<1>15. CASE Charge(s)
  <2>0. cost[s] \in Costs \cup {0} /\ charged[s] \in Nat
    BY Zenon
  <2>1. cost[s] \in Nat
    BY <2>0, CostIsNat
  <2>3. charged[s] + cost[s] \in Nat
    BY <2>0, <2>1
  <2>2. balance' \in Int
    BY <1>15, <2>1 DEF Charge, Deduct, Deducted, CreditAssumption
  <2> QED BY <1>15, <2>3, <2>2 DEF Charge
<1>16. CASE ChargeFails(s)
  BY <1>16 DEF ChargeFails
<1>17. CASE Close(s)
  BY <1>17 DEF Close
<1>18. CASE Die(s)
  BY <1>18 DEF Die
<1>19. CASE Expire(s)
  BY <1>19 DEF Expire
<1>20. CASE Clear(s)
  <2>1. row' \in [Turns -> Row]
    BY <1>20, <1>row DEF Clear
  <2> QED BY <1>20, <2>1 DEF Clear
<1>21. CASE Stop(s)
  <2>1. row' \in [Turns -> Row]
    BY <1>21, <1>row DEF Stop
  <2> QED BY <1>21, <2>1 DEF Stop
<1> QED
  BY <1>1, <1>2, <1>3, <1>4, <1>5, <1>6, <1>7, <1>8, <1>9, <1>10, <1>11,
     <1>12, <1>13, <1>14, <1>15, <1>16, <1>17, <1>18, <1>19, <1>20, <1>21,
     <1>22, <1>23
  DEF TurnStep, Responds, Streams, Finalizes, DispatchFails, MeetsAbort, Deadline

(* A turn's own steps keep what its row says, and no step of one turn        *)
(* touches another's.                                                        *)
LEMMA TurnInvKept ==
    ASSUME ChatAssumption, TypeOK,
           NEW s \in Turns, NEW t \in Turns, TurnInv(t), TurnStep(s)
    PROVE  TurnInv(t)'
<1> USE DEF TypeOK, TurnInv, Row
<1>1. CASE TurnedAway(s)
  BY <1>1 DEF TurnedAway
<1>2. CASE Post(s)
  BY <1>2 DEF Post
<1>3. CASE Declined(s)
  BY <1>3 DEF Declined
<1>4. CASE Placeholder(s)
  BY <1>4 DEF Placeholder
<1>5. CASE Register(s)
  BY <1>5 DEF Register
<1>22. CASE Unregistered(s)
  BY <1>22 DEF Unregistered
<1>23. CASE ReaderLeaves(s)
  BY <1>23 DEF ReaderLeaves, EndsUnmetered
<1>6. CASE RegisterFails(s)
  BY <1>6 DEF RegisterFails
<1>7. CASE Frame(s)
  BY <1>7 DEF Frame, CheckAfter
<1>8. CASE Check(s)
  BY <1>8 DEF Check
<1>9. CASE TimeUp(s)
  BY <1>9 DEF TimeUp
<1>10. CASE LifedEnds(s)
  BY <1>10 DEF LifedEnds
<1>11. CASE EndsUnmetered(s)
  BY <1>11 DEF EndsUnmetered
<1>12. CASE Throws(s)
  BY <1>12 DEF Throws
<1>13. CASE Finish(s)
  BY <1>13 DEF Finish, Stitched
<1>14. CASE FinishFails(s)
  BY <1>14 DEF FinishFails, AfterFailedSave
<1>15. CASE Charge(s)
  <2>1. CASE t = s
    <3>1. pc[t] = "charging" /\ charged[t] \in Nat
      BY <1>15, <2>1 DEF Charge
    <3>2. charged[t] = 0 /\ ~lost[t] /\ row[t].status = "settled"
      BY <3>1
    <3>3. charged'[t] = charged[t] + cost[t] /\ cost[t] \in Costs \cup {0}
      BY <1>15, <2>1 DEF Charge
    <3>5. cost[t] \in Nat
      BY <3>3, CostIsNat
    <3>4. charged'[t] = cost[t]
      BY <3>2, <3>3, <3>5
    <3> QED BY <1>15, <2>1, <3>1, <3>2, <3>4 DEF Charge
  <2>2. CASE t # s
    BY <1>15, <2>2 DEF Charge
  <2> QED BY <2>1, <2>2
<1>16. CASE ChargeFails(s)
  BY <1>16 DEF ChargeFails
<1>17. CASE Close(s)
  BY <1>17 DEF Close
<1>18. CASE Clear(s)
  BY <1>18 DEF Clear
<1>19. CASE Die(s)
  BY <1>19 DEF Die
<1>20. CASE Expire(s)
  BY <1>20 DEF Expire
<1>21. CASE Stop(s)
  BY <1>21 DEF Stop
<1> QED
  BY <1>1, <1>2, <1>3, <1>4, <1>5, <1>6, <1>7, <1>8, <1>9, <1>10, <1>11,
     <1>12, <1>13, <1>14, <1>15, <1>16, <1>17, <1>18, <1>19, <1>20, <1>21,
     <1>22, <1>23
  DEF TurnStep, Responds, Streams, Finalizes, DispatchFails, MeetsAbort, Deadline

(* A loss is for good; what is not lost stays over, and stored as shown.     *)
LEMMA TurnSettles ==
    ASSUME TypeOK, NEW s \in Turns, NEW t \in Turns, TurnInv(t), TurnStep(s)
    PROVE  /\ reader' = reader
           /\ lost[t] => lost'[t]
           /\ ~lost'[t] /\ pc[t] = "over" => pc'[t] = "over"
           /\ ~lost'[t] /\ row[t].status = "settled" =>
                 row'[t].status = "settled" /\ shown'[t] = shown[t]
           /\ hook[t] = "early" => hook'[t] = "early"
<1> USE DEF TypeOK, TurnInv, Row
<1>1. CASE TurnedAway(s)
  BY <1>1 DEF TurnedAway
<1>2. CASE Post(s)
  BY <1>2 DEF Post
<1>3. CASE Declined(s)
  BY <1>3 DEF Declined
<1>4. CASE Placeholder(s)
  BY <1>4 DEF Placeholder
<1>5. CASE Register(s)
  BY <1>5 DEF Register
<1>22. CASE Unregistered(s)
  BY <1>22 DEF Unregistered
<1>23. CASE ReaderLeaves(s)
  BY <1>23 DEF ReaderLeaves, EndsUnmetered
<1>6. CASE RegisterFails(s)
  BY <1>6 DEF RegisterFails
<1>7. CASE Frame(s)
  BY <1>7 DEF Frame
<1>8. CASE Check(s)
  BY <1>8 DEF Check
<1>9. CASE TimeUp(s)
  BY <1>9 DEF TimeUp
<1>10. CASE LifedEnds(s)
  BY <1>10 DEF LifedEnds
<1>11. CASE EndsUnmetered(s)
  BY <1>11 DEF EndsUnmetered
<1>12. CASE Throws(s)
  BY <1>12 DEF Throws
<1>13. CASE Finish(s)
  BY <1>13 DEF Finish, Stitched
<1>14. CASE FinishFails(s)
  BY <1>14 DEF FinishFails
<1>15. CASE Charge(s)
  BY <1>15 DEF Charge
<1>16. CASE ChargeFails(s)
  BY <1>16 DEF ChargeFails
<1>17. CASE Close(s)
  BY <1>17 DEF Close
<1>18. CASE Clear(s)
  BY <1>18 DEF Clear
<1>19. CASE Die(s)
  BY <1>19 DEF Die
<1>20. CASE Expire(s)
  BY <1>20 DEF Expire
<1>21. CASE Stop(s)
  BY <1>21 DEF Stop
<1> QED
  BY <1>1, <1>2, <1>3, <1>4, <1>5, <1>6, <1>7, <1>8, <1>9, <1>10, <1>11,
     <1>12, <1>13, <1>14, <1>15, <1>16, <1>17, <1>18, <1>19, <1>20, <1>21,
     <1>22, <1>23
  DEF TurnStep, Responds, Streams, Finalizes, DispatchFails, MeetsAbort, Deadline

(* A turn's step keeps the whole invariant.                                  *)
LEMMA TurnKeeps ==
    ASSUME CreditAssumption, ChatAssumption, RunAssumption, CreditsInv,
           NEW s \in Turns, TurnStep(s), UNCHANGED lifeVars
    PROVE  CreditsInv'
<1> USE DEF CreditsInv, CreditsTypeOK
<1>types. (balance \in Int)' /\ TypeOK'
  BY TurnTypes
<1>turns. ASSUME NEW t \in Turns PROVE TurnInv(t)'
  BY TurnInvKept
<1>readers. ASSUME NEW r \in Readers PROVE ReaderInv(r)'
  <2> DEFINE t == reader[r].turn
  <2>0. t \in Turns /\ ReaderInv(r)
    BY DEF TypeOK, Reader
  <2>1. /\ reader' = reader
        /\ lost[t] => lost'[t]
        /\ ~lost'[t] /\ pc[t] = "over" => pc'[t] = "over"
        /\ ~lost'[t] /\ row[t].status = "settled" =>
              row'[t].status = "settled" /\ shown'[t] = shown[t]
        /\ hook[t] = "early" => hook'[t] = "early"
    BY <2>0, TurnSettles
  <2> QED BY <2>0, <2>1 DEF ReaderInv
<1>life. Life!TypeOK' /\ \A r \in Runs : RunInv(r)'
  BY DEF lifeVars, Life!TypeOK, RunInv
<1> QED BY <1>types, <1>turns, <1>readers, <1>life

(* What a reader is answered follows from what it saw.                       *)
LEMMA ReaderInvKept ==
    ASSUME NEW q \in Readers, reader \in [Readers -> Reader],
           TurnInv(reader[q].turn), ReaderInv(q), ReaderStep(q),
           relay[reader[q].turn] \in {"none", "live", "done", "gone"}
    PROVE  ReaderInv(q)'
<1> DEFINE m == reader[q]
           t == m.turn
<1>0. /\ m \in Reader
      /\ UNCHANGED <<pc, row, relay, shown, lost, hook>>
  BY DEF ReaderStep, ReadRow, Resume, ResumeUnreached, Reread, turnVars
<1>1. CASE ReadRow(q)
  <2>1. /\ reader'[q].turn = t
        /\ \/ reader'[q].at = "message" /\ row[t].status = "settled"
              /\ reader'[q].parts = row[t].parts
           \/ reader'[q].at = "resuming"
    BY <1>0, <1>1 DEF ReadRow, Reply, Reader
  <2> QED BY <1>0, <2>1 DEF ReaderInv, TurnInv
<1>2. CASE Resume(q)
  <2>1. /\ reader'[q].turn = t
        /\ reader'[q].saw = relay[t]
        /\ \/ reader'[q].at = "rereading" /\ relay[t] # "live"
           \/ reader'[q].at = "failed" /\ pc[t] = "dead"
           \/ reader'[q].at = "stream"
    BY <1>0, <1>2 DEF Resume, AfterNoStream, Reader
  <2> QED BY <1>0, <2>1 DEF ReaderInv, TurnInv
<1>3. CASE Reread(q)
  <2>1. /\ m.at = "rereading"
        /\ reader'[q].turn = t
        /\ reader'[q].saw = m.saw
        /\ \/ reader'[q].at = "message" /\ row[t].status = "settled"
              /\ reader'[q].parts = row[t].parts
           \/ reader'[q].at = "empty" /\ row[t].status # "settled"
    <3>1. CASE row[t].status = "settled"
      BY <1>0, <1>3, <3>1 DEF Reread, Reply, Reader
    <3>2. CASE row[t].status # "settled"
      <4>1. /\ m.at = "rereading"
            /\ reader' = [reader EXCEPT ![q] = [m EXCEPT !.at = "empty", !.parts = 0]]
        BY <1>3, <3>2 DEF Reread, Reply
      <4> QED BY <1>0, <3>2, <4>1 DEF Reader
    <3> QED BY <3>1, <3>2
  <2> QED BY <1>0, <2>1 DEF ReaderInv, TurnInv
<1>4. CASE ResumeUnreached(q)
  <2>1. /\ reader'[q].turn = t
        /\ reader'[q].saw = "unreached"
        /\ reader'[q].at \in {"empty", "failed"}
    BY <1>0, <1>4 DEF ResumeUnreached, Reader
  <2> QED BY <1>0, <2>1 DEF ReaderInv, TurnInv
<1> QED BY <1>1, <1>2, <1>3, <1>4 DEF ReaderStep

(* A reader's steps change only what it is answered.                         *)
LEMMA ReaderKeeps ==
    ASSUME CreditAssumption, ChatAssumption, RunAssumption, CreditsInv,
           NEW q \in Readers, ReaderStep(q), UNCHANGED lifeVars
    PROVE  CreditsInv'
<1> USE DEF CreditsInv, CreditsTypeOK, TypeOK, TurnInv, turnVars
<1> DEFINE m == reader[q]
           turn == reader[q].turn
<1>m. m \in Reader /\ turn \in Turns /\ row[turn] \in Row /\ row[turn].parts \in 0..MaxFrames
  BY DEF Reader, Row
<1>looks. /\ ReadRow(q) \/ Reread(q) =>
               \E a \in {"message", "resuming", "empty"}, n \in 0..MaxFrames :
                  reader' = [reader EXCEPT ![q] = [m EXCEPT !.at = a, !.parts = n]]
          /\ Resume(q) =>
               \E a \in {"rereading", "failed", "stream"} :
                  reader' = [reader EXCEPT ![q] = [m EXCEPT !.at = a, !.saw = relay[turn]]]
          /\ ResumeUnreached(q) =>
               \E a \in {"empty", "failed"} :
                  reader' = [reader EXCEPT ![q] = [m EXCEPT !.at = a, !.saw = "unreached"]]
  <2>1. 0 \in 0..MaxFrames
    BY DEF ChatAssumption
  <2>2. ReadRow(q) => \E a \in {"message", "resuming", "empty"}, n \in 0..MaxFrames :
                  reader' = [reader EXCEPT ![q] = [m EXCEPT !.at = a, !.parts = n]]
    BY <1>m, <2>1 DEF ReadRow, Reply
  <2>3. Reread(q) => \E a \in {"message", "resuming", "empty"}, n \in 0..MaxFrames :
                  reader' = [reader EXCEPT ![q] = [m EXCEPT !.at = a, !.parts = n]]
    BY <1>m, <2>1 DEF Reread, Reply
  <2>4. Resume(q) => \E a \in {"rereading", "failed", "stream"} :
                  reader' = [reader EXCEPT ![q] = [m EXCEPT !.at = a, !.saw = relay[turn]]]
    BY <1>m DEF Resume, AfterNoStream
  <2>5. ResumeUnreached(q) => \E a \in {"empty", "failed"} :
                  reader' = [reader EXCEPT ![q] = [m EXCEPT !.at = a, !.saw = "unreached"]]
    BY <1>m DEF ResumeUnreached
  <2> QED BY <2>2, <2>3, <2>4, <2>5
<1>r. reader' \in [Readers -> Reader]
  <2>1. ASSUME NEW a \in {"message", "resuming", "empty"}, NEW n \in 0..MaxFrames,
               reader' = [reader EXCEPT ![q] = [m EXCEPT !.at = a, !.parts = n]]
        PROVE  reader' \in [Readers -> Reader]
    <3>1. [m EXCEPT !.at = a, !.parts = n] \in Reader
      BY <1>m DEF Reader
    <3> QED BY <2>1, <3>1
  <2>2. ASSUME NEW a \in {"rereading", "failed", "stream"},
               reader' = [reader EXCEPT ![q] = [m EXCEPT !.at = a, !.saw = relay[turn]]]
        PROVE  reader' \in [Readers -> Reader]
    <3>1. [m EXCEPT !.at = a, !.saw = relay[turn]] \in Reader
      BY <1>m DEF Reader
    <3> QED BY <2>2, <3>1
  <2>3. ASSUME NEW a \in {"empty", "failed"},
               reader' = [reader EXCEPT ![q] = [m EXCEPT !.at = a, !.saw = "unreached"]]
        PROVE  reader' \in [Readers -> Reader]
    <3>1. [m EXCEPT !.at = a, !.saw = "unreached"] \in Reader
      BY <1>m DEF Reader
    <3> QED BY <2>3, <3>1
  <2> QED BY <1>looks, <2>1, <2>2, <2>3 DEF ReaderStep
<1>types. (balance \in Int)' /\ TypeOK' /\ Life!TypeOK'
  BY <1>r DEF ReaderStep, ReadRow, Resume, ResumeUnreached, Reread, lifeVars, Life!TypeOK
<1>turns. \A t \in Turns : TurnInv(t)'
  BY DEF ReaderStep, ReadRow, Resume, ResumeUnreached, Reread
<1>readers. ASSUME NEW r \in Readers PROVE ReaderInv(r)'
  <2>1. CASE r # q
    <3>1. reader'[r] = reader[r] /\ ReaderInv(r)
      BY <2>1 DEF ReaderStep, ReadRow, Resume, ResumeUnreached, Reread, Reply
    <3> QED BY <3>1 DEF ReaderStep, ReadRow, Resume, ResumeUnreached, Reread, ReaderInv
  <2>2. CASE r = q
    <3>1. TurnInv(turn) /\ ReaderInv(q) /\ relay[turn] \in {"none", "live", "done", "gone"}
      BY <1>m
    <3> QED BY <1>m, <2>2, <3>1, ReaderInvKept DEF TypeOK
  <2> QED BY <2>1, <2>2
<1>life. \A r \in Runs : RunInv(r)'
  BY DEF lifeVars, RunInv
<1> QED BY <1>types, <1>turns, <1>readers, <1>life

(* A run's own steps keep the types.                                         *)
LEMMA RunTypes ==
    ASSUME CreditAssumption, RunAssumption, balance \in Int, Life!TypeOK,
           NEW s \in Runs, RunInv(s), Life!RunStep(s)
    PROVE  (balance \in Int)' /\ Life!TypeOK'
<1> USE DEF CreditAssumption, RunAssumption, Life!RunConstants, Life!TypeOK
<1>1. CASE Life!Begin(s)
  BY <1>1 DEF Life!Begin
<1>2. CASE Life!Deliver(s)
  BY <1>2 DEF Life!Deliver
<1>3. CASE Life!Pull(s)
  BY <1>3 DEF Life!Pull
<1>4. CASE Life!Leave(s)
  BY <1>4 DEF Life!Leave
<1>5. CASE Life!StreamEnds(s)
  BY <1>5 DEF Life!StreamEnds
<1>6. CASE Life!StreamThrows(s)
  BY <1>6 DEF Life!StreamThrows
<1>7. CASE Life!Succeed(s)
  BY <1>7 DEF Life!Succeed
<1>8. CASE Life!Settle(s)
  <2>1. balance' \in Int
    BY <1>8 DEF Life!Settle, Life!Deduct, Life!Deducted
  <2>2. debited[s] = 0 /\ 0 + Price = Price
    BY <1>8 DEF Life!Settle, RunInv
  <2>3. gen' \in [Runs -> Life!Places]
    BY <1>8 DEF Life!Settle, Life!AfterStats
  <2>4. debited' \in [Runs -> {0, Price}]
    BY <1>8, <2>2 DEF Life!Settle
  <2> QED BY <1>8, <2>1, <2>3, <2>4 DEF Life!Settle
<1>9. CASE Life!Fail(s)
  BY <1>9 DEF Life!Fail
<1>10. CASE Life!Record(s)
  BY <1>10 DEF Life!Record
<1>11. CASE Life!DieRun(s)
  BY <1>11 DEF Life!DieRun
<1> QED
  BY <1>1, <1>2, <1>3, <1>4, <1>5, <1>6, <1>7, <1>8, <1>9, <1>10, <1>11
  DEF Life!RunStep

(* A run's own steps keep what its row says.                                 *)
LEMMA RunInvKept ==
    ASSUME RunAssumption, Life!TypeOK, NEW s \in Runs, NEW r \in Runs,
           RunInv(r), Life!RunStep(s)
    PROVE  RunInv(r)'
<1> USE DEF RunAssumption, Life!RunConstants, Life!TypeOK, RunInv
<1>1. CASE Life!Begin(s)
  BY <1>1 DEF Life!Begin
<1>2. CASE Life!Deliver(s)
  BY <1>2 DEF Life!Deliver
<1>3. CASE Life!Pull(s)
  BY <1>3 DEF Life!Pull
<1>4. CASE Life!Leave(s)
  BY <1>4 DEF Life!Leave
<1>5. CASE Life!StreamEnds(s)
  BY <1>5 DEF Life!StreamEnds
<1>6. CASE Life!StreamThrows(s)
  BY <1>6 DEF Life!StreamThrows
<1>7. CASE Life!Succeed(s)
  BY <1>7 DEF Life!Succeed
<1>8. CASE Life!Settle(s)
  <2>1. CASE r # s
    BY <1>8, <2>1 DEF Life!Settle, Life!AfterStats
  <2>2. CASE r = s
    <3>1. gen[s] = "debiting" /\ debited[s] = 0
      BY <1>8, <2>2 DEF Life!Settle
    <3>2. CASE gen'[s] = "caught"
      BY <1>8, <2>2, <3>1, <3>2 DEF Life!Settle, Life!AfterStats
    <3>3. CASE gen'[s] = "over" /\ s \in OnCredits
      <4>0. gen' # [gen EXCEPT ![s] = "caught"]
        BY <3>3
      <4>1. /\ gen' = [gen EXCEPT ![s] = "over"]
            /\ debited' = [debited EXCEPT ![s] = debited[s] + Price]
            /\ lifeRow' = lifeRow
        BY <1>8, <3>3, <4>0, Zenon DEF Life!Settle, Life!AfterStats
      <4>2. 0 + Price = Price /\ Price > 0
        OBVIOUS
      <4>3. debited'[s] = Price
        BY <3>1, <4>1, <4>2
      <4> QED BY <2>2, <3>1, <3>3, <4>1, <4>2, <4>3
    <3>4. CASE gen'[s] = "over" /\ s \notin OnCredits
      BY <1>8, <2>2, <3>1, <3>4 DEF Life!Settle, Life!AfterStats
    <3> QED BY <1>8, <3>2, <3>3, <3>4 DEF Life!Settle, Life!AfterStats
  <2> QED BY <2>1, <2>2
<1>9. CASE Life!Fail(s)
  BY <1>9 DEF Life!Fail
<1>10. CASE Life!Record(s)
  BY <1>10 DEF Life!Record
<1>11. CASE Life!DieRun(s)
  BY <1>11 DEF Life!DieRun
<1> QED
  BY <1>1, <1>2, <1>3, <1>4, <1>5, <1>6, <1>7, <1>8, <1>9, <1>10, <1>11
  DEF Life!RunStep

(* A run's step keeps the whole invariant.                                   *)
LEMMA RunKeeps ==
    ASSUME CreditAssumption, ChatAssumption, RunAssumption, CreditsInv,
           NEW s \in Runs, Life!RunStep(s), UNCHANGED chatVars
    PROVE  CreditsInv'
<1>0. balance \in Int /\ TypeOK /\ Life!TypeOK
  BY DEF CreditsInv, CreditsTypeOK
<1>1. (balance \in Int)' /\ Life!TypeOK'
  BY <1>0, RunTypes DEF CreditsInv
<1>2. \A r \in Runs : RunInv(r)'
  BY <1>0, RunInvKept DEF CreditsInv
<1>3. TypeOK'
  BY <1>0 DEF chatVars, turnVars, TypeOK
<1>4. (\A t \in Turns : TurnInv(t)') /\ \A r \in Readers : ReaderInv(r)'
  BY DEF CreditsInv, chatVars, turnVars, TurnInv, ReaderInv
<1> QED BY <1>1, <1>2, <1>3, <1>4 DEF CreditsInv, CreditsTypeOK

(* The invariant holds in every state of TurnCredits.                        *)
THEOREM CreditsInvariant == CreditsSpec => []CreditsInv
<1> USE CreditAssumption, ChatAssumption, RunAssumption
<1>1. CreditsInit => CreditsInv BY CreditsInitially
<1>2. CreditsInv /\ [CreditsNext]_all => CreditsInv'
  <2> SUFFICES ASSUME CreditsInv, [CreditsNext]_all PROVE CreditsInv'
    OBVIOUS
  <2>1. CASE Chat(Next)
    BY <2>1, TurnKeeps, ReaderKeeps DEF Chat, Next
  <2>2. CASE OfLife(Life!Next)
    BY <2>2, RunKeeps DEF OfLife, Life!Next
  <2>3. CASE UNCHANGED all
    BY <2>3 DEF all, chatVars, turnVars, lifeVars, CreditsInv, CreditsTypeOK,
           TypeOK, Life!TypeOK, TurnInv, ReaderInv, RunInv
  <2> QED BY <2>1, <2>2, <2>3 DEF CreditsNext
<1> QED BY <1>1, <1>2, PTL DEF CreditsSpec

(* route.ts, credits.ts, canonical.ts: every variable keeps its type.        *)
THEOREM TypeCorrect == CreditsSpec => []CreditsTypeOK
<1>1. CreditsInv => CreditsTypeOK BY DEF CreditsInv
<1> QED BY <1>1, CreditsInvariant, PTL

(* route.ts finalizeMessageAndCredits: no one is charged for an answer that  *)
(* was not stored, nor twice.                                                *)
THEOREM ChargesCorrect == CreditsSpec => []ChargedIsStored
<1>1. CreditsInv => ChargedIsStored
  BY DEF CreditsInv, TurnInv, ChargedIsStored
<1> QED BY <1>1, CreditsInvariant, PTL

(* route.ts onFinish: a stream that is over is not named by its message.     *)
THEOREM PlaceholderCorrect == CreditsSpec => []EndedNotResumable
<1>1. CreditsInv => EndedNotResumable
  BY DEF CreditsInv, TurnInv, EndedNotResumable
<1> QED BY <1>1, CreditsInvariant, PTL

(* [id]/stream/route.ts: the second look at the row closes the gap between   *)
(* the first and Redis, for a reader that reaches Redis; and what it sends   *)
(* is the whole answer, or nothing where the hook was early.                 *)
THEOREM ResumeCorrect == CreditsSpec => []ResumeAnswers
<1>1. CreditsInv => ResumeAnswers
  BY DEF CreditsInv, ReaderInv, ResumeAnswers
<1> QED BY <1>1, CreditsInvariant, PTL

(* canonical.ts onFinish/onError: the run's row and the balance agree.       *)
THEOREM RunCorrect == CreditsSpec => []RowTellsDebit
<1>1. CreditsInv => RowTellsDebit
  BY DEF CreditsInv, RunInv, RowTellsDebit, Life!RowTellsDebit
<1> QED BY <1>1, CreditsInvariant, PTL

(* GREATEST(credits - amount, -maxOverdraft): taking amounts off one after   *)
(* the other, floored each time, is taking their sum off and flooring once.  *)
Floored(n) == IF n > -MaxOverdraft THEN n ELSE -MaxOverdraft

LEMMA FlooredOnce ==
    ASSUME CreditAssumption, NEW left \in Int, NEW n \in Nat,
           balance = Floored(left)
    PROVE  Deducted(n) = Floored(left - n)
BY DEF CreditAssumption, Deducted, Floored

(* A turn takes from the balance only where it is charged.                   *)
LEMMA TurnMoney ==
    ASSUME NEW s \in Turns, TurnStep(s)
    PROVE  Charge(s) \/ UNCHANGED <<balance, charged>>
<1>1. CASE TurnedAway(s) \/ Post(s) \/ Declined(s) \/ Placeholder(s) \/ Responds(s)
           \/ RegisterFails(s)
  BY <1>1 DEF TurnedAway, Post, Declined, Placeholder, Responds, Register, Unregistered,
     RegisterFails
<1>2. CASE Streams(s)
  BY <1>2 DEF Streams, DispatchFails, MeetsAbort, Deadline, Frame, Check, TimeUp,
     LifedEnds, EndsUnmetered, Throws, ReaderLeaves
<1>3. CASE Check(s) \/ TimeUp(s) \/ LifedEnds(s) \/ EndsUnmetered(s) \/ Throws(s)
  BY <1>3 DEF Check, TimeUp, LifedEnds, EndsUnmetered, Throws
<1>4. CASE Finalizes(s)
  BY <1>4 DEF Finalizes, Finish, FinishFails, ChargeFails, Close
<1>5. CASE Die(s) \/ Expire(s) \/ Clear(s) \/ Stop(s)
  BY <1>5 DEF Die, Expire, Clear, Stop
<1> QED BY <1>1, <1>2, <1>3, <1>4, <1>5 DEF TurnStep

(* A run takes from the balance only where it is settled on credits.         *)
LEMMA RunMoney ==
    ASSUME NEW s \in Runs, Life!RunStep(s)
    PROVE  \/ UNCHANGED <<balance, debited>>
           \/ /\ balance' = Deducted(Price)
              /\ debited' = [debited EXCEPT ![s] = debited[s] + Price]
<1>1. CASE Life!Settle(s)
  BY <1>1 DEF Life!Settle, Life!Deduct, Life!Deducted, Deducted
<1>2. CASE \/ Life!Begin(s) \/ Life!Deliver(s) \/ Life!Pull(s) \/ Life!Leave(s)
           \/ Life!StreamEnds(s) \/ Life!StreamThrows(s) \/ Life!Succeed(s)
           \/ Life!Fail(s) \/ Life!Record(s) \/ Life!DieRun(s)
  BY <1>2 DEF Life!Begin, Life!Deliver, Life!Pull, Life!Leave, Life!StreamEnds,
     Life!StreamThrows, Life!Succeed, Life!Fail, Life!Record, Life!DieRun
<1> QED BY <1>1, <1>2 DEF Life!RunStep

(* What every turn and run took so far.                                      *)
Left == Opening - Total(charged, Turns) - Total(debited, Runs)

(* An amount that one element of a function of naturals grows by is what its *)
(* total grows by.                                                           *)
LEMMA TotalGrows ==
    ASSUME NEW S, IsFiniteSet(S), NEW f \in [S -> Nat], NEW x \in S, NEW n \in Nat
    PROVE  /\ Total(f, S) \in Int
           /\ Total([f EXCEPT ![x] = f[x] + n], S) = Total(f, S) + n
<1> DEFINE g == [f EXCEPT ![x] = f[x] + n]
<1>1. f \in [S -> Int] /\ g \in [S -> Int]
  OBVIOUS
<1>2. f[x] \in Int /\ g[x] = f[x] + n /\ \A y \in S \ {x} : g[y] = f[y]
  OBVIOUS
<1> HIDE DEF g
<1>3. Total(f, S) \in Int /\ Total(g, S) = Total(f, S) + (g[x] - f[x])
  BY <1>1, <1>2, TotalIsInt, TotalChanges
<1>4. Total(g, S) = Total(f, S) + n
  BY <1>2, <1>3
<1> QED BY <1>3, <1>4 DEF g

(* Whoever draws on the balance, it stays what the sums say.                 *)
LEMMA BookedKept ==
    ASSUME CreditAssumption, ChatAssumption, RunAssumption, FinitelyMany,
           CreditsTypeOK, CreditsBooked, CreditsNext
    PROVE  CreditsBooked'
<1>0. /\ charged \in [Turns -> Nat] /\ debited \in [Runs -> Nat]
      /\ \A t \in Turns : cost[t] \in Nat
      /\ Opening \in Int /\ Price \in Nat
      /\ IsFiniteSet(Turns) /\ IsFiniteSet(Runs)
  <2>1. Opening \in Int /\ Price \in Nat /\ 0 \in Nat
    BY DEF CreditAssumption, RunAssumption, Life!RunConstants
  <2>2. charged \in [Turns -> Nat] /\ cost \in [Turns -> Costs \cup {0}]
    BY DEF CreditsTypeOK, TypeOK
  <2>3. debited \in [Runs -> {0, Price}]
    BY DEF CreditsTypeOK, Life!TypeOK
  <2>4. debited \in [Runs -> Nat]
    BY <2>1, <2>3
  <2>5. \A t \in Turns : cost[t] \in Nat
    BY <2>2, CostIsNat
  <2> QED BY <2>1, <2>2, <2>4, <2>5 DEF FinitelyMany
<1>1. Total(charged, Turns) \in Int /\ Total(debited, Runs) \in Int
  <2>1. charged \in [Turns -> Int] /\ debited \in [Runs -> Int]
    BY <1>0
  <2> QED BY <1>0, <2>1, TotalIsInt
<1>2. Left \in Int /\ balance = Floored(Left)
  BY <1>0, <1>1 DEF Left, Floored, CreditsBooked
<1>3. CASE UNCHANGED <<balance, charged, debited>>
  BY <1>3 DEF CreditsBooked
<1>4. ASSUME NEW s \in Turns, Charge(s), UNCHANGED debited
      PROVE  CreditsBooked'
  <2>1. PICK n \in Nat : n = cost[s]
    BY <1>0
  <2>2. /\ balance' = Deducted(n) /\ debited' = debited
        /\ charged' = [charged EXCEPT ![s] = charged[s] + n]
    BY <1>4, <2>1 DEF Charge, Deduct
  <2>3. Total(charged', Turns) = Total(charged, Turns) + n
    BY <1>0, <2>2, TotalGrows
  <2>4. Opening - Total(charged', Turns) - Total(debited', Runs) = Left - n
    BY <1>0, <1>1, <2>2, <2>3 DEF Left
  <2>5. balance' = Floored(Left - n)
    BY <1>2, <2>2, FlooredOnce
  <2> QED BY <2>4, <2>5 DEF CreditsBooked, Floored
<1>5. ASSUME NEW s \in Runs, balance' = Deducted(Price), UNCHANGED charged,
             debited' = [debited EXCEPT ![s] = debited[s] + Price]
      PROVE  CreditsBooked'
  <2>1. Total(debited', Runs) = Total(debited, Runs) + Price
    BY <1>0, <1>5, TotalGrows
  <2>2. Opening - Total(charged', Turns) - Total(debited', Runs) = Left - Price
    BY <1>0, <1>1, <1>5, <2>1 DEF Left
  <2>3. balance' = Floored(Left - Price)
    BY <1>0, <1>2, <1>5, FlooredOnce
  <2> QED BY <2>2, <2>3 DEF CreditsBooked, Floored
<1>6. CASE Chat(Next)
  <2>1. UNCHANGED debited
    BY <1>6 DEF Chat, lifeVars
  <2>2. CASE \E s \in Turns : TurnStep(s)
    BY <1>3, <1>4, <2>1, <2>2, TurnMoney
  <2>3. CASE \E q \in Readers : ReaderStep(q)
    BY <1>3, <2>1, <2>3 DEF ReaderStep, ReadRow, Resume, ResumeUnreached, Reread, turnVars
  <2> QED BY <1>6, <2>2, <2>3 DEF Chat, Next
<1>7. CASE OfLife(Life!Next)
  <2>1. UNCHANGED charged
    BY <1>7 DEF OfLife, chatVars, turnVars
  <2> QED BY <1>3, <1>5, <1>7, <2>1, RunMoney DEF OfLife, Life!Next
<1> QED BY <1>6, <1>7 DEF CreditsNext

(* credits.ts deductCredits: every charge and every debit comes off once,    *)
(* whatever their order, and never below the overdraft.                      *)
THEOREM BookedCorrect == CreditsSpec => []CreditsBooked
<1> USE CreditAssumption, ChatAssumption, RunAssumption, FinitelyMany
<1>1. CreditsInit => CreditsBooked
  <2> SUFFICES ASSUME CreditsInit PROVE CreditsBooked
    OBVIOUS
  <2>1. Total(charged, Turns) = 0 /\ Total(debited, Runs) = 0
    BY TotalOfZeros DEF CreditsInit, Init, Life!Init, FinitelyMany
  <2> QED BY <2>1 DEF CreditsInit, Init, CreditsBooked, CreditAssumption
<1>2. CreditsTypeOK /\ CreditsBooked /\ [CreditsNext]_all => CreditsBooked'
  <2> SUFFICES ASSUME CreditsTypeOK, CreditsBooked, [CreditsNext]_all
               PROVE  CreditsBooked'
    OBVIOUS
  <2>1. CASE UNCHANGED all
    BY <2>1 DEF all, chatVars, turnVars, lifeVars, CreditsBooked
  <2> QED BY <2>1, BookedKept
<1> QED BY <1>1, <1>2, TypeCorrect, PTL DEF CreditsSpec
=============================================================================

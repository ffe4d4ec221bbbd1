----------------------------- MODULE KeeperProofs -----------------------------
(***************************************************************************)
(* The loops of the pool keeper and of the bridge keeper, for any number of *)
(* retries, chunks, treasuries, conversions and restarts: what is signed     *)
(* rests on a reading that nothing of the keeper's own has outdated, and no  *)
(* trade goes before a repair that the keeper knows of.  And the refunds of   *)
(* the pool keeper, for any number of reverts and faults: none without cause. *)
(***************************************************************************)
EXTENDS KeeperCycle, BridgeCycle, DepositRecovery, TLAPS

-----------------------------------------------------------------------------
(* The bridge keeper *)
LEMMA NextIndex ==
    ASSUME NEW t \in 1 .. Treasuries
    PROVE  (t % Treasuries) + 1 \in 1 .. Treasuries
BY BridgeAssumption DEF BridgeAssumption

LEMMA FirstIndex == 1 \in 1 .. Treasuries
BY BridgeAssumption DEF BridgeAssumption

LEMMA BridgeStart == BridgeInit => BridgeInv
<1> SUFFICES ASSUME BridgeInit PROVE BridgeInv
  OBVIOUS
<1> USE BridgeAssumption DEF BridgeAssumption, BridgeInit, None
<1>1. BridgeTypeOK
  <2>1. CallOK
    BY FirstIndex DEF CallOK, Outcomes
  <2>2. AlertsOK
    BY DEF AlertsOK
  <2> QED BY <2>1, <2>2 DEF BridgeTypeOK
<1>2. AmountIsCurrent /\ CurrentOrFound /\ ReportsRemembered
  BY DEF AmountIsCurrent, CurrentOrFound, ReportsRemembered
<1> QED BY <1>1, <1>2 DEF BridgeInv

LEMMA CallStep == CallOK /\ [BridgeNext]_bridgeVars => CallOK'
<1> SUFFICES ASSUME CallOK, [BridgeNext]_bridgeVars PROVE CallOK'
  OBVIOUS
<1> USE BridgeAssumption, FirstIndex, NextIndex
    DEF BridgeAssumption, CallOK, Outcomes, To, Ends, NextTreasury, Reads, Forgets, reading
<1>1. CASE ReadState
  BY <1>1 DEF ReadState
<1>2. CASE SkipConversion
  BY <1>2 DEF SkipConversion
<1>3. CASE SelectConversion
  BY <1>3 DEF SelectConversion
<1>4. CASE ReadBridgeable
  BY <1>4 DEF ReadBridgeable
<1>5. CASE Decide
  BY <1>5 DEF Decide
<1>6. CASE SettleJournal
  BY <1>6 DEF SettleJournal
<1>7. CASE PreparationFails
  BY <1>7 DEF PreparationFails, Refused
<1>8. CASE SignAndSend
  BY <1>8 DEF SignAndSend
<1>9. CASE Receipt
  BY <1>9 DEF Receipt, Refused
<1>10. CASE CountFailure
  BY <1>10 DEF CountFailure
<1>11. CASE PersistCount
  BY <1>11 DEF PersistCount
<1>12. CASE Report
  BY <1>12 DEF Report
<1>13. CASE Success
  BY <1>13 DEF Success
<1>14. CASE Persist
  BY <1>14 DEF Persist
<1>15. CASE PersistFails
  BY <1>15 DEF PersistFails
<1>16. CASE BridgeMinedLate
  BY <1>16 DEF BridgeMinedLate
<1>17. CASE BridgeRestart
  BY <1>17 DEF BridgeRestart
<1>18. CASE OthersSend
  BY <1>18 DEF OthersSend
<1>19. CASE OthersSettle
  BY <1>19 DEF OthersSettle
<1>20. CASE UNCHANGED bridgeVars
  BY <1>20 DEF bridgeVars
<1> QED
  BY <1>1, <1>2, <1>3, <1>4, <1>5, <1>6, <1>7, <1>8, <1>9, <1>10,
     <1>11, <1>12, <1>13, <1>14, <1>15, <1>16, <1>17, <1>18, <1>19, <1>20
  DEF BridgeNext, RunOnce

LEMMA AlertsStep == CallOK /\ AlertsOK /\ [BridgeNext]_bridgeVars => AlertsOK'
<1> SUFFICES ASSUME CallOK, AlertsOK, [BridgeNext]_bridgeVars PROVE AlertsOK'
  OBVIOUS
<1> USE BridgeAssumption
    DEF BridgeAssumption, CallOK, AlertsOK, To, Ends, NextTreasury, alerts, told
<1>1. CASE ReadState
  BY <1>1 DEF ReadState
<1>2. CASE SkipConversion
  BY <1>2 DEF SkipConversion
<1>3. CASE SelectConversion
  BY <1>3 DEF SelectConversion
<1>4. CASE ReadBridgeable
  BY <1>4 DEF ReadBridgeable
<1>5. CASE Decide
  BY <1>5 DEF Decide
<1>6. CASE SettleJournal
  BY <1>6 DEF SettleJournal
<1>7. CASE PreparationFails
  BY <1>7 DEF PreparationFails, Refused
<1>8. CASE SignAndSend
  BY <1>8 DEF SignAndSend
<1>9. CASE Receipt
  BY <1>9 DEF Receipt, Refused
<1>10. CASE CountFailure
  BY <1>10 DEF CountFailure, Counts
<1>11. CASE PersistCount
  BY <1>11 DEF PersistCount, IncidentDue
<1>12. CASE Report
  <2>1. \A e \in [failures : Nat, alerted : BOOLEAN] :
          [e EXCEPT !.alerted = TRUE] \in [failures : Nat, alerted : BOOLEAN]
    OBVIOUS
  <2>2. actions' \in [1 .. Treasuries -> [failures : Nat, alerted : BOOLEAN]]
    BY <1>12, <2>1 DEF Report
  <2> QED BY <1>12, <2>2 DEF Report
<1>13. CASE Success
  BY <1>13 DEF Success, None
<1>14. CASE Persist
  BY <1>14 DEF Persist
<1>15. CASE PersistFails
  BY <1>15 DEF PersistFails
<1>16. CASE BridgeMinedLate
  BY <1>16 DEF BridgeMinedLate
<1>17. CASE BridgeRestart
  BY <1>17 DEF BridgeRestart
<1>18. CASE OthersSend
  BY <1>18 DEF OthersSend
<1>19. CASE OthersSettle
  BY <1>19 DEF OthersSettle
<1>20. CASE UNCHANGED bridgeVars
  BY <1>20 DEF bridgeVars
<1> QED
  BY <1>1, <1>2, <1>3, <1>4, <1>5, <1>6, <1>7, <1>8, <1>9, <1>10,
     <1>11, <1>12, <1>13, <1>14, <1>15, <1>16, <1>17, <1>18, <1>19, <1>20
  DEF BridgeNext, RunOnce

LEMMA TodoStep == todo \in 0 .. Conversions /\ [BridgeNext]_bridgeVars => (todo \in 0 .. Conversions)'
<1> SUFFICES ASSUME todo \in 0 .. Conversions, [BridgeNext]_bridgeVars PROVE (todo \in 0 .. Conversions)'
  OBVIOUS
<1> USE BridgeAssumption
    DEF BridgeAssumption, To, Ends, NextTreasury
<1>1. CASE ReadState
  BY <1>1 DEF ReadState
<1>2. CASE SkipConversion
  BY <1>2 DEF SkipConversion
<1>3. CASE SelectConversion
  BY <1>3 DEF SelectConversion
<1>4. CASE ReadBridgeable
  BY <1>4 DEF ReadBridgeable
<1>5. CASE Decide
  BY <1>5 DEF Decide
<1>6. CASE SettleJournal
  BY <1>6 DEF SettleJournal
<1>7. CASE PreparationFails
  BY <1>7 DEF PreparationFails, Refused
<1>8. CASE SignAndSend
  BY <1>8 DEF SignAndSend
<1>9. CASE Receipt
  BY <1>9 DEF Receipt, Refused
<1>10. CASE CountFailure
  BY <1>10 DEF CountFailure
<1>11. CASE PersistCount
  BY <1>11 DEF PersistCount
<1>12. CASE Report
  BY <1>12 DEF Report
<1>13. CASE Success
  BY <1>13 DEF Success
<1>14. CASE Persist
  BY <1>14 DEF Persist
<1>15. CASE PersistFails
  BY <1>15 DEF PersistFails
<1>16. CASE BridgeMinedLate
  BY <1>16 DEF BridgeMinedLate
<1>17. CASE BridgeRestart
  BY <1>17 DEF BridgeRestart
<1>18. CASE OthersSend
  BY <1>18 DEF OthersSend
<1>19. CASE OthersSettle
  BY <1>19 DEF OthersSettle
<1>20. CASE UNCHANGED bridgeVars
  BY <1>20 DEF bridgeVars
<1> QED
  BY <1>1, <1>2, <1>3, <1>4, <1>5, <1>6, <1>7, <1>8, <1>9, <1>10,
     <1>11, <1>12, <1>13, <1>14, <1>15, <1>16, <1>17, <1>18, <1>19, <1>20
  DEF BridgeNext, RunOnce

(* Only a mined transaction makes a reading old, and it is found in the      *)
(* journal before anything is signed.                                       *)
LEMMA CurrentStep ==
    AmountIsCurrent /\ CurrentOrFound /\ [BridgeNext]_bridgeVars
      => (AmountIsCurrent /\ CurrentOrFound)'
<1> SUFFICES ASSUME AmountIsCurrent, CurrentOrFound, [BridgeNext]_bridgeVars
             PROVE  (AmountIsCurrent /\ CurrentOrFound)'
  OBVIOUS
<1> USE DEF AmountIsCurrent, CurrentOrFound, Outcomes, To, Ends, NextTreasury, Reads, Forgets, reading
<1>1. CASE ReadState
  BY <1>1 DEF ReadState
<1>2. CASE SkipConversion
  BY <1>2 DEF SkipConversion
<1>3. CASE SelectConversion
  BY <1>3 DEF SelectConversion
<1>4. CASE ReadBridgeable
  BY <1>4 DEF ReadBridgeable
<1>5. CASE Decide
  BY <1>5 DEF Decide
<1>6. CASE SettleJournal
  BY <1>6 DEF SettleJournal
<1>7. CASE PreparationFails
  BY <1>7 DEF PreparationFails, Refused
<1>8. CASE SignAndSend
  BY <1>8 DEF SignAndSend
<1>9. CASE Receipt
  BY <1>9 DEF Receipt, Refused
<1>10. CASE CountFailure
  BY <1>10 DEF CountFailure
<1>11. CASE PersistCount
  BY <1>11 DEF PersistCount
<1>12. CASE Report
  BY <1>12 DEF Report
<1>13. CASE Success
  BY <1>13 DEF Success
<1>14. CASE Persist
  BY <1>14 DEF Persist
<1>15. CASE PersistFails
  BY <1>15 DEF PersistFails
<1>16. CASE BridgeMinedLate
  BY <1>16 DEF BridgeMinedLate
<1>17. CASE BridgeRestart
  BY <1>17 DEF BridgeRestart
<1>18. CASE OthersSend
  BY <1>18 DEF OthersSend
<1>19. CASE OthersSettle
  BY <1>19 DEF OthersSettle
<1>20. CASE UNCHANGED bridgeVars
  BY <1>20 DEF bridgeVars
<1> QED
  BY <1>1, <1>2, <1>3, <1>4, <1>5, <1>6, <1>7, <1>8, <1>9, <1>10,
     <1>11, <1>12, <1>13, <1>14, <1>15, <1>16, <1>17, <1>18, <1>19, <1>20
  DEF BridgeNext, RunOnce

(* A report is of a streak that was not reported since the last restart.     *)
LEMMA ReportsStep ==
    BridgeTypeOK /\ ReportsRemembered /\ [BridgeNext]_bridgeVars => ReportsRemembered'
<1> SUFFICES ASSUME BridgeTypeOK, ReportsRemembered, [BridgeNext]_bridgeVars
             PROVE  ReportsRemembered'
  OBVIOUS
<1> USE DEF BridgeTypeOK, CallOK, AlertsOK, ReportsRemembered, Outcomes, To, Ends, NextTreasury, alerts,
        told
<1>1. CASE ReadState
  BY <1>1 DEF ReadState
<1>2. CASE SkipConversion
  BY <1>2 DEF SkipConversion
<1>3. CASE SelectConversion
  BY <1>3 DEF SelectConversion
<1>4. CASE ReadBridgeable
  BY <1>4 DEF ReadBridgeable
<1>5. CASE Decide
  BY <1>5 DEF Decide
<1>6. CASE SettleJournal
  BY <1>6 DEF SettleJournal
<1>7. CASE PreparationFails
  BY <1>7 DEF PreparationFails, Refused
<1>8. CASE SignAndSend
  BY <1>8 DEF SignAndSend
<1>9. CASE Receipt
  BY <1>9 DEF Receipt, Refused
<1>10. CASE CountFailure
  BY <1>10 DEF CountFailure, Counts
<1>11. CASE PersistCount
  BY <1>11 DEF PersistCount, IncidentDue
<1>12. CASE Report
  BY <1>12 DEF Report
<1>13. CASE Success
  BY <1>13 DEF Success, None
<1>14. CASE Persist
  BY <1>14 DEF Persist
<1>15. CASE PersistFails
  BY <1>15 DEF PersistFails
<1>16. CASE BridgeMinedLate
  BY <1>16 DEF BridgeMinedLate
<1>17. CASE BridgeRestart
  BY <1>17 DEF BridgeRestart
<1>18. CASE OthersSend
  BY <1>18 DEF OthersSend
<1>19. CASE OthersSettle
  BY <1>19 DEF OthersSettle
<1>20. CASE UNCHANGED bridgeVars
  BY <1>20 DEF bridgeVars
<1> QED
  BY <1>1, <1>2, <1>3, <1>4, <1>5, <1>6, <1>7, <1>8, <1>9, <1>10,
     <1>11, <1>12, <1>13, <1>14, <1>15, <1>16, <1>17, <1>18, <1>19, <1>20
  DEF BridgeNext, RunOnce

LEMMA BridgeStep == BridgeInv /\ [BridgeNext]_bridgeVars => BridgeInv'
BY CallStep, AlertsStep, TodoStep, CurrentStep, ReportsStep DEF BridgeInv, BridgeTypeOK

(* The types, where a cycle stands, what its readings are worth, and the      *)
(* reports of a streak of failures (KeeperBot.runCycle, tryMaintainRevenue).  *)
THEOREM BridgeInvariance == BridgeSpec => []BridgeInv
BY BridgeStart, BridgeStep, PTL DEF BridgeSpec

(* No amount is sent that was read before the keeper's last transaction was  *)
(* mined, unless another keeper of the signer took that one out of the       *)
(* journal since.                                                           *)
THEOREM NothingSentTwice == BridgeSpec => []AmountIsCurrent
<1>1. BridgeInv => AmountIsCurrent
  BY DEF BridgeInv
<1> QED BY <1>1, BridgeInvariance, PTL

(* The operator hears of a streak of failures once for every run of the       *)
(* keeper, not once per cycle.                                              *)
THEOREM ReportsBounded == BridgeSpec => []ReportedOnce
<1>1. BridgeInv => ReportedOnce
  BY DEF BridgeInv, BridgeTypeOK, AlertsOK, ReportsRemembered, ReportedOnce
<1> QED BY <1>1, BridgeInvariance, PTL

-----------------------------------------------------------------------------
(* The pool keeper.  First where the callers of a transaction go on. *)
LEMMA AfterSuccess ==
    /\ OnSuccess["repair"] = "post"
    /\ OnSuccess["refund"] = "end"
    /\ OnSuccess["checkpoint"] = "reread"
    /\ OnSuccess["adjust"] = "post"
    /\ OnSuccess["sync"] = "depositPlan"
    /\ OnSuccess["refreshDeposit"] = "depositReplan"
    /\ OnSuccess["deposit"] = "rebalance"
    /\ OnSuccess["recovery"] = "rebalance"
    /\ OnSuccess["syncPlan"] = "plan"
    /\ OnSuccess["refreshPlan"] = "plan"
    /\ OnSuccess["rebalance"] = "end"
    /\ OnSuccess["compound"] = "end"
    /\ OnSuccess["refreshTarget"] = "targetDue"
    /\ OnSuccess["runCheckpoint"] = "retarget"
    /\ OnSuccess["retarget"] = ret
    /\ OnSuccess["begin"] = "begun"
    /\ OnSuccess["refreshRun"] = "runAmounts"
    /\ OnSuccess["refreshChunk"] = "loop"
    /\ OnSuccess["chunk"] = "loop"
    /\ OnSuccess["last"] = "end"
    /\ OnSuccess["finalize"] = "end"
BY DEF OnSuccess

LEMMA AfterFailure ==
    /\ OnFailure["repair"] = "post"
    /\ OnFailure["refund"] = "end"
    /\ OnFailure["checkpoint"] = "reread"
    /\ OnFailure["adjust"] = "post"
    /\ OnFailure["sync"] = "rebalance"
    /\ OnFailure["refreshDeposit"] = "rebalance"
    /\ OnFailure["deposit"] = "rebalance"
    /\ OnFailure["recovery"] = "rebalance"
    /\ OnFailure["syncPlan"] = "end"
    /\ OnFailure["refreshPlan"] = "end"
    /\ OnFailure["rebalance"] = "end"
    /\ OnFailure["compound"] = "end"
    /\ OnFailure["refreshTarget"] = "end"
    /\ OnFailure["runCheckpoint"] = "retarget"
    /\ OnFailure["retarget"] = "end"
    /\ OnFailure["begin"] = "end"
    /\ OnFailure["refreshRun"] = "end"
    /\ OnFailure["refreshChunk"] = "end"
    /\ OnFailure["chunk"] = "end"
    /\ OnFailure["last"] = "end"
    /\ OnFailure["finalize"] = "end"
BY DEF OnFailure

LEMMA AfterAbort ==
    Abort => pc' = IF ret = "topology" THEN "topology"
                   ELSE IF ret = "config" THEN "start" ELSE "end"
BY DEF Abort, Aborts, Goto

LEMMA CycleStart == CycleInit => CycleInv
<1> SUFFICES ASSUME CycleInit PROVE CycleInv
  OBVIOUS
<1> USE CycleAssumption DEF CycleAssumption, CycleInit
<1>1. WorldOK
  BY DEF WorldOK
<1>2. PlaceOK
  BY DEF PlaceOK, Labels
<1>3. HoldsOK
  BY DEF HoldsOK
<1>4. BoundsOK
  BY DEF BoundsOK
<1>5. ReturnKnown /\ KnownFine /\ StillFresh
  BY DEF ReturnKnown, KnownFine, StillFresh, Trying, AfterFineRead, AfterDecision
<1> QED BY <1>1, <1>2, <1>3, <1>4, <1>5 DEF CycleInv, CycleTypeOK

(* The types, by what the actions touch. *)
LEMMA WorldStep == WorldOK /\ [CycleNext]_cycleVars => WorldOK'
<1> SUFFICES ASSUME WorldOK, [CycleNext]_cycleVars PROVE WorldOK'
  OBVIOUS
<1> USE CycleAssumption DEF CycleAssumption, WorldOK
<1>1. CASE Reconcile
  BY <1>1 DEF Reconcile
<1>2. CASE SettlesFirst
  BY <1>2 DEF SettlesFirst
<1>3. CASE Signs
  BY <1>3 DEF Signs
<1>4. CASE Confirmed
  <2>1. active' \in BOOLEAN
    <3>1. active' \in {TRUE, FALSE, active}
      BY <1>4 DEF Confirmed, Effect
    <3> QED BY <3>1
  <2>2. required' \in BOOLEAN /\ pend' = "none"
    BY <1>4 DEF Confirmed, Effect
  <2> QED BY <2>1, <2>2
<1>5. CASE NotConfirmed
  BY <1>5 DEF NotConfirmed
<1>6. CASE MinedLate
  BY <1>6 DEF MinedLate
<1>7. CASE Others
  BY <1>7 DEF Others
<1>8. ASSUME Start \/ Config \/ Topology \/ NewCycle \/ LaneAnswer \/ Throws \/
             RepairAnswer \/ PostCheck \/ LaneAfter \/ Status \/ RefundBlocked
      PROVE  UNCHANGED world
  BY <1>8 DEF Start, Config, Topology, NewCycle, LaneAnswer, Throws, RepairAnswer,
              PostCheck, LaneAfter, Status, RefundBlocked, Step, Lane, MaySend,
              Simulated
<1>9. ASSUME ReadStrategy \/ HfRepair \/ Reread \/ Checkpoint \/ AdjustHedge \/ Deposit
             \/ AttemptDeposit \/ PlanDeposit \/ Rebalance \/ PlanRebalance \/
             LatestDecision
      PROVE  UNCHANGED world
  BY <1>9 DEF ReadStrategy, HfRepair, Reread, Checkpoint, AdjustHedge, Deposit,
              AttemptDeposit, PlanDeposit, Rebalance, PlanRebalance, LatestDecision,
              Step, Lane, MaySend, Simulated
<1>10. ASSUME Compound \/ Target \/ RunStatus \/ Begin \/ Begun \/ Loop \/ LoopTarget \/
             RunPlan \/ PrepareFails \/ Crash
      PROVE  UNCHANGED world
  BY <1>10 DEF Compound, Target, RunStatus, Begin, Begun, Loop, LoopTarget, RunPlan,
              PrepareFails, Crash, Step, Lane, MaySend, Simulated
<1>11. CASE UNCHANGED cycleVars
  BY <1>11 DEF cycleVars, world
<1>12. UNCHANGED world => WorldOK'
  BY DEF world
<1> QED BY <1>1, <1>2, <1>3, <1>4, <1>5, <1>6, <1>7, <1>8, <1>9, <1>10, <1>11, <1>12
  DEF CycleNext, Keeper

LEMMA HoldsStep == HoldsOK /\ [CycleNext]_cycleVars => HoldsOK'
<1> SUFFICES ASSUME HoldsOK, [CycleNext]_cycleVars PROVE HoldsOK'
  OBVIOUS
<1> USE CycleAssumption DEF CycleAssumption, HoldsOK
<1>1. CASE NewCycle
  BY <1>1 DEF NewCycle, ReadHf, ReadDecision, Decision, Forget, Step, MaySend, Simulated, MakesPlan, holds
<1>2. CASE LaneAnswer
  BY <1>2 DEF LaneAnswer, ReadHf, ReadDecision, Decision, Forget, Step, MaySend, Simulated, MakesPlan, holds
<1>3. CASE RepairAnswer
  BY <1>3 DEF RepairAnswer, ReadHf, ReadDecision, Decision, Forget, Step, MaySend, Simulated, MakesPlan, holds
<1>4. CASE PostCheck
  BY <1>4 DEF PostCheck, ReadHf, ReadDecision, Decision, Forget, Step, MaySend, Simulated, MakesPlan, holds
<1>5. CASE LaneAfter
  BY <1>5 DEF LaneAfter, ReadHf, ReadDecision, Decision, Forget, Step, MaySend, Simulated, MakesPlan, holds
<1>6. CASE ReadStrategy
  BY <1>6 DEF ReadStrategy, ReadHf, ReadDecision, Decision, Forget, Step, MaySend, Simulated, MakesPlan, holds
<1>7. CASE Reread
  BY <1>7 DEF Reread, ReadHf, ReadDecision, Decision, Forget, Step, MaySend, Simulated, MakesPlan, holds
<1>8. CASE AttemptDeposit
  BY <1>8 DEF AttemptDeposit, ReadHf, ReadDecision, Decision, Forget, Step, MaySend, Simulated, MakesPlan, holds
<1>9. CASE PlanDeposit
  BY <1>9 DEF PlanDeposit, ReadHf, ReadDecision, Decision, Forget, Step, MaySend, Simulated, MakesPlan, holds
<1>10. CASE PlanRebalance
  BY <1>10 DEF PlanRebalance, ReadHf, ReadDecision, Decision, Forget, Step, MaySend, Simulated, MakesPlan, holds
<1>11. CASE LatestDecision
  BY <1>11 DEF LatestDecision, ReadHf, ReadDecision, Decision, Forget, Step, MaySend, Simulated, MakesPlan, holds
<1>12. CASE AdjustHedge
  BY <1>12 DEF AdjustHedge, ReadHf, ReadDecision, Decision, Forget, Step, MaySend, Simulated, MakesPlan, holds
<1>13. CASE Compound
  BY <1>13 DEF Compound, ReadHf, ReadDecision, Decision, Forget, Step, MaySend, Simulated, MakesPlan, holds
<1>14. CASE Target
  BY <1>14 DEF Target, ReadHf, ReadDecision, Decision, Forget, Step, MaySend, Simulated, MakesPlan, holds
<1>15. CASE RunPlan
  BY <1>15 DEF RunPlan, ReadHf, ReadDecision, Decision, Forget, Step, MaySend, Simulated, MakesPlan, holds
<1>16. CASE Confirmed
  BY <1>16 DEF Confirmed
<1>17. CASE MinedLate
  BY <1>17 DEF MinedLate
<1>18. CASE Crash
  BY <1>18 DEF Crash, ReadHf, ReadDecision, Decision, Forget, Step, MaySend, Simulated, MakesPlan, holds
<1>19. ASSUME Start \/ Config \/ Topology \/ Throws \/ Reconcile \/ Status \/
             RefundBlocked \/ HfRepair \/ Checkpoint \/ Deposit \/ Rebalance
      PROVE  UNCHANGED <<known, action, fresh, retried>>
  BY <1>19 DEF Start, Config, Topology, Throws, Reconcile, Status, RefundBlocked,
              HfRepair, Checkpoint, Deposit, Rebalance, Step, Lane, MaySend, holds
<1>20. ASSUME RunStatus \/ Begin \/ Begun \/ Loop \/ LoopTarget \/ SettlesFirst \/
             PrepareFails \/ Signs \/ NotConfirmed \/ Others
      PROVE  UNCHANGED <<known, action, fresh, retried>>
  BY <1>20 DEF RunStatus, Begin, Begun, Loop, LoopTarget, SettlesFirst, PrepareFails,
              Signs, NotConfirmed, Others, Step, Lane, MaySend, holds
<1>21. CASE UNCHANGED cycleVars
  BY <1>21 DEF cycleVars, world, holds, retries
<1>22. UNCHANGED <<known, action, fresh, retried>> => HoldsOK'
  BY DEF world, holds, retries
<1> QED BY <1>1, <1>2, <1>3, <1>4, <1>5, <1>6, <1>7, <1>8, <1>9, <1>10, <1>11, <1>12,
           <1>13, <1>14, <1>15, <1>16, <1>17, <1>18, <1>19, <1>20, <1>21, <1>22
  DEF CycleNext, Keeper

LEMMA BoundsStep == BoundsOK /\ [CycleNext]_cycleVars => BoundsOK'
<1> SUFFICES ASSUME BoundsOK, [CycleNext]_cycleVars PROVE BoundsOK'
  OBVIOUS
<1> USE CycleAssumption DEF CycleAssumption, BoundsOK
<1>1. CASE NewCycle
  BY <1>1 DEF NewCycle, Forget, world
<1>2. CASE Loop
  BY <1>2 DEF Loop, world
<1>3. CASE SettlesFirst
  BY <1>3 DEF SettlesFirst, Fails, retries
<1>4. CASE PrepareFails
  BY <1>4 DEF PrepareFails, Fails, RepairFirst, Halve, RefreshFirst, Send, world, retries
<1>5. CASE Confirmed
  BY <1>5 DEF Confirmed, Effect, retries
<1>6. CASE NotConfirmed
  BY <1>6 DEF NotConfirmed, Fails, RefreshFirst, retries
<1>7. CASE Crash
  BY <1>7 DEF Crash, Forget, world
<1>8. ASSUME Start \/ Config \/ Topology \/ LaneAnswer \/ Throws \/ RepairAnswer \/
             PostCheck \/ LaneAfter \/ Reconcile \/ Status \/ RefundBlocked
      PROVE  UNCHANGED <<left, stale, hf, shrinks, crashes>>
  BY <1>8 DEF Start, Config, Topology, LaneAnswer, Throws, RepairAnswer, PostCheck,
              LaneAfter, Reconcile, Status, RefundBlocked, Step, Lane, MaySend,
              Simulated, world, holds, retries
<1>9. ASSUME ReadStrategy \/ HfRepair \/ Reread \/ Checkpoint \/ AdjustHedge \/ Deposit
             \/ AttemptDeposit \/ PlanDeposit \/ Rebalance \/ PlanRebalance \/
             LatestDecision
      PROVE  UNCHANGED <<left, stale, hf, shrinks, crashes>>
  BY <1>9 DEF ReadStrategy, HfRepair, Reread, Checkpoint, AdjustHedge, Deposit,
              AttemptDeposit, PlanDeposit, Rebalance, PlanRebalance, LatestDecision,
              Step, Lane, MaySend, Simulated, world, holds, retries
<1>10. ASSUME Compound \/ Target \/ RunStatus \/ Begin \/ Begun \/ LoopTarget \/ RunPlan
             \/ Signs \/ MinedLate \/ Others
      PROVE  UNCHANGED <<left, stale, hf, shrinks, crashes>>
  BY <1>10 DEF Compound, Target, RunStatus, Begin, Begun, LoopTarget, RunPlan, Signs,
              MinedLate, Others, Step, Lane, MaySend, Simulated, world, holds, retries
<1>11. CASE UNCHANGED cycleVars
  BY <1>11 DEF cycleVars, world, holds, retries
<1>12. UNCHANGED <<left, stale, hf, shrinks, crashes>> => BoundsOK'
  BY DEF world, holds, retries
<1> QED BY <1>1, <1>2, <1>3, <1>4, <1>5, <1>6, <1>7, <1>8, <1>9, <1>10, <1>11, <1>12
  DEF CycleNext, Keeper

(* Every step keeps what the keeper knows in line with its place. *)
LEMMA ControlStep ==
    CycleInv /\ [CycleNext]_cycleVars => (PlaceOK /\ ReturnKnown /\ KnownFine /\ StillFresh)'
<1> DEFINE Control == PlaceOK /\ ReturnKnown /\ KnownFine /\ StillFresh
<1> SUFFICES ASSUME CycleInv, [CycleNext]_cycleVars PROVE Control'
  OBVIOUS
<1> USE DEF CycleInv, CycleTypeOK, PlaceOK, HoldsOK, WorldOK, ReturnKnown, KnownFine, StillFresh,
        Labels, Trying, LaneCallers, TargetCallers, Phases, AfterFineRead, TriedWhenFine,
        AfterDecision, Simulations, Transactions, Trades, RunTrades, Goto, world, holds, retries
<1>1. CASE Start
  BY <1>1 DEF Start
<1>2. CASE Config
  BY <1>2 DEF Config, Step
<1>3. CASE Topology
  BY <1>3 DEF Topology, Step
<1>4. CASE NewCycle
  BY <1>4 DEF NewCycle, Forget
<1>5. CASE LaneAnswer
  BY <1>5 DEF LaneAnswer, ReadHf
<1>6. CASE Throws
  BY <1>6, AfterAbort DEF Throws
<1>7. CASE RepairAnswer
  BY <1>7 DEF RepairAnswer, Send, ReadHf, Repairing
<1>8. CASE PostCheck
  BY <1>8 DEF PostCheck, ReadHf, Repairing
<1>9. CASE LaneAfter
  BY <1>9, AfterAbort DEF LaneAfter, ReadHf
<1>10. CASE Reconcile
  BY <1>10 DEF Reconcile
<1>11. CASE Status
  BY <1>11 DEF Status, Step
<1>12. CASE RefundBlocked
  BY <1>12 DEF RefundBlocked, Step, MaySend, Send
<1>13. CASE ReadStrategy
  BY <1>13 DEF ReadStrategy, Step, ReadDecision, ReadHf, Decision
<1>14. CASE HfRepair
  BY <1>14 DEF HfRepair, Step
<1>15. CASE Reread
  BY <1>15 DEF Reread, Step, ReadDecision, ReadHf, Decision
<1>16. CASE Checkpoint
  BY <1>16 DEF Checkpoint, Step, Send
<1>17. CASE AdjustHedge
  BY <1>17 DEF AdjustHedge, Step, Send
<1>18. CASE Deposit
  BY <1>18 DEF Deposit, Step, DepositDue
<1>19. CASE AttemptDeposit
  BY <1>19 DEF AttemptDeposit, Step, Send, ReadHf, Decision
<1>20. CASE PlanDeposit
  BY <1>20 DEF PlanDeposit, Step, MaySend, Send, Simulated
<1>21. CASE Rebalance
  BY <1>21 DEF Rebalance, Step
<1>22. CASE PlanRebalance
  BY <1>22 DEF PlanRebalance, Step, Send, MakesPlan, ReadHf
<1>23. CASE LatestDecision
  BY <1>23 DEF LatestDecision, Step, Send, ReadHf
<1>24. CASE Compound
  BY <1>24 DEF Compound, Step, Simulated, Send
<1>25. CASE Target
  BY <1>25 DEF Target, Step, MaySend, Send, Simulated
<1>26. CASE RunStatus
  BY <1>26 DEF RunStatus, Step, Lane
<1>27. CASE Begin
  BY <1>27 DEF Begin, MaySend, Send
<1>28. CASE Begun
  BY <1>28 DEF Begun, Step
<1>29. CASE Loop
  BY <1>29 DEF Loop
<1>30. CASE LoopTarget
  BY <1>30 DEF LoopTarget
<1>31. CASE RunPlan
  BY <1>31 DEF RunPlan, Step, MaySend, Send, Simulated
<1>32. CASE SettlesFirst
  BY <1>32, AfterFailure DEF SettlesFirst, Fails
<1>33. CASE PrepareFails
  <2>1. CASE Fails
    BY <1>33, <2>1, AfterFailure DEF PrepareFails, Fails
  <2>2. CASE RepairFirst
    BY <1>33, <2>2 DEF PrepareFails, RepairFirst
  <2>3. CASE tx \in Parts /\ Halve
    BY <1>33, <2>3 DEF PrepareFails, Halve, Send, Parts
  <2>4. CASE RefreshFirst
    BY <1>33, <2>4 DEF PrepareFails, RefreshFirst, Send
  <2> QED BY <1>33, <2>1, <2>2, <2>3, <2>4 DEF PrepareFails
<1>34. CASE Signs
  BY <1>34 DEF Signs
<1>35. CASE Confirmed
  BY <1>35, AfterSuccess DEF Confirmed, Effect
<1>36. CASE NotConfirmed
  BY <1>36, AfterFailure DEF NotConfirmed, RefreshFirst, Send, Fails
<1>37. CASE MinedLate
  BY <1>37 DEF MinedLate
<1>38. CASE Crash
  BY <1>38 DEF Crash, Forget
<1>39. CASE Others
  BY <1>39 DEF Others
<1>40. CASE UNCHANGED cycleVars
  BY <1>40 DEF cycleVars
<1> QED BY <1>1, <1>2, <1>3, <1>4, <1>5, <1>6, <1>7, <1>8, <1>9, <1>10, <1>11, <1>12,
           <1>13, <1>14, <1>15, <1>16, <1>17, <1>18, <1>19, <1>20, <1>21, <1>22, <1>23,
           <1>24, <1>25, <1>26, <1>27, <1>28, <1>29, <1>30, <1>31, <1>32, <1>33, <1>34,
           <1>35, <1>36, <1>37, <1>38, <1>39, <1>40
  DEF CycleNext, Keeper

LEMMA CycleStep == CycleInv /\ [CycleNext]_cycleVars => CycleInv'
BY WorldStep, HoldsStep, BoundsStep, ControlStep DEF CycleInv, CycleTypeOK

(* The types and what the keeper knows while a cycle runs: the simulations it  *)
(* holds, the repair it owes and who holds the signer (runCycle, rebalance).   *)
THEOREM CycleInvariance == CycleSpec => []CycleInv
BY CycleStart, CycleStep, PTL DEF CycleSpec

(* Whatever the market, other keepers and late transactions do between a     *)
(* reading and the signature, no trade overtakes a repair the keeper knows of *)
(* and each rests on a simulation that its own transactions have not outdated. *)
THEOREM RepairsComeFirst == CycleSpec => []SafetyFirst
<1>1. CycleInv => SafetyFirst
  BY DEF CycleInv, KnownFine, StillFresh, SafetyFirst, Trying, TriedWhenFine, Simulations,
         Trades, RunTrades
<1> QED BY <1>1, CycleInvariance, PTL

-----------------------------------------------------------------------------
(* The refunds. First the counters by themselves: the keeper's (e), against    *)
(* what really happened to the head (real).                                  *)
LEMMA Bounds ==
  /\ Spacing \in Nat \ {0} /\ Span \in Nat /\ MinReverts \in Nat \ {0}
  /\ \A a, b \in Nat : Smaller(a, b) \in Nat /\ Smaller(a, b) <= a /\ Smaller(a, b) <= b
                       /\ (Smaller(a, b) = a \/ Smaller(a, b) = b)
BY RecoveryAssumption DEF RecoveryAssumption, Smaller

LEMMA CountersHave ==
  ASSUME NEW e \in Counters
  PROVE  /\ e.key \in Nat /\ e.failures \in 0 .. MinReverts /\ e.first \in Nat /\ e.last \in Nat
         /\ e = [key |-> e.key, failures |-> e.failures, first |-> e.first, last |-> e.last]
BY DEF Counters

LEMMA NoRevertsFields ==
  NoReverts \in Counters /\ NoReverts.key = NoKey
BY Bounds DEF NoReverts, Counters, NoKey

LEMMA OnceFields ==
  ASSUME NEW k \in Nat
  PROVE  /\ Once(k) \in Counters /\ Once(k).key = k /\ Once(k).failures = 1
         /\ Once(k).first = 0 /\ Once(k).last = 0
BY Bounds DEF Once, Counters

LEMMA OlderFields ==
  ASSUME NEW e \in Counters
  PROVE  /\ Older(e) \in Counters /\ Older(e).key = e.key /\ Older(e).failures = e.failures
         /\ e.failures # 0 => /\ Older(e).first = Smaller(e.first + 1, Span)
                              /\ Older(e).last = Smaller(e.last + 1, Spacing)
<1>1. CASE e.failures = 0
  BY <1>1 DEF Older
<1>2. CASE e.failures # 0
  <2> DEFINE n == [key |-> e.key, failures |-> e.failures,
                   first |-> Smaller(e.first + 1, Span), last |-> Smaller(e.last + 1, Spacing)]
  <2>1. Older(e) = n
    BY <1>2, CountersHave DEF Older, Counters
  <2>2. n \in Counters
    <3>1. e.first + 1 \in Nat /\ e.last + 1 \in Nat
      BY CountersHave
    <3>2. Smaller(e.first + 1, Span) \in Nat /\ Smaller(e.last + 1, Spacing) \in Nat
      BY <3>1, Bounds
    <3> QED BY <3>2, CountersHave DEF Counters
  <2> QED BY <1>2, <2>1, <2>2
<1> QED BY <1>1, <1>2, CountersHave

LEMMA OlderPersistent ==
  ASSUME NEW e \in Counters, Persistent(e)
  PROVE  Persistent(Older(e))
<1>1. CASE e.failures = 0
  BY <1>1 DEF Older
<1>2. CASE e.failures # 0
  BY <1>2, OlderFields, CountersHave, Bounds DEF Persistent, Smaller
<1> QED BY <1>1, <1>2

(* One more revert: it counts, unless the last is less than a minute ago. *)
LEMMA AnotherFields ==
  ASSUME NEW e \in Counters
  PROVE  /\ Another(e) \in Counters /\ Another(e).key = e.key /\ Another(e).first = e.first
         /\ \/ e.last >= Spacing /\ Another(e).failures = Smaller(e.failures + 1, MinReverts)
               /\ Another(e).last = 0
            \/ e.last < Spacing /\ Another(e).failures = e.failures
               /\ Another(e).last = e.last
<1>1. CASE e.last >= Spacing
  <2> DEFINE n == [key |-> e.key, failures |-> Smaller(e.failures + 1, MinReverts),
                   first |-> e.first, last |-> 0]
  <2>1. Another(e) = n
    BY <1>1, CountersHave DEF Another, Counters
  <2>2. n \in Counters
    <3>1. e.failures + 1 \in Nat
      BY CountersHave, Bounds
    <3>2. Smaller(e.failures + 1, MinReverts) \in 0 .. MinReverts
      BY <3>1, Bounds
    <3> QED BY <3>2, CountersHave DEF Counters
  <2> QED BY <1>1, <2>1, <2>2
<1>2. CASE ~(e.last >= Spacing)
  BY <1>2, CountersHave, Bounds DEF Another
<1> QED BY <1>1, <1>2

(* Counters that count nothing support everything. *)
LEMMA NothingSupported ==
  ASSUME NEW k \in Nat \ {0}, NEW real
  PROVE  Supported(NoReverts, k, real)
BY NoRevertsFields DEF Supported, NoKey

(* When the head leaves, what was counted was counted for another. *)
LEMMA NextHead ==
  ASSUME NEW k \in Nat \ {0}, NEW real, NEW e \in Counters, Supported(e, k, real)
  PROVE  Supported(e, k + 1, NoReverts)
BY CountersHave DEF Supported

(* A minute passes for the head and for the keeper alike. *)
LEMMA OlderSupported ==
  ASSUME NEW k \in Nat \ {0}, NEW real \in Counters, NEW e \in Counters, Supported(e, k, real)
  PROVE  Supported(Older(e), k, Older(real))
<1>1. Older(e).key = e.key /\ Older(e).failures = e.failures
  BY OlderFields
<1>2. CASE e.key # k
  BY <1>1, <1>2 DEF Supported
<1>3. CASE e.key = k
  <2>1. /\ e.failures # 0 /\ e.failures <= real.failures /\ e.first <= real.first
        /\ e.failures = real.failures /\ e.failures < MinReverts => e.last <= real.last
    BY <1>3 DEF Supported, NoKey
  <2>2. /\ e.failures \in Nat /\ real.failures \in Nat /\ real.failures # 0
        /\ e.first \in Nat /\ e.last \in Nat /\ real.first \in Nat /\ real.last \in Nat
    BY <2>1, CountersHave, Bounds
  <2>3. /\ Older(e).first = Smaller(e.first + 1, Span)
        /\ Older(e).last = Smaller(e.last + 1, Spacing)
        /\ Older(real).failures = real.failures
        /\ Older(real).first = Smaller(real.first + 1, Span)
        /\ Older(real).last = Smaller(real.last + 1, Spacing)
    BY <2>1, <2>2, OlderFields
  <2>4. \A a, b, c \in Nat : a <= b => Smaller(a + 1, c) <= Smaller(b + 1, c)
    BY DEF Smaller
  <2>5. Smaller(e.first + 1, Span) <= Smaller(real.first + 1, Span)
    BY <2>1, <2>2, <2>4, Bounds
  <2>6. e.last <= real.last => Smaller(e.last + 1, Spacing) <= Smaller(real.last + 1, Spacing)
    BY <2>2, <2>4, Bounds
  <2> QED BY <1>1, <1>3, <2>1, <2>3, <2>5, <2>6 DEF Supported
<1> QED BY <1>2, <1>3

(* What one more revert makes of the head's own count (Proven). *)
More(real, k) == IF real.failures = 0 THEN Once(k) ELSE Another(real)

(* After it the keeper's counters are supported, whether they include it,      *)
(* begin with it or know nothing of it.                                      *)
LEMMA MoreSupports ==
  ASSUME NEW k \in Nat \ {0}, NEW real \in Counters, NEW e \in Counters, Supported(e, k, real)
  PROVE  /\ More(real, k) \in Counters
         /\ Supported(e, k, More(real, k))
         /\ e.key = k => Supported(Another(e), k, More(real, k))
         /\ Supported(Once(k), k, More(real, k))
<1> DEFINE r == More(real, k)
<1>1. /\ e.failures \in 0 .. MinReverts /\ e.first \in Nat /\ e.last \in Nat /\ e.key \in Nat
      /\ real.failures \in 0 .. MinReverts /\ real.first \in Nat /\ real.last \in Nat
      /\ Spacing \in Nat \ {0} /\ MinReverts \in Nat \ {0}
  BY CountersHave, Bounds
<1>2. /\ r \in Counters
      /\ \/ real.failures = 0 /\ r.failures = 1
         \/ /\ real.failures # 0 /\ r.first = real.first
            /\ \/ real.last >= Spacing /\ r.last = 0
                  /\ r.failures = Smaller(real.failures + 1, MinReverts)
               \/ real.last < Spacing /\ r.failures = real.failures /\ r.last = real.last
  BY OnceFields, AnotherFields DEF More
<1> HIDE DEF r
<1>3. r.failures \in 1 .. MinReverts /\ r.first \in Nat /\ r.last \in Nat
  <2>1. r.failures # 0
    BY <1>1, <1>2 DEF Smaller
  <2> QED BY <1>1, <1>2, <2>1, CountersHave
<1>4. /\ e.key <= k /\ (e.key # NoKey => e.failures # 0)
      /\ e.key = k => /\ e.failures <= real.failures /\ e.first <= real.first
                      /\ e.failures = real.failures /\ e.failures < MinReverts =>
                           e.last <= real.last
                      /\ e.failures # 0
  BY DEF Supported, NoKey
<1>5. Supported(e, k, r)
  BY <1>1, <1>2, <1>3, <1>4 DEF Supported, Smaller
<1>6. ASSUME e.key = k PROVE Supported(Another(e), k, r)
  BY <1>1, <1>2, <1>3, <1>4, <1>6, AnotherFields DEF Supported, Smaller
<1>7. Supported(Once(k), k, r)
  BY <1>1, <1>3, OnceFields DEF Supported
<1> QED BY <1>2, <1>5, <1>6, <1>7 DEF r

-----------------------------------------------------------------------------
(* Then the steps. *)
RecoveryTyped ==
  /\ front \in Nat \ {0} /\ mature \in Nat /\ seen \in Nat
  /\ evidence \in Counters /\ file \in Counters /\ proof \in Counters
  /\ Supported(evidence, front, proof) /\ Supported(file, front, proof)

StageHolds ==
  /\ stage = "after" => seen # NoKey
  /\ stage \in {"guard", "simulate", "recheck", "send"} =>
       evidence.key = seen /\ Persistent(evidence)

LEMMA RecoveryParts ==
  /\ RecoveryInv <=> RecoveryTyped /\ StageHolds
  /\ RecoveryInv' <=> RecoveryTyped' /\ StageHolds'
BY DEF RecoveryInv, RecoveryTyped, StageHolds

LEMMA RecoveryStart == RecoveryInit => RecoveryInv
<1> SUFFICES ASSUME RecoveryInit PROVE RecoveryInv
  OBVIOUS
<1>1. RecoveryTyped
  BY NoRevertsFields, NothingSupported DEF RecoveryInit, RecoveryTyped, NoKey
<1>2. StageHolds
  BY DEF RecoveryInit, StageHolds
<1> QED BY <1>1, <1>2, RecoveryParts

(* The end of a call. *)
LEMMA ReturnStep ==
  ASSUME RecoveryInv, NEW e \in Counters, NEW result, Return(result, e),
         front' \in Nat \ {0}, mature' \in Nat, proof' \in Counters,
         Supported(e, front', proof'), Supported(file, front', proof')
  PROVE  RecoveryInv'
<1>1. RecoveryTyped'
  BY DEF RecoveryInv, RecoveryTyped, Return, NoKey
<1>2. StageHolds'
  BY DEF StageHolds, Return, ToStage
<1> QED BY <1>1, <1>2, RecoveryParts

LEMMA NothingCounted ==
  ASSUME RecoveryInv, NEW result, Return(result, NoReverts), UNCHANGED <<chain, proof>>
  PROVE  RecoveryInv'
<1>1. front' = front /\ mature' = mature /\ proof' = proof
  BY DEF chain
<1>2. front \in Nat \ {0} /\ mature \in Nat /\ proof \in Counters
      /\ Supported(file, front, proof)
  BY DEF RecoveryInv
<1> QED BY <1>1, <1>2, NoRevertsFields, NothingSupported, ReturnStep

(* Neither the head nor its reverts change. *)
LEMMA SameCounters ==
  ASSUME RecoveryInv, UNCHANGED <<front, mature, proof>>, seen' \in Nat,
         evidence' \in {evidence, file}, file' \in {evidence, file}, StageHolds'
  PROVE  RecoveryInv'
<1>1. RecoveryTyped'
  BY DEF RecoveryInv, RecoveryTyped
<1> QED BY <1>1, RecoveryParts

(* The head leaves. *)
LEMMA DequeueHolds ==
  ASSUME RecoveryInv, Dequeue
  PROVE  /\ front' \in Nat \ {0} /\ mature' \in Nat /\ proof' \in Counters
         /\ Supported(evidence, front', proof') /\ Supported(file, front', proof')
         /\ Supported(NoReverts, front', proof')
<1>1. /\ front' = front + 1 /\ proof' = NoReverts /\ front \in Nat \ {0}
      /\ evidence \in Counters /\ file \in Counters
      /\ Supported(evidence, front, proof) /\ Supported(file, front, proof)
  BY DEF RecoveryInv, Dequeue
<1>2. mature' \in Nat
  BY DEF RecoveryInv, Dequeue
<1> QED BY <1>1, <1>2, NextHead, NothingSupported, NoRevertsFields

LEMMA DequeueStep ==
  ASSUME RecoveryInv, Dequeue, UNCHANGED <<stage, seen, evidence, file>>
  PROVE  RecoveryInv'
<1>1. RecoveryTyped'
  BY DequeueHolds DEF RecoveryInv, RecoveryTyped
<1>2. StageHolds'
  BY DEF RecoveryInv, StageHolds
<1> QED BY <1>1, <1>2, RecoveryParts

LEMMA AttemptStep ==
  ASSUME RecoveryInv,
         ProcessDeposit \/ AttemptSucceeds \/ AttemptDeferred \/ AttemptFails \/ AttemptReverts
  PROVE  RecoveryInv'
<1>1. CASE ProcessDeposit
  <2>1. seen' \in Nat /\ stage' = "attempt"
    BY <1>1 DEF ProcessDeposit, ToStage, Eligible, NoKey, RecoveryInv
  <2>2. UNCHANGED <<front, mature, proof, evidence, file>>
    BY <1>1 DEF ProcessDeposit, Keep, chain
  <2> QED BY <2>1, <2>2, SameCounters DEF StageHolds
<1>2. CASE AttemptSucceeds
  BY <1>2, DequeueHolds, NoRevertsFields, ReturnStep DEF AttemptSucceeds
<1>3. CASE AttemptDeferred
  BY <1>3, NothingCounted DEF AttemptDeferred
<1>4. CASE AttemptFails
  BY <1>4, NothingCounted DEF AttemptFails
<1>5. CASE AttemptReverts
  <2>1. CASE seen = NoKey
    BY <1>5, <2>1, NothingCounted DEF AttemptReverts
  <2>2. CASE seen # NoKey
    <3>1. UNCHANGED <<front, mature, proof, seen, evidence, file>> /\ stage' = "after"
      BY <1>5, <2>2 DEF AttemptReverts, ToStage, chain
    <3> QED BY <2>2, <3>1, SameCounters DEF StageHolds, RecoveryInv
  <2> QED BY <2>1, <2>2
<1> QED BY <1>1, <1>2, <1>3, <1>4, <1>5

(* The snapshot after a revert shows the head of before: it was its own.       *)
LEMMA AfterStep ==
  ASSUME RecoveryInv, AfterRevert \/ AfterReset
  PROVE  RecoveryInv'
<1>1. ASSUME Proven, Eligible = seen, stage = "after", UNCHANGED chain
      PROVE  /\ seen = front /\ front' = front /\ mature' = mature
             /\ front' \in Nat \ {0} /\ mature' \in Nat /\ proof' \in Counters
             /\ Supported(evidence, front', proof') /\ Supported(file, front', proof')
             /\ Counted(seen) \in Counters /\ Counted(seen).key = seen
             /\ Supported(Counted(seen), front', proof')
             /\ Once(seen) \in Counters /\ Supported(Once(seen), front', proof')
  <2>1. seen = front /\ front' = front /\ mature' = mature
    BY <1>1 DEF RecoveryInv, Eligible, chain
  <2>2. proof' = More(proof, front)
    BY <1>1 DEF Proven, More
  <2>3. /\ front \in Nat \ {0} /\ mature \in Nat
        /\ evidence \in Counters /\ file \in Counters /\ proof \in Counters
        /\ Supported(evidence, front, proof) /\ Supported(file, front, proof)
    BY DEF RecoveryInv
  <2>4. CASE evidence.key = seen
    BY <2>1, <2>2, <2>3, <2>4, MoreSupports, AnotherFields, OnceFields DEF Counted
  <2>5. CASE evidence.key # seen
    BY <2>1, <2>2, <2>3, <2>5, MoreSupports, OnceFields DEF Counted
  <2> QED BY <2>4, <2>5
<1>2. CASE AfterRevert
  <2>1. Proven /\ Eligible = seen /\ stage = "after" /\ UNCHANGED chain
    BY <1>2 DEF AfterRevert
  <2>2. CASE Persistent(Counted(seen))
    <3>1. evidence' = Counted(seen) /\ stage' = "guard" /\ seen' = seen /\ file' = file
      BY <1>2, <2>2 DEF AfterRevert, ToStage
    <3>2. RecoveryTyped'
      BY <1>1, <2>1, <3>1 DEF RecoveryInv, RecoveryTyped
    <3>3. StageHolds'
      BY <1>1, <2>1, <2>2, <3>1 DEF StageHolds, Persistent
    <3> QED BY <3>2, <3>3, RecoveryParts
  <2>3. CASE ~Persistent(Counted(seen))
    <3>1. Return("failure", Counted(seen))
      BY <1>2, <2>3 DEF AfterRevert
    <3> QED BY <1>1, <2>1, <3>1, ReturnStep
  <2> QED BY <2>2, <2>3
<1>3. CASE AfterReset
  <2>1. CASE Return("failure", NoReverts) /\ UNCHANGED proof
    BY <1>3, <2>1, NothingCounted DEF AfterReset
  <2>2. CASE Eligible = seen /\ Return("failure", Once(seen)) /\ Proven
    <3>1. stage = "after" /\ UNCHANGED chain
      BY <1>3 DEF AfterReset
    <3> QED BY <1>1, <2>2, <3>1, ReturnStep
  <2> QED BY <1>3, <2>1, <2>2 DEF AfterReset
<1> QED BY <1>2, <1>3

LEMMA GuardStep ==
  ASSUME RecoveryInv,
         GuardPasses \/ GuardStops \/ BlockedHead \/ BlockedGuard
  PROVE  RecoveryInv'
<1>1. CASE GuardPasses
  <2>1. UNCHANGED <<front, mature, proof, evidence, file, seen>>
    BY <1>1 DEF GuardPasses, Keep, chain
  <2>2. stage' \in {"simulate", "recheck", "send"}
    BY <1>1 DEF GuardPasses, ToStage
  <2>3. evidence.key = seen /\ Persistent(evidence)
    BY <1>1 DEF GuardPasses, RecoveryInv
  <2> QED BY <2>1, <2>2, <2>3, SameCounters DEF StageHolds, RecoveryInv, Persistent
<1>2. CASE GuardStops
  BY <1>2, NothingCounted DEF GuardStops
<1>3. CASE BlockedHead \/ BlockedGuard
  <2>1. seen' \in Nat /\ stage' \in {"blocked", "sendBlocked", "idle"}
    BY <1>3 DEF BlockedHead, BlockedGuard, ToStage, Blocked, NoKey, RecoveryInv
  <2>2. UNCHANGED <<front, mature, proof, evidence, file>>
    BY <1>3 DEF BlockedHead, BlockedGuard, Keep, chain
  <2> QED BY <2>1, <2>2, SameCounters DEF StageHolds
<1> QED BY <1>1, <1>2, <1>3

LEMMA EndStep ==
  ASSUME RecoveryInv, NEW success \in BOOLEAN, EndSend(success), UNCHANGED <<chain, proof>>
  PROVE  RecoveryInv'
<1>1. CASE stage \in {"send", "sent"}
  BY <1>1, NothingCounted DEF EndSend
<1>2. CASE stage \notin {"send", "sent"}
  <2>1. /\ UNCHANGED <<front, mature, proof, evidence>> /\ file' \in {evidence, file}
        /\ seen' = NoKey /\ stage' = "idle"
    BY <1>2 DEF EndSend, ToStage, chain
  <2> QED BY <2>1, SameCounters DEF StageHolds, NoKey
<1> QED BY <1>1, <1>2

LEMMA SendStep ==
  ASSUME RecoveryInv, SendRefund \/ SendRefused \/ SendReturns \/ RefundMined
  PROVE  RecoveryInv'
<1>1. CASE SendRefund
  <2>1. UNCHANGED <<front, mature, proof, evidence, file, seen>>
        /\ stage' \in {"sent", "sentBlocked"}
    BY <1>1 DEF SendRefund, ToStage, chain
  <2> QED BY <2>1, SameCounters DEF StageHolds, RecoveryInv
<1>2. CASE SendRefused
  BY <1>2, EndStep DEF SendRefused
<1>3. CASE SendReturns
  BY <1>3, EndStep DEF SendReturns
<1>4. CASE RefundMined
  <2>1. CASE SendsFor(refund)
    BY <1>4, <2>1, DequeueStep DEF RefundMined
  <2>2. CASE ~SendsFor(refund)
    <3>1. UNCHANGED <<front, mature, proof, evidence, file, seen, stage>>
      BY <1>4, <2>2 DEF RefundMined, chain
    <3> QED BY <3>1, SameCounters DEF StageHolds, RecoveryInv
  <2> QED BY <2>1, <2>2
<1> QED BY <1>1, <1>2, <1>3, <1>4

LEMMA MinuteStep ==
  ASSUME RecoveryInv, Minute
  PROVE  RecoveryInv'
<1>1. /\ evidence' = Older(evidence) /\ file' = Older(file) /\ proof' = Older(proof)
      /\ UNCHANGED <<front, stage, seen>>
  BY DEF Minute
<1>2. mature' \in Nat
  BY DEF Minute, RecoveryInv
<1>3. RecoveryTyped'
  BY <1>1, <1>2, OlderFields, OlderSupported DEF RecoveryInv, RecoveryTyped
<1>4. StageHolds'
  BY <1>1, OlderFields, OlderPersistent DEF RecoveryInv, StageHolds
<1> QED BY <1>3, <1>4, RecoveryParts

LEMMA OthersStep ==
  ASSUME RecoveryInv, Request \/ Taken \/ Conditions \/ OtherActionPersists \/ Restart
  PROVE  RecoveryInv'
<1>1. CASE Request \/ Conditions
  <2>1. UNCHANGED <<front, mature, proof, evidence, file, seen, stage>>
    BY <1>1 DEF Request, Conditions, keeper
  <2> QED BY <2>1, SameCounters DEF StageHolds, RecoveryInv
<1>2. CASE Taken
  BY <1>2, DequeueStep DEF Taken, keeper
<1>3. CASE OtherActionPersists
  <2>1. /\ UNCHANGED <<front, mature, proof, evidence, seen, stage>> /\ file' = evidence
        /\ stage = "idle"
    BY <1>3 DEF OtherActionPersists, chain
  <2> QED BY <2>1, SameCounters DEF StageHolds, RecoveryInv
<1>4. CASE Restart
  <2>1. /\ UNCHANGED <<front, mature, proof, file>> /\ evidence' = file
        /\ seen' = NoKey /\ stage' = "idle"
    BY <1>4 DEF Restart, ToStage, chain
  <2> QED BY <2>1, SameCounters DEF StageHolds, NoKey
<1> QED BY <1>1, <1>2, <1>3, <1>4

LEMMA RecoveryStep == RecoveryInv /\ [RecoveryNext]_recoveryVars => RecoveryInv'
<1> SUFFICES ASSUME RecoveryInv, [RecoveryNext]_recoveryVars PROVE RecoveryInv'
  OBVIOUS
<1>1. CASE Call
  BY <1>1, AttemptStep, AfterStep, GuardStep, SendStep DEF Call
<1>2. CASE UNCHANGED recoveryVars
  BY <1>2 DEF recoveryVars, chain, keeper, RecoveryInv
<1> QED BY <1>1, <1>2, OthersStep, SendStep, MinuteStep DEF RecoveryNext

(* The keeper's counters, in memory and in the file, never run ahead of what   *)
(* happened to the head (deposit-refund-recovery.js, action-alerts.js).       *)
THEOREM RecoveryInvariance == RecoverySpec => []RecoveryInv
BY RecoveryStart, RecoveryStep, PTL DEF RecoverySpec

(* A deposit is given up on its reverts only after enough of them, really its *)
(* own, a minute apart and ten minutes since the first, for every number of    *)
(* reverts and length of time, requests, faults and restarts.                *)
THEOREM RefundsAreEarned == RecoverySpec => []RefundJustified
<1>1. RecoveryInv => RefundJustified
  <2> SUFFICES ASSUME RecoveryInv, stage \in {"guard", "simulate", "recheck", "send"},
                      seen = front
               PROVE  Persistent(proof)
    BY DEF RefundJustified
  <2>1. /\ evidence.key = front /\ Persistent(evidence) /\ Supported(evidence, front, proof)
        /\ evidence \in Counters /\ proof \in Counters
    BY DEF RecoveryInv
  <2>2. evidence.failures <= proof.failures /\ evidence.first <= proof.first
    BY <2>1 DEF Supported
  <2> QED BY <2>1, <2>2, CountersHave, Bounds DEF Persistent
<1> QED BY <1>1, RecoveryInvariance, PTL

===============================================================================

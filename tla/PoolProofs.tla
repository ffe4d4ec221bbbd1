------------------------------ MODULE PoolProofs ------------------------------
(***************************************************************************)
(* The contracts of a pool.  The circuit breaker: the holds are bounded and   *)
(* apart, for every length of pause and of recovery.  The strategy engine: a  *)
(* range is moved early only for cause, for every cooldown, epoch, width and  *)
(* set of prices and ranges.  The vault: shares add up, what is queued and    *)
(* what is owed is there and nobody is diluted, for any users and amounts.   *)
(* The hedge: an adjustment never overshoots, who leaves takes the own share,  *)
(* and neither an exit nor an urgent repair is refused to a pool that can      *)
(* afford it, for every price, threshold and balance.                        *)
(***************************************************************************)
EXTENDS PauseController, RangeStrategyEngine, Vault, HedgeManager, SumProofs

-----------------------------------------------------------------------------
(* The circuit breaker. *)
LEMMA InitInv == Init => IInv
<1> SUFFICES ASSUME Init PROVE IInv
    OBVIOUS
<1> USE PauseAssumption DEF PauseAssumption, Init
<1>1. exitOnly \in BOOLEAN /\ everHeld \in BOOLEAN
    OBVIOUS
<1>2. TypeOK
    BY <1>1 DEF TypeOK
<1>3. QED
    BY <1>2 DEF IInv, HoldIsBounded, HeldWithinPause, GapBooked, GapReserved, HeldOrOpen,
        InflowsOutlastHold, WithdrawalsPaused

(* Every transaction of the Safe and every passing of time preserves it. *)
LEMMA NextInv == IInv /\ [Next]_vars => IInv'
<1> SUFFICES ASSUME IInv, [Next]_vars PROVE IInv'
    OBVIOUS
<1> USE PauseAssumption
    DEF PauseAssumption, IInv, TypeOK, HoldIsBounded, HeldWithinPause, GapBooked, GapReserved,
        HeldOrOpen, InflowsOutlastHold, WithdrawalsPaused, pauseVars, history
<1>1. CASE Tick
  <2>1. CASE WithdrawalsPaused
      BY <1>1, <2>1 DEF Tick
  <2>2. CASE ~WithdrawalsPaused
      BY <1>1, <2>2 DEF Tick
  <2> QED BY <2>1, <2>2
<1>2. ASSUME NEW duration \in MIN_PAUSE .. MAX_INFLOWS_PAUSE, PauseInflows(duration)
      PROVE  IInv'
    BY <1>2 DEF PauseInflows
<1>3. ASSUME NEW duration \in MIN_PAUSE .. MAX_WITHDRAW_PAUSE, PauseWithdrawals(duration)
      PROVE  IInv'
  <2>1. heldFor = 0
      BY <1>3 DEF PauseWithdrawals
  <2> QED BY <1>3, <2>1 DEF PauseWithdrawals
<1>4. CASE UnpauseInflows
    BY <1>4 DEF UnpauseInflows
<1>5. CASE UnpauseWithdrawals
    BY <1>5 DEF UnpauseWithdrawals
<1>6. CASE ActivateExitOnly
    BY <1>6 DEF ActivateExitOnly
<1>7. CASE UNCHANGED vars
    BY <1>7 DEF vars
<1>8. QED
    BY <1>1, <1>2, <1>3, <1>4, <1>5, <1>6, <1>7 DEF Next

(* The controller's types and the strengthening hold in every reachable    *)
(* state, for every choice of the pause bounds.                            *)
THEOREM Invariance == Spec => []IInv
<1>1. Init => IInv
    BY InitInv
<1>2. IInv /\ [Next]_vars => IInv'
    BY NextInv
<1>3. QED
    BY <1>1, <1>2, PTL DEF Spec

(* No withdrawal hold outlasts one maximal pause, whatever the Safe does.  *)
THEOREM HoldBounded == Spec => []HoldIsBounded
<1>1. IInv => HoldIsBounded
    BY DEF IInv
<1>2. QED
    BY <1>1, Invariance, PTL

(* Inflows are stopped whenever withdrawals are held. *)
THEOREM HoldsStopInflows == Spec => []HoldStopsInflows
<1>1. IInv => HoldStopsInflows
    BY DEF IInv, TypeOK, InflowsOutlastHold, HoldStopsInflows, InflowsPaused, WithdrawalsPaused
<1>2. QED
    BY <1>1, Invariance, PTL

(* Two holds are a whole recovery window apart. *)
THEOREM GapKept == Spec => ReuseGap
<1>1. IInv /\ [Next]_vars =>
        [ (~WithdrawalsPaused /\ WithdrawalsPaused' /\ everHeld)
            => openFor >= WITHDRAWAL_RECOVERY_WINDOW ]_vars
  <2> SUFFICES ASSUME IInv, Next, ~WithdrawalsPaused, WithdrawalsPaused', everHeld
               PROVE  openFor >= WITHDRAWAL_RECOVERY_WINDOW
      BY DEF vars, pauseVars, history, WithdrawalsPaused
  <2> USE PauseAssumption DEF PauseAssumption, IInv, TypeOK, GapReserved, WithdrawalsPaused
  <2>1. ASSUME NEW duration \in MIN_PAUSE .. MAX_WITHDRAW_PAUSE, PauseWithdrawals(duration)
        PROVE  openFor >= WITHDRAWAL_RECOVERY_WINDOW
      BY <2>1 DEF PauseWithdrawals
  <2>2. ASSUME NEW duration \in MIN_PAUSE .. MAX_INFLOWS_PAUSE, PauseInflows(duration)
        PROVE  FALSE
      BY <2>2 DEF PauseInflows
  <2>3. ASSUME Tick PROVE FALSE
    <3>1. now' = now + 1 /\ withdrawalsPausedUntil' = withdrawalsPausedUntil
        BY <2>3 DEF Tick, pauseVars
    <3> QED BY <3>1
  <2>4. ~UnpauseInflows
      BY DEF UnpauseInflows
  <2>5. ~UnpauseWithdrawals
      BY DEF UnpauseWithdrawals
  <2>6. ~ActivateExitOnly
      BY DEF ActivateExitOnly
  <2> QED BY <2>1, <2>2, <2>3, <2>4, <2>5, <2>6 DEF Next
<1>2. QED
    BY <1>1, Invariance, PTL DEF Spec, ReuseGap

-----------------------------------------------------------------------------
(* The strategy engine. *)
LEMMA EngineStart == EngineInit => EngineInv
<1> SUFFICES ASSUME EngineInit PROVE EngineInv
  OBVIOUS
<1> USE EngineAssumption DEF EngineAssumption, EngineInit, Decision
<1>1. EngineTypeOK
  <2>1. /\ live \in Ticks /\ range \in Ranges /\ plan \in Ranges /\ phase \in 0 .. Epoch - 1
        /\ outFor \in -1 .. MaxOut /\ leftFor \in -1 .. MaxOut
        /\ restFor \in 0 .. Cooldown /\ rangeAge \in 0 .. Cooldown
    BY DEF Ranges
  <2>2. due \in BOOLEAN /\ executed \in BOOLEAN /\ planCurrent \in BOOLEAN
    OBVIOUS
  <2>3. decision
          \in [reason : Reasons, target : Ranges, sees : Ranges, at : Int, age : 0 .. Epoch + 1]
    BY DEF Ranges, Reasons
  <2> QED BY <2>1, <2>2, <2>3 DEF EngineTypeOK
<1>2. ClocksTrue /\ MintsStopped /\ CauseHolds
  BY DEF ClocksTrue, MintsStopped, CauseHolds
<1> QED BY <1>1, <1>2 DEF EngineInv

(* A checkpoint decides nothing but between known ranges, and for a cause.   *)
LEMMA DecisionMade ==
    ASSUME EngineTypeOK, NEW best \in Admissible \cup {range, NoRange}, NEW edge \in BOOLEAN,
           NEW out \in -1 .. MaxOut, NEW twap \in Ticks,
           NEW reason, reason = Reason(best, edge, out, twap)
    PROVE  /\ reason \in Reasons
           /\ Decision(best, reason)
                \in [reason : Reasons, target : Ranges, sees : Ranges, at : Int, age : 0 .. Epoch + 1]
           /\ Decision(best, reason).reason = reason
           /\ reason = "mint" => range = NoRange
           /\ reason = "edge" => restFor >= Cooldown
           /\ reason = "deep" => range # NoRange /\ ~InRange /\ OutsideDepth >= HalfWidth
           /\ reason = "persistent" => range # NoRange /\ ~InRange /\ out >= MaxOut
           /\ reason # "wait" => Decision(best, reason).sees = range
                                 /\ Decision(best, reason).at = live
<1> USE EngineAssumption DEF EngineAssumption
<1>1. reason \in Reasons
  BY DEF Reason, Reasons, Moving
<1>2. best \in Ranges /\ range \in Ranges /\ live \in Int
  BY DEF EngineTypeOK, Admissible, Ranges
<1>3. Decision(best, reason)
        \in [reason : Reasons, target : Ranges, sees : Ranges, at : Int, age : 0 .. Epoch + 1]
  BY <1>1, <1>2 DEF Decision, Reasons, Ranges
<1>4. Decision(best, reason).reason = reason
  BY DEF Decision
<1>5. reason # "wait" => Decision(best, reason).sees = range /\ Decision(best, reason).at = live
  BY DEF Decision
<1>6. /\ reason = "mint" => range = NoRange
      /\ reason = "deep" => range # NoRange /\ ~InRange /\ OutsideDepth >= HalfWidth
      /\ reason = "persistent" => range # NoRange /\ ~InRange /\ out >= MaxOut
  BY DEF Reason, Deep, Persistent
<1>7. reason = "edge" => restFor >= Cooldown
  BY DEF Reason, Rested
<1> QED BY <1>1, <1>3, <1>4, <1>5, <1>6, <1>7

(* The contract's clock and the history see the same exits and returns, so    *)
(* that the clock is never ahead.                                           *)
LEMMA ClockTrue ==
    ASSUME EngineTypeOK, outFor <= leftFor, NEW twap \in Ticks
    PROVE  /\ OutClock(twap) \in -1 .. MaxOut /\ Seen(twap) \in -1 .. MaxOut
           /\ OutClock(twap) <= Seen(twap)
<1> USE EngineAssumption DEF EngineAssumption
<1>1. outFor \in Int /\ leftFor \in Int /\ -1 <= outFor /\ outFor <= leftFor /\ leftFor <= MaxOut
      /\ MaxOut \in Nat
  BY DEF EngineTypeOK
<1>2. CASE range = NoRange
  BY <1>1, <1>2 DEF OutClock, Seen
<1>3. CASE range # NoRange
  <2>1. range \in Int /\ live \in Int /\ Spacing \in Nat /\ HalfWidth \in Nat
    BY <1>3 DEF EngineTypeOK, Ranges
  <2>2. Within(live, range, Spacing) => InRange
    BY <1>3, <2>1 DEF Within, InRange, Abs
  <2>3. CASE ~InRange
    BY <1>1, <1>3, <2>2, <2>3 DEF OutClock, Seen
  <2>4. CASE InRange
    BY <1>1, <1>3, <2>4 DEF OutClock, Seen
  <2> QED BY <2>3, <2>4
<1> QED BY <1>2, <1>3

(* Ages pass alike and stop at their limit. *)
LEMMA Ageing ==
    ASSUME NEW limit \in Nat, NEW a \in -1 .. limit, NEW b \in -1 .. limit
    PROVE  /\ Older(a, limit) \in -1 .. limit
           /\ a \in 0 .. limit => Older(a, limit) \in 0 .. limit
           /\ a = -1 => Older(a, limit) = -1
           /\ a >= limit => Older(a, limit) >= limit
           /\ a <= b => Older(a, limit) <= Older(b, limit)
BY DEF Older

LEMMA NextPhase == ASSUME NEW k \in 0 .. Epoch - 1 PROVE (k + 1) % Epoch \in 0 .. Epoch - 1
BY EngineAssumption DEF EngineAssumption

LEMMA EngineStep == EngineInv /\ [EngineNext]_strategyVars => EngineInv'
<1> SUFFICES ASSUME EngineInv, [EngineNext]_strategyVars PROVE EngineInv'
  OBVIOUS
<1>0. /\ EngineTypeOK /\ ClocksTrue /\ MintsStopped /\ CauseHolds
      /\ Epoch \in Nat \ {0} /\ MaxOut \in Nat /\ Cooldown \in Nat /\ HalfWidth \in Nat
      /\ Centers \subseteq Int /\ Ticks \subseteq Int /\ NoRange \notin Centers
  BY EngineAssumption DEF EngineAssumption, EngineInv
<1> USE <1>0 DEF EngineInv, rangeVars, clockVars, planVars, decisionVars
<1>1. ASSUME NEW best \in Admissible \cup {range, NoRange}, NEW edge \in BOOLEAN,
             NEW twap \in Ticks, CheckpointMarketState(best, edge, twap)
      PROVE  EngineInv'
  <2> DEFINE out == OutClock(twap)
             reason == Reason(best, edge, out, twap)
  <2>1. out \in -1 .. MaxOut /\ Seen(twap) \in -1 .. MaxOut /\ out <= Seen(twap)
    BY ClockTrue DEF ClocksTrue
  <2>2. /\ outFor' = out /\ decision' = Decision(best, reason) /\ leftFor' = Seen(twap)
        /\ due' = FALSE /\ executed' = FALSE /\ planCurrent' = FALSE
        /\ UNCHANGED <<live, range, restFor, rangeAge, phase, plan>>
    BY <1>1 DEF CheckpointMarketState
  <2>3. range = NoRange => out = -1
    BY DEF OutClock
  <2> HIDE DEF out, reason
  <2>4. /\ decision' \in [reason : Reasons, target : Ranges, sees : Ranges, at : Int,
                         age : 0 .. Epoch + 1]
        /\ decision'.reason = reason
        /\ reason = "mint" => range = NoRange
        /\ reason = "edge" => restFor >= Cooldown
        /\ reason = "deep" => range # NoRange /\ ~InRange /\ OutsideDepth >= HalfWidth
        /\ reason = "persistent" => out >= MaxOut
        /\ reason # "wait" => decision'.sees = range /\ decision'.at = live
    BY <2>1, <2>2, DecisionMade DEF reason
  <2>5. EngineTypeOK'
    BY <2>1, <2>2, <2>4 DEF EngineTypeOK
  <2>6. ClocksTrue'
    BY <2>1, <2>2 DEF ClocksTrue
  <2>7. MintsStopped'
    BY <2>2, <2>3, <2>4 DEF MintsStopped
  <2>8. CauseHolds'
    <3>1. reason = "deep" => Abs(live - range) >= 2 * HalfWidth
      <4>1. CASE range # NoRange
        <5>1. range \in Int /\ live \in Int
          BY <4>1 DEF EngineTypeOK, Ranges
        <5>2. Abs(live - range) \in Int
          BY <5>1 DEF Abs
        <5> QED BY <2>4, <5>2 DEF OutsideDepth
      <4> QED BY <2>4, <4>1
    <3>2. reason = "edge" => rangeAge' >= Cooldown
      BY <2>2, <2>4 DEF ClocksTrue
    <3>3. reason = "persistent" => leftFor' >= MaxOut
      BY <2>1, <2>2, <2>4
    <3> QED BY <2>4, <3>1, <3>2, <3>3 DEF CauseHolds
  <2> QED BY <2>5, <2>6, <2>7, <2>8
<1>2. ASSUME RecordExecution PROVE outFor' = -1 /\ executed' = TRUE
  BY <1>2 DEF RecordExecution
<1>3. ASSUME NEW r \in Ranges, Mint(r)
      PROVE  /\ range' = r /\ restFor' = 0 /\ rangeAge' = 0 /\ leftFor' = -1
             /\ r \in Centers
  BY <1>3 DEF Mint, Within, Ranges
<1>4. decision.target \in Ranges
  BY DEF EngineTypeOK
<1>5. CASE Rebalance
  <2>1. /\ range' = decision.target /\ restFor' = 0 /\ rangeAge' = 0 /\ leftFor' = -1
        /\ outFor' = -1 /\ executed' = TRUE /\ range # NoRange
        /\ UNCHANGED <<live, due, phase, decision, plan, planCurrent>>
    BY <1>2, <1>3, <1>4, <1>5 DEF Rebalance
  <2>2. EngineTypeOK'
    BY <1>4, <2>1 DEF EngineTypeOK
  <2>3. ClocksTrue' /\ CauseHolds'
    BY <2>1 DEF ClocksTrue, CauseHolds
  <2>4. MintsStopped'
    BY <2>1 DEF MintsStopped
  <2> QED BY <2>2, <2>3, <2>4
<1>6. CASE BeginCycle
  <2>1. /\ plan' = decision.target /\ planCurrent' = TRUE /\ range' = NoRange
        /\ outFor' = -1 /\ executed' = TRUE
        /\ UNCHANGED <<live, restFor, rangeAge, due, phase, decision, leftFor>>
    BY <1>2, <1>6 DEF BeginCycle
  <2>2. EngineTypeOK'
    BY <1>4, <2>1 DEF EngineTypeOK, Ranges
  <2>3. ClocksTrue'
    BY <2>1 DEF ClocksTrue, EngineTypeOK
  <2>4. MintsStopped' /\ CauseHolds'
    BY <2>1 DEF MintsStopped, CauseHolds
  <2> QED BY <2>2, <2>3, <2>4
<1>7. CASE Retarget
  <2>1. /\ plan # NoRange /\ decision.reason = "mint"
        /\ plan' = decision.target /\ planCurrent' = TRUE
        /\ UNCHANGED <<live, range, restFor, rangeAge, phase, due, outFor, decision, executed,
                       leftFor>>
    BY <1>7 DEF Retarget
  <2>2. EngineTypeOK'
    BY <1>4, <2>1 DEF EngineTypeOK
  <2>3. ClocksTrue' /\ MintsStopped' /\ CauseHolds'
    BY <2>1 DEF ClocksTrue, MintsStopped, CauseHolds
  <2> QED BY <2>2, <2>3
<1>8. CASE FinishCycle
  <2>1. /\ plan # NoRange /\ planCurrent
        /\ range' = plan /\ restFor' = 0 /\ rangeAge' = 0 /\ leftFor' = -1
        /\ plan' = NoRange /\ planCurrent' = FALSE
        /\ UNCHANGED <<live, phase, due, outFor, decision, executed>>
    BY <1>3, <1>8 DEF FinishCycle, EngineTypeOK
  <2>2. EngineTypeOK'
    <3>1. due' \in BOOLEAN /\ executed' \in BOOLEAN /\ planCurrent' \in BOOLEAN
      BY <2>1 DEF EngineTypeOK
    <3>2. /\ restFor' \in 0 .. Cooldown /\ rangeAge' \in 0 .. Cooldown
          /\ leftFor' \in -1 .. MaxOut
      BY <2>1
    <3> QED BY <2>1, <3>1, <3>2 DEF EngineTypeOK, Ranges
  <2>3. outFor = -1
    BY <2>1 DEF MintsStopped
  <2>4. ClocksTrue' /\ MintsStopped'
    BY <2>1, <2>3 DEF ClocksTrue, MintsStopped
  <2>5. executed \/ decision.reason = "mint"
    BY <2>1 DEF MintsStopped
  <2>6. CauseHolds'
    BY <2>1, <2>5 DEF CauseHolds
  <2> QED BY <2>2, <2>4, <2>6
<1>9. CASE MintInitialPosition
  <2>1. /\ plan = NoRange /\ decision.reason = "mint"
        /\ range' = decision.target /\ restFor' = 0 /\ rangeAge' = 0 /\ leftFor' = -1
        /\ UNCHANGED <<live, phase, due, outFor, decision, executed, plan, planCurrent>>
    BY <1>3, <1>4, <1>9 DEF MintInitialPosition
  <2>2. EngineTypeOK'
    BY <1>4, <2>1 DEF EngineTypeOK
  <2>3. ClocksTrue' /\ MintsStopped' /\ CauseHolds'
    BY <2>1 DEF ClocksTrue, MintsStopped, CauseHolds
  <2> QED BY <2>2, <2>3
<1>10. CASE BurnPosition
  <2>1. /\ range # NoRange /\ range' = NoRange
        /\ UNCHANGED <<live, restFor, rangeAge, phase, due, outFor, decision, executed, plan,
                       planCurrent, leftFor>>
    BY <1>10 DEF BurnPosition
  <2>2. EngineTypeOK'
    BY <2>1 DEF EngineTypeOK, Ranges
  <2>3. ClocksTrue' /\ MintsStopped' /\ CauseHolds'
    BY <2>1 DEF ClocksTrue, MintsStopped, CauseHolds
  <2> QED BY <2>2, <2>3
<1>11. CASE MoveLive
  <2>1. /\ live' \in Ticks
        /\ UNCHANGED <<range, restFor, rangeAge, phase, due, outFor, decision, executed, plan,
                       planCurrent, leftFor>>
    BY <1>11 DEF MoveLive
  <2>2. EngineTypeOK'
    BY <2>1 DEF EngineTypeOK
  <2>3. ClocksTrue' /\ MintsStopped' /\ CauseHolds'
    BY <2>1 DEF ClocksTrue, MintsStopped, CauseHolds
  <2> QED BY <2>2, <2>3
<1>12. CASE PassTime
  <2> DEFINE age == IF decision.reason = "wait" THEN 0 ELSE Older(decision.age, Epoch + 1)
  <2>1. /\ phase' = (phase + 1) % Epoch /\ due' = (due \/ phase' = 0)
        /\ outFor' = Older(outFor, MaxOut) /\ leftFor' = Older(leftFor, MaxOut)
        /\ restFor' = Older(restFor, Cooldown) /\ rangeAge' = Older(rangeAge, Cooldown)
        /\ decision' = [decision EXCEPT !.age = age]
        /\ UNCHANGED <<live, range, executed, plan, planCurrent>>
    BY <1>12 DEF PassTime
  <2>2. /\ outFor \in -1 .. MaxOut /\ leftFor \in -1 .. MaxOut
        /\ restFor \in 0 .. Cooldown /\ rangeAge \in 0 .. Cooldown
        /\ decision.age \in 0 .. Epoch + 1 /\ phase \in 0 .. Epoch - 1
        /\ restFor \in -1 .. Cooldown /\ rangeAge \in -1 .. Cooldown
        /\ decision.age \in -1 .. Epoch + 1 /\ Epoch + 1 \in Nat
    BY DEF EngineTypeOK
  <2>3. /\ outFor' \in -1 .. MaxOut /\ leftFor' \in -1 .. MaxOut
        /\ outFor = -1 => outFor' = -1
        /\ outFor <= leftFor => outFor' <= leftFor'
        /\ leftFor >= MaxOut => leftFor' >= MaxOut
    BY <2>1, <2>2, Ageing
  <2>4. /\ restFor' \in 0 .. Cooldown /\ rangeAge' \in 0 .. Cooldown
        /\ rangeAge >= Cooldown => rangeAge' >= Cooldown
    BY <2>1, <2>2, Ageing
  <2>5. age \in 0 .. Epoch + 1
    <3>1. Older(decision.age, Epoch + 1) \in 0 .. Epoch + 1
      BY <2>2, Ageing
    <3> QED BY <3>1
  <2> HIDE DEF age
  <2>6. /\ decision' \in [reason : Reasons, target : Ranges, sees : Ranges, at : Int,
                         age : 0 .. Epoch + 1]
        /\ decision'.reason = decision.reason /\ decision'.at = decision.at
        /\ decision'.sees = decision.sees
    BY <2>1, <2>5 DEF EngineTypeOK
  <2>7. phase' \in 0 .. Epoch - 1 /\ due' \in BOOLEAN
    BY <2>1, <2>2, NextPhase
  <2>8. EngineTypeOK'
    BY <2>1, <2>3, <2>4, <2>6, <2>7 DEF EngineTypeOK
  <2>9. ClocksTrue' /\ MintsStopped' /\ CauseHolds'
    BY <2>1, <2>3, <2>4, <2>6 DEF ClocksTrue, MintsStopped, CauseHolds
  <2> QED BY <2>8, <2>9
<1>13. CASE UNCHANGED strategyVars
  <2>1. EngineTypeOK'
    BY <1>13 DEF strategyVars, EngineTypeOK
  <2>2. ClocksTrue' /\ MintsStopped' /\ CauseHolds'
    BY <1>13 DEF strategyVars, ClocksTrue, MintsStopped, CauseHolds
  <2> QED BY <2>1, <2>2
<1> QED
  BY <1>1, <1>5, <1>6, <1>7, <1>8, <1>9, <1>10, <1>11, <1>12, <1>13
  DEF EngineNext, Checkpoint

(* The strategy's clocks are those of its history, and a move that may be      *)
(* taken early has its cause (RangeStrategyEngine.checkpoint).               *)
THEOREM EngineInvariance == EngineInit /\ [][EngineNext]_strategyVars => []EngineInv
BY EngineStart, EngineStep, PTL

(* No range is moved within its cooldown unless the price was half a width    *)
(* outside it, or had left this very range for MaxOut without coming back.   *)
THEOREM NoEarlyMove == EngineSpec => MovedForCause
<1> DEFINE Cause ==
      (Rebalance \/ BeginCycle) =>
        \/ rangeAge >= Cooldown
        \/ Abs(decision.at - range) >= 2 * HalfWidth
        \/ leftFor >= MaxOut
<1>1. EngineInv /\ [EngineNext]_strategyVars => [Cause]_strategyVars
  <2> SUFFICES ASSUME EngineInv, Rebalance \/ BeginCycle
               PROVE  \/ rangeAge >= Cooldown
                      \/ Abs(decision.at - range) >= 2 * HalfWidth
                      \/ leftFor >= MaxOut
    OBVIOUS
  <2>1. decision.reason \in Moving /\ Fresh
    BY DEF Rebalance, BeginCycle, RecordExecution
  <2>2. ~executed /\ range = decision.sees
    BY <2>1 DEF Fresh
  <2> QED BY <2>1, <2>2 DEF EngineInv, CauseHolds, Moving
<1>2. EngineSpec => EngineInit /\ [][EngineNext]_strategyVars
  BY DEF EngineSpec
<1> QED BY <1>1, <1>2, EngineInvariance, PTL DEF MovedForCause

-----------------------------------------------------------------------------
(***************************************************************************)
(* The vault. Products and quotients come in through these few facts only.   *)
(***************************************************************************)
LEMMA Spread ==
  ASSUME NEW a \in Nat, NEW b \in Nat, NEW k \in Nat
  PROVE  (a + b) * k = a * k + b * k /\ a * k \in Nat
OBVIOUS

LEMMA Monotone ==
  ASSUME NEW a \in Nat, NEW b \in Nat, NEW k \in Nat, a <= b
  PROVE  a * k <= b * k /\ k * a <= k * b
OBVIOUS

LEMMA Cancel ==
  ASSUME NEW a \in Nat, NEW b \in Nat, NEW k \in Nat \ {0}, a * k <= b * k
  PROVE  a <= b
<1>1. SUFFICES ASSUME b + 1 <= a PROVE FALSE
  OBVIOUS
<1>2. (b + 1) * k <= a * k
  BY <1>1, Monotone
<1>3. (b + 1) * k = b * k + k
  OBVIOUS
<1>4. a * k \in Nat /\ b * k \in Nat
  OBVIOUS
<1> DEFINE p == a * k
           q == b * k
<1>5. p \in Nat /\ q \in Nat /\ p <= q /\ q + k <= p /\ k \in Nat \ {0}
  BY <1>2, <1>3, <1>4
<1> HIDE DEF p, q
<1> QED BY <1>5

LEMMA Quotient ==
  ASSUME NEW a \in Nat, NEW d \in Nat \ {0}
  PROVE  a \div d \in Nat /\ (a \div d) * d <= a
OBVIOUS

LEMMA QuotientBelow ==
  ASSUME NEW a \in Nat, NEW b \in Nat, NEW d \in Nat \ {0}, a <= b * d
  PROVE  a \div d \in Nat /\ a \div d <= b
<1> DEFINE y == a \div d
<1>1. y \in Nat /\ y * d <= a
  BY Quotient
<1> HIDE DEF y
<1>2. SUFFICES ASSUME y > b PROVE FALSE
  BY <1>1 DEF y
<1>3. (b + 1) * d = b * d + 1 * d
  BY Spread
<1>4. (b + 1) * d <= y * d
  BY <1>1, <1>2, Monotone
<1> QED BY <1>1, <1>3, <1>4

LEMMA UserSum ==
  ASSUME NEW f \in [User -> Nat]
  PROVE  Numbers(f, User) /\ SumFunctionOnSet(f, User) \in Nat
<1>1. Numbers(f, User)
  BY VaultAssumption DEF VaultAssumption, Numbers
<1> QED BY <1>1, SumNat

LEMMA UserChange ==
  ASSUME NEW f \in [User -> Nat], NEW g \in [User -> Nat], NEW u \in User,
         \A x \in User \ {u} : g[x] = f[x]
  PROVE  /\ SumFunctionOnSet(f, User) \in Nat
         /\ f[u] <= SumFunctionOnSet(f, User)
         /\ SumFunctionOnSet(g, User) = SumFunctionOnSet(f, User) - f[u] + g[u]
<1>1. Numbers(f, User) /\ g[u] \in Nat /\ SumFunctionOnSet(f, User) \in Nat
  BY UserSum
<1> QED BY ONLY <1>1, u \in User, \A x \in User \ {u} : g[x] = f[x], SumChange

(* One user's share is one of all. *)
LEMMA UserOf ==
  ASSUME VaultTypeOK, SharesAdd, NEW u \in User, shares[u] > 0
  PROVE  /\ totalShares = UserShares + DeadShares
         /\ UserShares \in Nat /\ shares[u] <= UserShares
<1>1. shares \in [User -> Nat]
  BY DEF VaultTypeOK
<1>2. UserShares \in Nat /\ shares[u] <= UserShares
  BY <1>1, UserChange DEF UserShares
<1> QED BY <1>1, <1>2 DEF SharesAdd

(* What is distributed once fees f are collected *)
Given(f) == IF totalShares = 0 THEN distributed ELSE distributed + f

(* A debt and an accumulator that every user's shares can stand *)
Stands(acc, paid) ==
  /\ acc \in Nat /\ paid \in Nat
  /\ \A u \in User : feeDebt[u] <= shares[u] * acc
  /\ Claims(acc) <= paid * FeeUnit

LEMMA ClaimTyped ==
  ASSUME VaultTypeOK, NEW acc \in Nat, \A u \in User : feeDebt[u] <= shares[u] * acc
  PROVE  [u \in User |-> Claim(u, acc)] \in [User -> Nat]
<1>1. ASSUME NEW u \in User PROVE Claim(u, acc) \in Nat
  <2>1. /\ feesEarned[u] \in Nat /\ shares[u] \in Nat /\ feeDebt[u] \in Nat /\ FeeUnit \in Nat
        /\ feeDebt[u] <= shares[u] * acc
    BY VaultAssumption DEF VaultAssumption, VaultTypeOK
  <2>2. feesEarned[u] * FeeUnit \in Nat /\ shares[u] * acc \in Nat
    BY <2>1, Spread
  <2>3. shares[u] * acc - feeDebt[u] \in Nat
    BY <2>1, <2>2
  <2> QED BY <2>2, <2>3 DEF Claim
<1> QED BY <1>1

LEMMA UserTimes ==
  ASSUME NEW f, NEW h, NEW k, f \in [User -> Nat], k \in Nat, \A u \in User : h[u] = f[u] * k
  PROVE  SumFunctionOnSet(h, User) = SumFunctionOnSet(f, User) * k
<1>1. Numbers(f, User)
  BY UserSum
<1>2. k \in Nat /\ \A u \in User : h[u] = f[u] * k
  OBVIOUS
<1> QED BY ONLY <1>1, <1>2, SumTimes

LEMMA SharesTimes ==
  ASSUME VaultTypeOK, NEW k \in Nat, NEW h, \A u \in User : h[u] = shares[u] * k
  PROVE  SumFunctionOnSet(h, User) = UserShares * k /\ UserShares \in Nat
<1>1. UserShares \in Nat /\ shares \in [User -> Nat]
  BY UserSum DEF UserShares, VaultTypeOK
<1>2. SumFunctionOnSet(h, User) = SumFunctionOnSet(shares, User) * k
  BY <1>1, UserTimes
<1> QED BY <1>1, <1>2 DEF UserShares

(* Collected fees are divided over all shares, and what division loses is    *)
(* nobody's: the claims stay within what was given out.                      *)
LEMMA Collected ==
  ASSUME VaultInv, NEW f \in Nat
  PROVE  Stands(AccAfter(f), Given(f)) /\ accFee <= AccAfter(f)
<1> DEFINE d == IF totalShares = 0 THEN 0 ELSE (f * FeeUnit) \div totalShares
           acc == accFee + d
           before == [u \in User |-> Claim(u, accFee)]
           more == [u \in User |-> shares[u] * d]
           after == [u \in User |-> Claim(u, acc)]
<1>1. /\ VaultTypeOK /\ SharesAdd /\ accFee \in Nat /\ totalShares \in Nat /\ distributed \in Nat
      /\ shares \in [User -> Nat] /\ FeeUnit \in Nat
      /\ \A u \in User : feeDebt[u] \in Nat
  BY VaultAssumption DEF VaultAssumption, VaultInv, VaultTypeOK
<1>2. f * FeeUnit \in Nat
  BY <1>1, Spread
<1>3. d \in Nat /\ AccAfter(f) = acc
  BY <1>1, <1>2, Quotient DEF AccAfter
<1>4. d * totalShares <= Given(f) * FeeUnit - distributed * FeeUnit
  <2>1. CASE totalShares = 0
    <3>1. d = 0 /\ Given(f) = distributed
      BY <2>1 DEF Given
    <3>2. distributed * FeeUnit \in Nat
      BY <1>1, Spread
    <3>3. d * totalShares = 0
      BY <2>1, <3>1
    <3> QED BY <3>1, <3>2, <3>3
  <2>2. CASE totalShares # 0
    <3>1. d = (f * FeeUnit) \div totalShares /\ totalShares \in Nat \ {0}
      BY <1>1, <2>2
    <3>2. d * totalShares <= f * FeeUnit
      BY <1>2, <3>1, Quotient
    <3>3. Given(f) * FeeUnit = distributed * FeeUnit + f * FeeUnit /\ distributed * FeeUnit \in Nat
      BY <1>1, <2>2, Spread DEF Given
    <3> HIDE DEF d
    <3>4. d * totalShares \in Nat
      BY <1>1, <1>3, Spread
    <3> QED BY <1>2, <3>2, <3>3, <3>4
  <2> QED BY <2>1, <2>2
<1> HIDE DEF d
<1>5. \A u \in User : shares[u] * acc = shares[u] * accFee + shares[u] * d
                       /\ shares[u] * d \in Nat /\ shares[u] * accFee \in Nat
  BY <1>1, <1>3
<1>6. \A u \in User : feeDebt[u] <= shares[u] * acc
  BY <1>1, <1>5 DEF VaultInv, FeesSound
<1>7. before \in [User -> Nat] /\ more \in [User -> Nat] /\ after \in [User -> Nat]
  <2>1. acc \in Nat
    BY <1>1, <1>3
  <2>2. \A u \in User : feeDebt[u] <= shares[u] * accFee
    BY DEF VaultInv, FeesSound
  <2>3. before \in [User -> Nat]
    BY <1>1, <2>2, ClaimTyped
  <2> HIDE DEF acc
  <2>4. after \in [User -> Nat]
    BY <1>1, <1>6, <2>1, ClaimTyped
  <2> QED BY <1>5, <2>3, <2>4
<1>8. \A u \in User : after[u] = before[u] + more[u]
  <2> SUFFICES ASSUME NEW u \in User PROVE after[u] = before[u] + more[u]
    OBVIOUS
  <2>1. feesEarned[u] * FeeUnit \in Nat
    BY <1>1, Spread DEF VaultTypeOK
  <2>2. after[u] = feesEarned[u] * FeeUnit + (shares[u] * acc - feeDebt[u])
        /\ before[u] = feesEarned[u] * FeeUnit + (shares[u] * accFee - feeDebt[u])
        /\ more[u] = shares[u] * d
    BY DEF Claim
  <2> HIDE DEF before, more, after, acc
  <2> QED BY <1>1, <1>5, <2>1, <2>2
<1>9. SumFunctionOnSet(more, User) = UserShares * d /\ UserShares \in Nat
  <2>1. \A u \in User : more[u] = shares[u] * d
    OBVIOUS
  <2> HIDE DEF more
  <2> QED BY <1>1, <1>3, <2>1, SharesTimes
<1>10. UserShares * d <= d * totalShares
  <2>1. UserShares <= totalShares
    BY <1>1, <1>9, VaultAssumption DEF VaultAssumption, SharesAdd
  <2> QED BY <1>1, <1>3, <1>9, <2>1, Monotone
<1>11. Claims(acc) = Claims(accFee) + UserShares * d
  <2>1. Numbers(before, User) /\ Numbers(more, User)
    BY <1>7, UserSum
  <2> HIDE DEF before, more, after
  <2>2. SumFunctionOnSet(after, User) = SumFunctionOnSet(before, User) + SumFunctionOnSet(more, User)
    BY ONLY <1>8, <2>1, SumPlus
  <2> QED BY <1>9, <2>2 DEF Claims, before, after
<1>12. Claims(accFee) <= distributed * FeeUnit /\ Claims(accFee) \in Nat
  BY <1>7, UserSum DEF VaultInv, FeesSound, Claims
<1>13. Given(f) \in Nat
  BY <1>1 DEF Given
<1>14. Claims(acc) <= Given(f) * FeeUnit
  <2>1. /\ UserShares * d \in Nat /\ d * totalShares \in Nat
        /\ Given(f) * FeeUnit \in Nat /\ distributed * FeeUnit \in Nat
    BY <1>1, <1>3, <1>9, <1>13, Spread
  <2> HIDE DEF acc
  <2> QED BY <1>4, <1>10, <1>11, <1>12, <2>1
<1>15. acc \in Nat /\ accFee <= acc
  BY <1>1, <1>3
<1> HIDE DEF acc
<1> QED BY <1>3, <1>6, <1>13, <1>14, <1>15 DEF Stands

(***************************************************************************)
(* One user settles: claims at most e, keeps s shares and a debt for them.    *)
(***************************************************************************)
LEMMA FeesSettled ==
  ASSUME VaultTypeOK, NEW acc, Stands(acc, distributed'), accFee' = acc,
         NEW u \in User, NEW s \in Nat, NEW e \in Nat, e * FeeUnit <= Claim(u, acc),
         shares' = [shares EXCEPT ![u] = s],
         feeDebt' = [feeDebt EXCEPT ![u] = s * acc],
         feesEarned' = [feesEarned EXCEPT ![u] = e]
  PROVE  FeesSound'
<1> DEFINE before == [x \in User |-> Claim(x, acc)]
           after == [x \in User |-> Claim(x, accFee)']
<1>1. /\ acc \in Nat /\ shares \in [User -> Nat] /\ feeDebt \in [User -> Nat]
      /\ feesEarned \in [User -> Nat] /\ FeeUnit \in Nat /\ distributed' \in Nat
      /\ \A x \in User : feeDebt[x] <= shares[x] * acc
  BY VaultAssumption DEF VaultAssumption, VaultTypeOK, Stands
<1>2. s * acc \in Nat /\ e * FeeUnit \in Nat
  BY <1>1, Spread
<1>3. /\ shares'[u] = s /\ feeDebt'[u] = s * acc /\ feesEarned'[u] = e
      /\ \A x \in User \ {u} : shares'[x] = shares[x] /\ feeDebt'[x] = feeDebt[x]
                              /\ feesEarned'[x] = feesEarned[x]
  BY <1>1
<1>4. \A x \in User : feeDebt'[x] <= shares'[x] * accFee'
  <2> SUFFICES ASSUME NEW x \in User PROVE feeDebt'[x] <= shares'[x] * accFee'
    OBVIOUS
  <2>1. CASE x = u
    BY <1>2, <1>3, <2>1
  <2>2. CASE x # u
    BY <1>1, <1>3, <2>2
  <2> QED BY <2>1, <2>2
<1>5. \A x \in User \ {u} : after[x] = before[x]
  BY <1>3 DEF Claim
<1>6. after[u] = e * FeeUnit
  <2>1. after[u] = e * FeeUnit + (s * acc - s * acc)
    BY <1>3 DEF Claim
  <2> QED BY <1>2, <2>1
<1>7. before \in [User -> Nat]
  BY <1>1, ClaimTyped
<1>8. after \in [User -> Nat]
  <2>1. \A x \in User : after[x] \in Nat
    BY <1>2, <1>5, <1>6, <1>7
  <2> QED BY <2>1
<1>9. before[u] = Claim(u, acc)
  OBVIOUS
<1> HIDE DEF before, after
<1>10. /\ SumFunctionOnSet(before, User) \in Nat /\ SumFunctionOnSet(after, User) \in Nat
       /\ SumFunctionOnSet(after, User) = SumFunctionOnSet(before, User) - before[u] + after[u]
  BY <1>5, <1>7, <1>8, UserChange, UserSum
<1>11. SumFunctionOnSet(before, User) <= distributed' * FeeUnit
  BY DEF Stands, Claims, before
<1>12. SumFunctionOnSet(after, User) <= distributed' * FeeUnit
  <2>1. before[u] \in Nat /\ after[u] \in Nat /\ after[u] <= before[u]
    BY <1>6, <1>7, <1>8, <1>9
  <2>2. distributed' * FeeUnit \in Nat
    BY <1>1, Spread
  <2> QED BY <1>10, <1>11, <2>1, <2>2
<1>13. Claims(accFee)' = SumFunctionOnSet(after, User)
  BY DEF Claims, after
<1> QED BY <1>4, <1>12, <1>13 DEF FeesSound

(* Nobody settles. *)
LEMMA Unsettled ==
  ASSUME Stands(accFee', distributed'), shares' = shares, feeDebt' = feeDebt,
         feesEarned' = feesEarned
  PROVE  FeesSound'
BY DEF FeesSound, Stands, Claims, Claim

(* Rounding is in the vault's favour. *)
LEMMA CreditBounded ==
  ASSUME VaultTypeOK, NEW acc \in Nat, NEW u \in User, feeDebt[u] <= shares[u] * acc
  PROVE  /\ Credit(u, acc) \in Nat
         /\ (feesEarned[u] + Credit(u, acc)) * FeeUnit <= Claim(u, acc)
<1> DEFINE owing == shares[u] * acc - feeDebt[u]
<1>1. /\ shares[u] \in Nat /\ feeDebt[u] \in Nat /\ feesEarned[u] \in Nat
      /\ FeeUnit \in Nat \ {0}
  BY VaultAssumption DEF VaultAssumption, VaultTypeOK
<1>2. shares[u] * acc \in Nat /\ owing \in Nat
  <2>1. shares[u] * acc \in Nat
    BY <1>1, Spread
  <2> QED BY <1>1, <2>1
<1>3. Claim(u, acc) = feesEarned[u] * FeeUnit + owing
  BY DEF Claim
<1>4. Credit(u, acc) = IF shares[u] = 0 THEN 0 ELSE owing \div FeeUnit
  BY DEF Credit
<1> HIDE DEF owing
<1>5. Credit(u, acc) \in Nat /\ Credit(u, acc) * FeeUnit <= owing
  <2>1. CASE shares[u] = 0
    <3>1. Credit(u, acc) = 0 /\ 0 * FeeUnit = 0
      BY <1>1, <1>4, <2>1
    <3> QED BY <1>2, <3>1
  <2>2. CASE shares[u] # 0
    BY <1>1, <1>2, <1>4, <2>2, Quotient
  <2> QED BY <2>1, <2>2
<1>6. (feesEarned[u] + Credit(u, acc)) * FeeUnit
        = feesEarned[u] * FeeUnit + Credit(u, acc) * FeeUnit
      /\ feesEarned[u] * FeeUnit \in Nat /\ Credit(u, acc) * FeeUnit \in Nat
  BY <1>1, <1>5, Spread
<1> QED BY <1>2, <1>3, <1>5, <1>6

(* CustodyBacked's statement of the same, with rounded claims *)
LEMMA FeesFollow == VaultInv => FeesCovered
<1> SUFFICES ASSUME VaultInv PROVE FeesCovered
  OBVIOUS
<1> DEFINE exact == [u \in User |-> Claim(u, accFee)]
           paid == [u \in User |-> feesEarned[u] + Credit(u, accFee)]
           units == [u \in User |-> paid[u] * FeeUnit]
<1>1. /\ VaultTypeOK /\ accFee \in Nat /\ distributed \in Nat /\ FeeUnit \in Nat \ {0}
      /\ feesEarned \in [User -> Nat]
      /\ \A u \in User : feeDebt[u] <= shares[u] * accFee
      /\ SumFunctionOnSet(exact, User) <= distributed * FeeUnit
  BY VaultAssumption DEF VaultAssumption, VaultInv, VaultTypeOK, FeesSound, Claims
<1>2. exact \in [User -> Nat]
  BY <1>1, ClaimTyped
<1>3. ASSUME NEW u \in User PROVE paid[u] \in Nat /\ units[u] \in Nat /\ units[u] <= exact[u]
  <2>1. /\ Credit(u, accFee) \in Nat /\ feesEarned[u] \in Nat
        /\ (feesEarned[u] + Credit(u, accFee)) * FeeUnit <= Claim(u, accFee)
    BY <1>1, CreditBounded
  <2>2. paid[u] \in Nat
    BY <2>1
  <2>3. paid[u] * FeeUnit \in Nat /\ units[u] = paid[u] * FeeUnit
    BY <1>1, <2>2, Spread
  <2> QED BY <2>1, <2>2, <2>3
<1>4. paid \in [User -> Nat] /\ units \in [User -> Nat] /\ \A u \in User : units[u] = paid[u] * FeeUnit
  BY <1>3
<1>5. \A u \in User : units[u] <= exact[u]
  BY <1>3
<1>6. Numbers(exact, User) /\ Numbers(paid, User) /\ Numbers(units, User)
      /\ SumFunctionOnSet(paid, User) \in Nat /\ SumFunctionOnSet(units, User) \in Nat
      /\ SumFunctionOnSet(exact, User) \in Nat
  BY <1>2, <1>4, UserSum
<1> HIDE DEF exact, paid, units
<1>7. SumFunctionOnSet(units, User) = SumFunctionOnSet(paid, User) * FeeUnit
  <2>1. FeeUnit \in Nat
    BY <1>1
  <2> QED BY ONLY <1>4, <1>6, <2>1, SumTimes
<1>8. SumFunctionOnSet(units, User) <= SumFunctionOnSet(exact, User)
  BY ONLY <1>5, <1>6, SumAtMost
<1>9. SumFunctionOnSet(paid, User) * FeeUnit <= distributed * FeeUnit
  <2>1. distributed * FeeUnit \in Nat
    BY <1>1, Spread
  <2> QED BY <1>1, <1>6, <1>7, <1>8, <2>1
<1>10. SumFunctionOnSet(paid, User) <= distributed
  BY <1>1, <1>6, <1>9, Cancel
<1>11. \A u \in User : DebtCovered(u, accFee)
  BY <1>1 DEF DebtCovered
<1> QED BY <1>10, <1>11 DEF FeesCovered, paid

-----------------------------------------------------------------------------
(* One user's shares, or request, change. *)
LEMMA SharesChange ==
  ASSUME VaultTypeOK, NEW u \in User, NEW s \in Nat, shares' = [shares EXCEPT ![u] = s]
  PROVE  /\ UserShares \in Nat /\ shares[u] <= UserShares
         /\ UserShares' = UserShares - shares[u] + s
<1>1. shares \in [User -> Nat] /\ shares' \in [User -> Nat] /\ shares'[u] = s
      /\ \A x \in User \ {u} : shares'[x] = shares[x]
  BY DEF VaultTypeOK
<1>2. /\ SumFunctionOnSet(shares, User) \in Nat
      /\ shares[u] <= SumFunctionOnSet(shares, User)
      /\ SumFunctionOnSet(shares', User) = SumFunctionOnSet(shares, User) - shares[u] + shares'[u]
  BY <1>1, UserChange
<1> QED BY <1>1, <1>2 DEF UserShares

LEMMA RequestChange ==
  ASSUME VaultTypeOK, NEW u \in User, NEW a \in Nat, request' = [request EXCEPT ![u] = a]
  PROVE  /\ Pending \in Nat /\ request[u] <= Pending
         /\ Pending' = Pending - request[u] + a
<1>1. request \in [User -> Nat] /\ request' \in [User -> Nat] /\ request'[u] = a
      /\ \A x \in User \ {u} : request'[x] = request[x]
  BY DEF VaultTypeOK
<1>2. /\ SumFunctionOnSet(request, User) \in Nat
      /\ request[u] <= SumFunctionOnSet(request, User)
      /\ SumFunctionOnSet(request', User) = SumFunctionOnSet(request, User) - request[u] + request'[u]
  BY <1>1, UserChange
<1> QED BY <1>1, <1>2 DEF Pending

LEMMA Quiet ==
  ASSUME VaultInv, UNCHANGED <<shares, totalShares, fees>>
  PROVE  SharesAdd' /\ FeesSound'
BY DEF VaultInv, SharesAdd, UserShares, FeesSound, Claims, Claim, fees

LEMMA SameRequests ==
  ASSUME VaultInv, request' = request, held' >= held, held' \in Nat
  PROVE  (held >= Pending)'
<1>1. Pending \in Nat /\ held >= Pending /\ held \in Nat
  BY UserSum DEF VaultInv, VaultTypeOK, Pending
<1>2. Pending' = Pending
  BY DEF Pending
<1> QED BY <1>1, <1>2

LEMMA VaultStart == VaultInit => VaultInv
<1> SUFFICES ASSUME VaultInit PROVE VaultInv
  OBVIOUS
<1>1. VaultTypeOK
  <2>1. position \in BOOLEAN /\ locked \in BOOLEAN
    BY DEF VaultInit
  <2> QED BY <2>1, VaultAssumption DEF VaultAssumption, VaultInit, VaultTypeOK
<1>2. Pending = 0 /\ UserShares = 0
  BY SumZero, VaultAssumption DEF VaultAssumption, VaultInit, Pending, UserShares
<1>3. FeeUnit \in Nat /\ IsFiniteSet(User)
  BY VaultAssumption DEF VaultAssumption
<1>4. \A u \in User : Claim(u, 0) = 0
  <2>1. 0 * FeeUnit = 0 /\ 0 * 0 = 0
    BY <1>3
  <2> QED BY <2>1 DEF Claim, VaultInit
<1>5. Claims(0) = 0
  <2> DEFINE c == [u \in User |-> Claim(u, 0)]
  <2>1. \A u \in User : c[u] = 0
    BY <1>4
  <2> HIDE DEF c
  <2>2. SumFunctionOnSet(c, User) = 0
    BY <1>3, <2>1, SumZero
  <2> QED BY <2>2 DEF c, Claims
<1>6. FeesSound
  BY <1>3, <1>5 DEF FeesSound, VaultInit
<1> QED BY <1>1, <1>2, <1>6 DEF VaultInv, SharesAdd, VaultInit

(* The fees that are there to collect *)
LEMMA Collecting ==
  ASSUME VaultTypeOK, NEW f \in Collectable
  PROVE  f \in Nat /\ yield + f \in 0 .. MaxYield
BY VaultAssumption DEF VaultAssumption, VaultTypeOK, Collectable

LEMMA CollectTyped ==
  ASSUME VaultInv, NEW f \in Collectable, Collect(f)
  PROVE  /\ accFee' \in Nat /\ distributed' \in Nat /\ yield' \in 0 .. MaxYield
         /\ accFee' = AccAfter(f) /\ distributed' = Given(f)
         /\ Stands(AccAfter(f), distributed') /\ accFee <= AccAfter(f) /\ f \in Nat
<1>1. f \in Nat /\ yield + f \in 0 .. MaxYield
  BY Collecting DEF VaultInv
<1>2. Stands(AccAfter(f), Given(f)) /\ accFee <= AccAfter(f)
  BY <1>1, Collected
<1>3. accFee' = AccAfter(f) /\ distributed' = Given(f) /\ yield' = yield + f
  BY DEF Collect, Given
<1> QED BY <1>1, <1>2, <1>3 DEF Stands

(* Burning the position, by the Safe or in a rebalance *)
LEMMA BurnStep ==
  ASSUME VaultInv, NEW f, BurnTracked(f)
  PROVE  VaultInv'
<1>1. f \in Collectable /\ Collect(f)
  BY DEF BurnTracked
<1>2. /\ accFee' \in Nat /\ distributed' \in Nat /\ yield' \in 0 .. MaxYield /\ f \in Nat
      /\ Stands(accFee', distributed')
  BY <1>1, CollectTyped
<1>3. VaultTypeOK'
  <2>1. assets \in Nat /\ assets' \in Nat
    BY <1>2 DEF VaultInv, VaultTypeOK, BurnTracked
  <2>2. position' \in BOOLEAN /\ locked' \in BOOLEAN
    BY DEF VaultInv, VaultTypeOK, BurnTracked
  <2> QED BY <1>2, <2>1, <2>2 DEF VaultInv, VaultTypeOK, BurnTracked, queued
<1>4. SharesAdd'
  BY DEF VaultInv, SharesAdd, UserShares, BurnTracked
<1>5. FeesSound'
  BY <1>2, Unsettled DEF BurnTracked
<1>6. (held >= Pending)'
  BY SameRequests DEF VaultInv, VaultTypeOK, BurnTracked, queued
<1> QED BY <1>3, <1>4, <1>5, <1>6 DEF VaultInv

(* Requests come and go with their tokens. *)
LEMMA RequestStep ==
  ASSUME VaultInv, NEW u \in User,
         (\E a \in Amount : Deposit(u, a)) \/ RefundStaleDeposit(u)
  PROVE  VaultInv'
<1>1. /\ request \in [User -> Nat] /\ wallet \in [User -> Nat] /\ held \in Nat
      /\ held >= Pending /\ Amount \subseteq Nat /\ VaultTypeOK
  BY VaultAssumption DEF VaultAssumption, VaultInv, VaultTypeOK
<1>2. UNCHANGED <<assets, position, shares, totalShares, since, fees, yield, locked, mode>>
  BY DEF Deposit, RefundStaleDeposit
<1>3. request' \in [User -> Nat] /\ wallet' \in [User -> Nat] /\ held' \in Nat /\ held' >= Pending'
  <2>1. ASSUME NEW a \in Amount, Deposit(u, a)
        PROVE  request' \in [User -> Nat] /\ wallet' \in [User -> Nat] /\ held' \in Nat
               /\ held' >= Pending'
    <3>1. /\ request[u] = 0 /\ wallet[u] >= a /\ a \in Nat
          /\ request' = [request EXCEPT ![u] = a]
          /\ wallet' = [wallet EXCEPT ![u] = @ - a]
          /\ held' = held + a
      BY <1>1, <2>1 DEF Deposit, Book!Request
    <3>2. Pending \in Nat /\ Pending' = Pending - request[u] + a
      BY <1>1, <3>1, RequestChange
    <3>3. wallet[u] - a \in Nat
      BY <1>1, <3>1
    <3> QED BY <1>1, <3>1, <3>2, <3>3
  <2>2. ASSUME RefundStaleDeposit(u)
        PROVE  request' \in [User -> Nat] /\ wallet' \in [User -> Nat] /\ held' \in Nat
               /\ held' >= Pending'
    <3>1. /\ held >= request[u] /\ request[u] \in Nat /\ wallet[u] \in Nat
          /\ request' = [request EXCEPT ![u] = 0]
          /\ wallet' = [wallet EXCEPT ![u] = @ + request[u]]
          /\ held' = held - request[u]
      BY <1>1, <2>2 DEF RefundStaleDeposit, Book!Return
    <3>2. Pending \in Nat /\ Pending' = Pending - request[u] + 0
      BY <1>1, <3>1, RequestChange
    <3> QED BY <1>1, <3>1, <3>2
  <2> QED BY <2>1, <2>2
<1>4. VaultTypeOK'
  BY <1>1, <1>2, <1>3 DEF VaultTypeOK, fees
<1>5. SharesAdd' /\ FeesSound'
  BY <1>2, Quiet
<1> QED BY <1>3, <1>4, <1>5 DEF VaultInv

(* Shares for a deposit, while somebody has shares and while nobody has *)
LEMMA Minting ==
  ASSUME VaultInv, NEW u \in User, NEW c \in Nat, NEW nav \in Nat,
         totalShares > DeadShares => nav > 0,
         totalShares <= DeadShares => (c + nav) * Scale > DeadShares
  PROVE  /\ SharesFor(c, nav) \in Nat /\ BaseShares \in Nat
         /\ (/\ shares' = [shares EXCEPT ![u] = shares[u] + SharesFor(c, nav)]
             /\ totalShares' = BaseShares + SharesFor(c, nav)) => SharesAdd'
<1>1. /\ VaultTypeOK /\ totalShares \in Nat /\ DeadShares \in Nat \ {0} /\ Scale \in Nat
      /\ shares[u] \in Nat /\ UserShares \in Nat /\ shares[u] <= UserShares
  <2>1. shares \in [User -> Nat] /\ VaultTypeOK
    BY DEF VaultInv, VaultTypeOK
  <2>2. UserShares \in Nat /\ shares[u] <= UserShares
    BY <2>1, UserChange DEF UserShares
  <2> QED BY <2>1, <2>2, VaultAssumption DEF VaultAssumption, VaultTypeOK
<1>2. SharesFor(c, nav) \in Nat
  <2>1. CASE totalShares <= DeadShares
    <3>1. (c + nav) * Scale \in Nat
      BY <1>1, Spread
    <3>2. SharesFor(c, nav) = (c + nav) * Scale - DeadShares
      BY <2>1 DEF SharesFor
    <3> QED BY <1>1, <2>1, <3>1, <3>2
  <2>2. CASE ~(totalShares <= DeadShares)
    <3>1. nav \in Nat \ {0} /\ c * totalShares \in Nat
      BY <1>1, <2>2, Spread
    <3>2. SharesFor(c, nav) = (c * totalShares) \div nav
      BY <2>2 DEF SharesFor
    <3> QED BY <3>1, <3>2, Quotient
  <2> QED BY <2>1, <2>2
<1>3. BaseShares \in Nat
  BY <1>1 DEF BaseShares
<1>4. ASSUME shares' = [shares EXCEPT ![u] = shares[u] + SharesFor(c, nav)],
             totalShares' = BaseShares + SharesFor(c, nav)
      PROVE  SharesAdd'
  <2> DEFINE minted == SharesFor(c, nav)
  <2>1. shares[u] + minted \in Nat /\ minted \in Nat
    BY <1>1, <1>2
  <2>2. UserShares' = UserShares - shares[u] + (shares[u] + minted)
    BY <1>1, <1>4, <2>1, SharesChange
  <2>3. totalShares' = BaseShares + minted
    BY <1>4
  <2> HIDE DEF minted
  <2>4. UserShares' = UserShares + minted
    BY <1>1, <2>1, <2>2
  <2>5. CASE totalShares <= DeadShares
    <3>1. UserShares = 0 /\ BaseShares = DeadShares
      BY <1>1, <2>5 DEF VaultInv, SharesAdd, BaseShares
    <3>2. totalShares' = UserShares' + DeadShares
      BY <1>1, <2>1, <2>3, <2>4, <3>1
    <3> QED BY <3>2 DEF SharesAdd
  <2>6. CASE ~(totalShares <= DeadShares)
    <3>1. totalShares = UserShares + DeadShares /\ BaseShares = totalShares
      BY <1>1, <2>6 DEF VaultInv, SharesAdd, BaseShares
    <3>2. totalShares' = UserShares' + DeadShares
      BY <1>1, <2>1, <2>3, <2>4, <3>1
    <3> QED BY <3>2 DEF SharesAdd
  <2> QED BY <2>5, <2>6
<1> QED BY <1>2, <1>3, <1>4

LEMMA ProcessStep ==
  ASSUME VaultInv, NEW u \in User, ProcessDepositPermissionless(u)
  PROVE  VaultInv'
<1>1. PICK f \in Collectable, c \in 1 .. request[u] :
        LET nav    == assets + f
            minted == SharesFor(c, nav)
            acc    == AccAfter(f)
        IN  /\ totalShares > DeadShares => nav > 0
            /\ totalShares <= DeadShares => (c + nav) * Scale > DeadShares
            /\ Book!Forward(u)
            /\ assets' = nav + c
            /\ position' = TRUE
            /\ Collect(f)
            /\ feesEarned' = [feesEarned EXCEPT ![u] = @ + Credit(u, acc)]
            /\ shares' = [shares EXCEPT ![u] = @ + minted]
            /\ FeeCheckpoint(u, shares[u] + minted, acc)
            /\ totalShares' = BaseShares + minted
            /\ since' = [since EXCEPT ![u] = "fresh"]
            /\ UNCHANGED <<locked, mode>>
  BY DEF ProcessDepositPermissionless
<1> DEFINE nav == assets + f
           minted == SharesFor(c, nav)
           acc == AccAfter(f)
           e == feesEarned[u] + Credit(u, acc)
<1>2. /\ VaultTypeOK /\ request \in [User -> Nat] /\ wallet \in [User -> Nat] /\ held \in Nat
      /\ shares \in [User -> Nat] /\ feeDebt \in [User -> Nat] /\ feesEarned \in [User -> Nat]
      /\ assets \in Nat /\ held >= Pending
  BY DEF VaultInv, VaultTypeOK
<1>3. /\ accFee' \in Nat /\ distributed' \in Nat /\ yield' \in 0 .. MaxYield
      /\ accFee' = acc /\ Stands(acc, distributed') /\ f \in Nat
  BY <1>1, CollectTyped
<1>4. c \in Nat /\ nav \in Nat
  BY <1>2, <1>3
<1>5. minted \in Nat /\ BaseShares \in Nat /\ SharesAdd'
  <2>1. shares' = [shares EXCEPT ![u] = shares[u] + SharesFor(c, nav)]
        /\ totalShares' = BaseShares + SharesFor(c, nav)
    BY <1>1
  <2>2. /\ totalShares > DeadShares => nav > 0
        /\ totalShares <= DeadShares => (c + nav) * Scale > DeadShares
    BY <1>1
  <2> HIDE DEF nav
  <2> QED BY <1>4, <2>1, <2>2, Minting
<1>6. e \in Nat /\ e * FeeUnit <= Claim(u, acc)
  <2>1. feeDebt[u] <= shares[u] * acc /\ acc \in Nat
    BY <1>3 DEF Stands
  <2>2. Credit(u, acc) \in Nat /\ (feesEarned[u] + Credit(u, acc)) * FeeUnit <= Claim(u, acc)
    BY <1>2, <2>1, CreditBounded
  <2>3. feesEarned[u] \in Nat
    BY <1>2
  <2> QED BY <2>2, <2>3
<1>7. /\ shares' = [shares EXCEPT ![u] = shares[u] + minted]
      /\ feeDebt' = [feeDebt EXCEPT ![u] = (shares[u] + minted) * acc]
      /\ feesEarned' = [feesEarned EXCEPT ![u] = e]
      /\ request' = [request EXCEPT ![u] = 0] /\ held' = held - request[u] /\ held >= request[u]
      /\ wallet' = wallet /\ assets' = nav + c /\ position' = TRUE
      /\ totalShares' = BaseShares + minted
      /\ since' = [since EXCEPT ![u] = "fresh"] /\ locked' = locked /\ mode' = mode
  BY <1>1 DEF FeeCheckpoint, Book!Forward
<1> HIDE DEF nav, minted, acc, e
<1>8. shares[u] + minted \in Nat /\ (shares[u] + minted) * acc \in Nat
  <2>1. shares[u] + minted \in Nat /\ acc \in Nat
    BY <1>2, <1>3, <1>5
  <2> QED BY <2>1, Spread
<1>9. FeesSound'
  BY <1>2, <1>3, <1>6, <1>7, <1>8, FeesSettled
<1>10. held' \in Nat /\ held' >= Pending'
  <2>1. Pending \in Nat /\ request[u] <= Pending /\ Pending' = Pending - request[u] + 0
    BY <1>2, <1>7, RequestChange
  <2>2. request[u] \in Nat
    BY <1>2
  <2> QED BY <1>2, <1>7, <2>1, <2>2
<1>11. VaultTypeOK'
  <2>1. /\ shares' \in [User -> Nat] /\ feeDebt' \in [User -> Nat] /\ feesEarned' \in [User -> Nat]
        /\ request' \in [User -> Nat] /\ wallet' \in [User -> Nat]
    BY <1>2, <1>6, <1>7, <1>8
  <2>2. assets' \in Nat /\ totalShares' \in Nat
    BY <1>4, <1>5, <1>7
  <2>3. since' \in [User -> {"fresh", "cooling", "rested"}] /\ mode' \in Modes
    BY <1>2, <1>7 DEF VaultTypeOK
  <2>4. position' \in BOOLEAN /\ locked' \in BOOLEAN
    BY <1>2, <1>7 DEF VaultTypeOK
  <2> QED BY <1>3, <1>10, <2>1, <2>2, <2>3, <2>4 DEF VaultTypeOK
<1> QED BY <1>5, <1>9, <1>10, <1>11 DEF VaultInv

(* A fraction of what was earned is no more than all of it. *)
LEMMA Kept ==
  ASSUME VaultTypeOK, NEW u \in User, NEW s \in 1 .. shares[u], NEW earned \in Nat
  PROVE  KeptFees(u, s, earned) \in Nat /\ KeptFees(u, s, earned) <= earned
<1> DEFINE pct == (s * PctUnit) \div shares[u]
           rest == PctUnit - pct
<1>1. /\ shares[u] \in Nat \ {0} /\ s \in Nat /\ s <= shares[u] /\ PctUnit \in Nat \ {0}
  BY VaultAssumption DEF VaultAssumption, VaultTypeOK
<1>2. pct \in Nat /\ pct <= PctUnit
  <2>1. s * PctUnit \in Nat /\ s * PctUnit <= PctUnit * shares[u]
    BY <1>1, Spread, Monotone
  <2>2. pct \in Nat /\ pct * shares[u] <= s * PctUnit
    BY <1>1, <2>1, Quotient
  <2> HIDE DEF pct
  <2>3. pct * shares[u] \in Nat /\ PctUnit * shares[u] \in Nat
    BY <1>1, <2>2, Spread
  <2>4. pct * shares[u] <= PctUnit * shares[u]
    BY <2>1, <2>2, <2>3
  <2> QED BY <1>1, <2>2, <2>4, Cancel
<1>3. KeptFees(u, s, earned) = IF s = shares[u] THEN 0 ELSE (earned * rest) \div PctUnit
  BY DEF KeptFees
<1> HIDE DEF pct
<1>4. rest \in Nat /\ rest <= PctUnit
  BY <1>1, <1>2
<1> HIDE DEF rest
<1>5. CASE s = shares[u]
  BY <1>3, <1>5
<1>6. CASE s # shares[u]
  <2> DEFINE kept == (earned * rest) \div PctUnit
  <2>1. earned * rest \in Nat /\ earned * rest <= earned * PctUnit /\ earned * PctUnit \in Nat
    BY <1>1, <1>4, Spread, Monotone
  <2>2. kept \in Nat /\ kept * PctUnit <= earned * rest
    BY <1>1, <2>1, Quotient
  <2> HIDE DEF kept
  <2>3. kept * PctUnit \in Nat
    BY <1>1, <2>2, Spread
  <2>4. kept * PctUnit <= earned * PctUnit
    BY <2>1, <2>2, <2>3
  <2>5. kept <= earned
    BY <1>1, <2>2, <2>4, Cancel
  <2> QED BY <1>3, <1>6, <2>2, <2>5 DEF kept
<1> QED BY <1>5, <1>6

(* What a withdrawal settles in two steps, before and after it collects f    *)
Earned(u, f) == feesEarned[u] + Credit(u, accFee)
                  + (shares[u] * (AccAfter(f) - accFee)) \div FeeUnit

LEMMA TwoCredits ==
  ASSUME VaultInv, NEW u \in User, NEW f \in Nat
  PROVE  Earned(u, f) \in Nat /\ Earned(u, f) * FeeUnit <= Claim(u, AccAfter(f))
<1> DEFINE d == AccAfter(f) - accFee
           q == (shares[u] * d) \div FeeUnit
           first == feesEarned[u] + Credit(u, accFee)
<1>1. /\ VaultTypeOK /\ shares[u] \in Nat /\ accFee \in Nat /\ FeeUnit \in Nat \ {0}
      /\ feeDebt[u] \in Nat /\ feesEarned[u] \in Nat /\ feeDebt[u] <= shares[u] * accFee
  BY VaultAssumption DEF VaultAssumption, VaultInv, VaultTypeOK, FeesSound
<1>2. AccAfter(f) \in Nat /\ accFee <= AccAfter(f)
  BY Collected DEF Stands
<1>3. d \in Nat /\ AccAfter(f) = accFee + d
  BY <1>1, <1>2
<1>4. Earned(u, f) = first + q
  BY DEF Earned
<1> HIDE DEF d
<1>5. Claim(u, AccAfter(f)) = Claim(u, accFee) + shares[u] * d
  <2>1. /\ shares[u] * AccAfter(f) = shares[u] * accFee + shares[u] * d
        /\ shares[u] * accFee \in Nat /\ shares[u] * d \in Nat /\ feesEarned[u] * FeeUnit \in Nat
    BY <1>1, <1>3
  <2> QED BY <1>1, <2>1 DEF Claim
<1>6. first \in Nat /\ first * FeeUnit <= Claim(u, accFee)
  <2>1. Credit(u, accFee) \in Nat /\ first * FeeUnit <= Claim(u, accFee)
    BY <1>1, CreditBounded
  <2> QED BY <1>1, <2>1
<1>7. Claim(u, accFee) \in Nat
  BY <1>1, Spread DEF Claim
<1>8. shares[u] * d \in Nat
  BY <1>1, <1>3, Spread
<1>9. q \in Nat /\ q * FeeUnit <= shares[u] * d
  BY <1>1, <1>8, Quotient
<1> HIDE DEF q, first
<1>10. (first + q) * FeeUnit = first * FeeUnit + q * FeeUnit
       /\ first * FeeUnit \in Nat /\ q * FeeUnit \in Nat
  BY <1>1, <1>6, <1>9, Spread
<1>11. (first + q) * FeeUnit <= Claim(u, AccAfter(f))
  BY <1>5, <1>6, <1>7, <1>8, <1>9, <1>10
<1> QED BY <1>4, <1>6, <1>9, <1>11

LEMMA Drawn ==
  ASSUME NEW s, NEW all, NEW out \in Withdrawn(s, all)
  PROVE  /\ out = all \/ out = (all * s) \div totalShares \/ out \in 0 .. (all * s) \div totalShares
         /\ ~(totalShares - s <= DeadShares) =>
              out = (all * s) \div totalShares \/ out \in 0 .. (all * s) \div totalShares
<1> DEFINE part == (all * s) \div totalShares
<1>1. out \in IF totalShares - s <= DeadShares THEN {all}
             ELSE IF position THEN {x \in 0 .. part : x + MaxSlip >= part} ELSE {part}
  BY DEF Withdrawn
<1> HIDE DEF part
<1>2. CASE totalShares - s <= DeadShares
  BY <1>1, <1>2 DEF part
<1>3. CASE ~(totalShares - s <= DeadShares)
  <2>1. out = part \/ out \in 0 .. part
    BY <1>1, <1>3
  <2> QED BY <1>3, <2>1 DEF part
<1> QED BY <1>2, <1>3

LEMMA WithdrawStep ==
  ASSUME VaultInv, NEW u \in User, NEW s \in 1 .. shares[u], Withdraw(u, s)
  PROVE  VaultInv'
<1> DEFINE all(f) == assets + f
           part(f) == (all(f) * s) \div totalShares
<1>a. PICK f \in Collectable : \E out \in Withdrawn(s, assets + f) :
        /\ Collect(f)
        /\ feesEarned' = [feesEarned EXCEPT ![u] = KeptFees(u, s, Earned(u, f))]
        /\ shares' = [shares EXCEPT ![u] = @ - s]
        /\ FeeCheckpoint(u, shares[u] - s, AccAfter(f))
        /\ totalShares' = totalShares - s
        /\ assets' = (assets + f) - out
        /\ SendDelta(u, out)
        /\ position' = (position /\ ~(totalShares - s <= DeadShares))
        /\ UNCHANGED <<request, since, locked, mode>>
  BY Zenon DEF Withdraw, Earned
<1>0. PICK out \in Withdrawn(s, assets + f) :
        /\ Collect(f)
        /\ feesEarned' = [feesEarned EXCEPT ![u] = KeptFees(u, s, Earned(u, f))]
        /\ shares' = [shares EXCEPT ![u] = @ - s]
        /\ FeeCheckpoint(u, shares[u] - s, AccAfter(f))
        /\ totalShares' = totalShares - s
        /\ assets' = (assets + f) - out
        /\ SendDelta(u, out)
        /\ position' = (position /\ ~(totalShares - s <= DeadShares))
        /\ UNCHANGED <<request, since, locked, mode>>
  BY <1>a, Zenon
<1>1. /\ f \in Collectable
      /\ out = all(f) \/ out = part(f) \/ out \in 0 .. part(f)
      /\ Collect(f)
      /\ feesEarned' = [feesEarned EXCEPT ![u] = KeptFees(u, s, Earned(u, f))]
      /\ shares' = [shares EXCEPT ![u] = @ - s]
      /\ FeeCheckpoint(u, shares[u] - s, AccAfter(f))
      /\ totalShares' = totalShares - s
      /\ assets' = all(f) - out
      /\ SendDelta(u, out)
      /\ position' \in BOOLEAN
      /\ UNCHANGED <<request, since, locked, mode>>
  <2>1. out = all(f) \/ out = part(f) \/ out \in 0 .. part(f)
    BY Drawn
  <2>2. position' \in BOOLEAN
    BY <1>0
  <2>3. assets' = all(f) - out
    BY <1>0
  <2> QED BY <1>0, <2>1, <2>2, <2>3, Zenon
<1>2. /\ VaultTypeOK /\ shares \in [User -> Nat] /\ feeDebt \in [User -> Nat]
      /\ feesEarned \in [User -> Nat] /\ wallet \in [User -> Nat] /\ held \in Nat
      /\ assets \in Nat /\ totalShares \in Nat /\ DeadShares \in Nat \ {0} /\ FeeUnit \in Nat
  BY VaultAssumption DEF VaultAssumption, VaultInv, VaultTypeOK
<1>3. /\ accFee' \in Nat /\ distributed' \in Nat /\ yield' \in 0 .. MaxYield
      /\ accFee' = AccAfter(f) /\ Stands(AccAfter(f), distributed') /\ f \in Nat
  BY <1>1, CollectTyped
<1>4. /\ s \in Nat /\ s <= shares[u] /\ shares[u] - s \in Nat /\ shares[u] > 0
      /\ totalShares = UserShares + DeadShares /\ UserShares \in Nat /\ shares[u] <= UserShares
  <2>1. shares[u] \in Nat /\ shares[u] > 0 /\ s \in Nat /\ s <= shares[u]
    BY <1>2
  <2> QED BY <1>2, <2>1, UserOf DEF VaultInv
<1>5. out \in Nat /\ all(f) - out \in Nat
  <2>1. all(f) \in Nat /\ all(f) * s \in Nat /\ totalShares \in Nat \ {0} /\ s <= totalShares
    <3>1. all(f) \in Nat
      BY <1>2, <1>3
    <3> HIDE DEF all
    <3> QED BY <1>2, <1>4, <3>1, Spread
  <2>2. part(f) \in Nat /\ part(f) <= all(f)
    <3> DEFINE p == part(f)
               x == all(f)
    <3>1. p \in Nat /\ p * totalShares <= x * s
      BY <2>1, Quotient
    <3>2. x \in Nat /\ x * s \in Nat
      BY <2>1
    <3> HIDE DEF p, x
    <3>3. x * s <= x * totalShares /\ x * totalShares \in Nat /\ p * totalShares \in Nat
      BY <1>4, <2>1, <3>1, <3>2, Spread, Monotone
    <3>4. p * totalShares <= x * totalShares
      BY <3>1, <3>2, <3>3
    <3>5. p <= x
      BY <2>1, <3>1, <3>2, <3>4, Cancel
    <3> QED BY <3>1, <3>5 DEF p, x
  <2> HIDE DEF all, part
  <2> QED BY <1>1, <2>1, <2>2
<1>6. KeptFees(u, s, Earned(u, f)) \in Nat
      /\ KeptFees(u, s, Earned(u, f)) * FeeUnit <= Claim(u, AccAfter(f))
  <2> DEFINE kept == KeptFees(u, s, Earned(u, f))
             e == Earned(u, f)
  <2>1. e \in Nat /\ e * FeeUnit <= Claim(u, AccAfter(f))
    BY <1>3, TwoCredits
  <2>2. kept \in Nat /\ kept <= e
    BY <1>2, <2>1, Kept
  <2>3. Claim(u, AccAfter(f)) \in Nat
    <3>1. [x \in User |-> Claim(x, AccAfter(f))] \in [User -> Nat]
      BY <1>2, <1>3, ClaimTyped DEF Stands
    <3> QED BY <3>1
  <2> HIDE DEF kept, e
  <2>4. kept * FeeUnit <= e * FeeUnit /\ kept * FeeUnit \in Nat /\ e * FeeUnit \in Nat
    BY <1>2, <2>1, <2>2, Spread, Monotone
  <2>5. kept * FeeUnit <= Claim(u, AccAfter(f))
    BY <2>1, <2>3, <2>4
  <2> QED BY <2>2, <2>5 DEF kept
<1> DEFINE k == KeptFees(u, s, Earned(u, f))
           t == shares[u] - s
           acc == AccAfter(f)
<1>7. /\ shares' = [shares EXCEPT ![u] = t]
      /\ feeDebt' = [feeDebt EXCEPT ![u] = t * acc]
      /\ feesEarned' = [feesEarned EXCEPT ![u] = k]
      /\ wallet' = [wallet EXCEPT ![u] = @ + out] /\ held' = held
      /\ totalShares' = totalShares - s /\ assets' = all(f) - out /\ position' \in BOOLEAN
      /\ request' = request /\ since' = since /\ locked' = locked /\ mode' = mode
  BY <1>1 DEF FeeCheckpoint, SendDelta
<1>8. t \in Nat /\ t = shares[u] - s
  BY <1>4
<1> HIDE DEF k, t, acc
<1>9. acc \in Nat /\ k \in Nat /\ t * acc \in Nat
  <2>1. acc \in Nat /\ k \in Nat
    BY <1>3, <1>6 DEF acc, k
  <2> QED BY <1>8, <2>1, Spread
<1>10. FeesSound'
  <2>1. k * FeeUnit <= Claim(u, acc) /\ Stands(acc, distributed') /\ accFee' = acc
    BY <1>3, <1>6 DEF k, acc
  <2> QED BY <1>2, <1>7, <1>8, <1>9, <2>1, FeesSettled
<1>11. totalShares' \in Nat /\ SharesAdd'
  <2>1. UserShares' = UserShares - shares[u] + t
    BY <1>2, <1>7, <1>8, SharesChange
  <2>2. totalShares' = UserShares' + DeadShares /\ totalShares' \in Nat
    BY <1>2, <1>4, <1>7, <1>8, <2>1
  <2> QED BY <2>2 DEF SharesAdd
<1>12. (held >= Pending)'
  BY <1>2, <1>7, SameRequests
<1>13. VaultTypeOK'
  <2>1. /\ shares' \in [User -> Nat] /\ feeDebt' \in [User -> Nat] /\ feesEarned' \in [User -> Nat]
    BY <1>2, <1>7, <1>8, <1>9
  <2>2. wallet' \in [User -> Nat] /\ assets' \in Nat /\ held' \in Nat
    BY <1>2, <1>5, <1>7
  <2>3. /\ request' \in [User -> Nat] /\ since' \in [User -> {"fresh", "cooling", "rested"}]
        /\ mode' \in Modes /\ locked' \in BOOLEAN /\ position' \in BOOLEAN
    BY <1>2, <1>7 DEF VaultTypeOK
  <2> QED BY <1>3, <1>11, <2>1, <2>2, <2>3 DEF VaultTypeOK
<1> QED BY <1>10, <1>11, <1>12, <1>13 DEF VaultInv

LEMMA Recovering ==
  ASSUME VaultInv, NEW u \in User
  PROVE  /\ FreeTokens \in Nat /\ RecoverPart(u) \in Nat
         /\ RecoverRange(u) \in Nat /\ RecoverRange(u) <= assets
<1>1. /\ VaultTypeOK /\ held \in Nat /\ assets \in Nat /\ totalShares \in Nat
      /\ shares[u] \in Nat /\ DeadShares \in Nat \ {0} /\ held >= Pending
  BY VaultAssumption DEF VaultAssumption, VaultInv, VaultTypeOK
<1>2. FreeTokens \in Nat
  BY <1>1, UserSum DEF Pending, FreeTokens, VaultTypeOK
<1>3. RecoverPart(u) \in Nat
  <2>1. CASE shares[u] = 0
    BY <2>1 DEF RecoverPart
  <2>2. CASE shares[u] # 0
    <3>1. totalShares \in Nat \ {0}
      BY <1>1, <2>2, UserOf DEF VaultInv
    <3>2. (FreeTokens + assets) * shares[u] \in Nat
      BY <1>1, <1>2, Spread
    <3> QED BY <2>2, <3>1, <3>2, Quotient DEF RecoverPart
  <2> QED BY <2>1, <2>2
<1>4. RecoverRange(u) \in Nat /\ RecoverRange(u) <= assets
  BY <1>1, <1>2, <1>3 DEF RecoverRange, Min2
<1> QED BY <1>2, <1>3, <1>4

LEMMA RecoverStep ==
  ASSUME VaultInv, NEW u \in User, EmergencyRecoverUser(u)
  PROVE  VaultInv'
<1> DEFINE part == RecoverPart(u)
           placed == RecoverRange(u)
           owing == part + request[u]
           e == IF shares[u] > 0 THEN 0 ELSE feesEarned[u]
<1>1. /\ held + placed >= Pending - request[u] + owing
      /\ request' = [request EXCEPT ![u] = 0]
      /\ held' = held + placed - owing
      /\ assets' = assets - placed
      /\ wallet' = [wallet EXCEPT ![u] = @ + owing]
      /\ totalShares' = totalShares - shares[u]
      /\ shares' = [shares EXCEPT ![u] = 0]
      /\ feeDebt' = [feeDebt EXCEPT ![u] = 0]
      /\ feesEarned' = IF shares[u] > 0 THEN [feesEarned EXCEPT ![u] = 0] ELSE feesEarned
      /\ since' = IF shares[u] > 0 THEN [since EXCEPT ![u] = "rested"] ELSE since
      /\ UNCHANGED <<position, accFee, distributed, yield, locked, mode>>
  BY DEF EmergencyRecoverUser, RecoveryPasses
<1>2. /\ VaultTypeOK /\ request \in [User -> Nat] /\ wallet \in [User -> Nat] /\ held \in Nat
      /\ shares \in [User -> Nat] /\ feeDebt \in [User -> Nat] /\ feesEarned \in [User -> Nat]
      /\ assets \in Nat /\ accFee \in Nat /\ distributed \in Nat /\ totalShares \in Nat
      /\ FeeUnit \in Nat /\ DeadShares \in Nat \ {0}
  BY VaultAssumption DEF VaultAssumption, VaultInv, VaultTypeOK
<1>3. part \in Nat /\ placed \in Nat /\ placed <= assets
  BY Recovering
<1> HIDE DEF part, placed
<1>4. owing \in Nat /\ owing = part + request[u] /\ request[u] \in Nat
  BY <1>2, <1>3
<1> HIDE DEF owing
<1>5. Pending \in Nat /\ request[u] <= Pending /\ Pending' = Pending - request[u]
  <2>1. Pending \in Nat /\ request[u] <= Pending /\ Pending' = Pending - request[u] + 0
    BY <1>1, <1>2, RequestChange
  <2> QED BY <1>4, <2>1
<1>6. held' \in Nat /\ held' >= Pending'
  BY <1>1, <1>2, <1>3, <1>4, <1>5
<1>7. e \in Nat /\ feesEarned' = [feesEarned EXCEPT ![u] = e]
  BY <1>1, <1>2
<1>8. Stands(accFee, distributed') /\ accFee' = accFee
  BY <1>1, <1>2 DEF VaultInv, FeesSound, Stands
<1>9. e * FeeUnit <= Claim(u, accFee)
  <2>1. Claim(u, accFee) \in Nat
    <3>1. [x \in User |-> Claim(x, accFee)] \in [User -> Nat]
      BY <1>2, <1>8, ClaimTyped DEF Stands
    <3> QED BY <3>1
  <2>2. CASE shares[u] > 0
    <3>1. e = 0 /\ 0 * FeeUnit = 0
      BY <1>2, <2>2
    <3> QED BY <2>1, <3>1
  <2>3. CASE ~(shares[u] > 0)
    <3>1. Credit(u, accFee) \in Nat /\ (feesEarned[u] + Credit(u, accFee)) * FeeUnit <= Claim(u, accFee)
      BY <1>2, <1>8, CreditBounded DEF Stands
    <3>2. Credit(u, accFee) = 0
      BY <1>2, <2>3 DEF Credit
    <3>3. e = feesEarned[u] /\ feesEarned[u] + 0 = feesEarned[u]
      BY <1>2, <2>3
    <3> QED BY <3>1, <3>2, <3>3
  <2> QED BY <2>2, <2>3
<1> HIDE DEF e
<1>10. FeesSound'
  <2>1. 0 * accFee = 0
    BY <1>2
  <2>2. feeDebt' = [feeDebt EXCEPT ![u] = 0 * accFee]
    BY <1>1, <2>1
  <2> QED BY <1>1, <1>2, <1>7, <1>8, <1>9, <2>2, FeesSettled
<1>11. totalShares' \in Nat /\ SharesAdd'
  <2>1. UserShares \in Nat /\ shares[u] <= UserShares /\ UserShares' = UserShares - shares[u] + 0
    BY <1>1, <1>2, SharesChange
  <2>2. shares[u] \in Nat /\ totalShares' = totalShares - shares[u]
    BY <1>1, <1>2
  <2>3. CASE totalShares = UserShares + DeadShares
    <3>1. totalShares' \in Nat /\ totalShares' = UserShares' + DeadShares
      BY <1>2, <2>1, <2>2, <2>3
    <3> QED BY <3>1 DEF SharesAdd
  <2>4. CASE totalShares = 0 /\ UserShares = 0
    <3>1. totalShares' = 0 /\ UserShares' = 0
      BY <2>1, <2>2, <2>4
    <3> QED BY <3>1 DEF SharesAdd
  <2> QED BY <2>3, <2>4 DEF VaultInv, SharesAdd
<1>12. VaultTypeOK'
  <2>1. /\ request' \in [User -> Nat] /\ wallet' \in [User -> Nat] /\ shares' \in [User -> Nat]
        /\ feeDebt' \in [User -> Nat] /\ feesEarned' \in [User -> Nat] /\ assets' \in Nat
    BY <1>1, <1>2, <1>3, <1>4, <1>7
  <2>2. since' \in [User -> {"fresh", "cooling", "rested"}]
    BY <1>1 DEF VaultInv, VaultTypeOK
  <2>3. /\ position' \in BOOLEAN /\ locked' \in BOOLEAN /\ mode' \in Modes /\ accFee' \in Nat
        /\ distributed' \in Nat /\ yield' \in 0 .. MaxYield
    BY <1>1 DEF VaultInv, VaultTypeOK
  <2> QED BY <1>6, <1>11, <2>1, <2>2, <2>3 DEF VaultTypeOK
<1> QED BY <1>6, <1>10, <1>11, <1>12 DEF VaultInv

(* The rebalance's other steps, the market, time and the pause controller    *)
LEMMA OuterStep ==
  ASSUME VaultInv,
         \/ \E u \in User : DonateToVault(u) \/ DonateToRange(u) \/ CooldownOver(u)
         \/ StartRebalance \/ RebalanceSwap \/ RebalanceMint \/ EndRebalance
         \/ Market \/ NextBlock
         \/ \E m \in Modes : ChangeMode(m)
  PROVE  VaultInv'
<1>1. /\ request \in [User -> Nat] /\ wallet \in [User -> Nat] /\ held \in Nat /\ held >= Pending
      /\ assets \in Nat /\ yield \in 0 .. MaxYield /\ since \in [User -> {"fresh", "cooling", "rested"}]
      /\ mode \in Modes /\ Gain \in Nat /\ MaxYield \in Nat
  BY VaultAssumption DEF VaultAssumption, VaultInv, VaultTypeOK
<1>2. UNCHANGED <<request, shares, totalShares, fees>>
  BY DEF DonateToVault, DonateToRange, CooldownOver, StartRebalance, RebalanceSwap, RebalanceMint,
         EndRebalance, Market, NextBlock, ChangeMode, queued, Book!Gift
<1>3. /\ wallet' \in [User -> Nat] /\ held' \in Nat /\ held' >= held
  BY <1>1 DEF DonateToVault, DonateToRange, CooldownOver, StartRebalance, RebalanceSwap,
              RebalanceMint, EndRebalance, Market, NextBlock, ChangeMode, queued, Book!Gift
<1>4. assets' \in Nat /\ yield' \in 0 .. MaxYield
  BY <1>1 DEF DonateToVault, DonateToRange, CooldownOver, StartRebalance, RebalanceSwap,
              RebalanceMint, EndRebalance, Market, NextBlock, ChangeMode, queued
<1>5. since' \in [User -> {"fresh", "cooling", "rested"}] /\ mode' \in Modes
  BY <1>1 DEF DonateToVault, DonateToRange, CooldownOver, StartRebalance, RebalanceSwap,
              RebalanceMint, EndRebalance, Market, NextBlock, ChangeMode
<1>6. position' \in BOOLEAN /\ locked' \in BOOLEAN
  BY DEF VaultInv, VaultTypeOK, DonateToVault, DonateToRange, CooldownOver, StartRebalance,
         RebalanceSwap, RebalanceMint, EndRebalance, Market, NextBlock, ChangeMode
<1>7. VaultTypeOK'
  BY <1>2, <1>3, <1>4, <1>5, <1>6 DEF VaultInv, VaultTypeOK, fees
<1>8. SharesAdd' /\ FeesSound'
  BY <1>2, Quiet
<1>9. (held >= Pending)'
  BY <1>2, <1>3, SameRequests
<1> QED BY <1>7, <1>8, <1>9 DEF VaultInv

LEMMA VaultStep == VaultInv /\ [VaultNext]_vaultVars => VaultInv'
<1> SUFFICES ASSUME VaultInv, [VaultNext]_vaultVars PROVE VaultInv'
  OBVIOUS
<1>1. ASSUME NEW u \in User, \/ \E a \in Amount : Deposit(u, a)
                             \/ RefundStaleDeposit(u)
                             \/ ProcessDepositPermissionless(u)
                             \/ \E s \in 1 .. shares[u] : Withdraw(u, s)
                             \/ EmergencyRecoverUser(u)
      PROVE  VaultInv'
  BY <1>1, RequestStep, ProcessStep, WithdrawStep, RecoverStep
<1>2. CASE EmergencyBurnPositions \/ RebalanceBurn
  BY <1>2, BurnStep DEF EmergencyBurnPositions, RebalanceBurn
<1>3. CASE UNCHANGED vaultVars
  <2>1. VaultTypeOK'
    BY <1>3 DEF vaultVars, VaultInv, VaultTypeOK
  <2>2. SharesAdd' /\ FeesSound' /\ (held >= Pending)'
    BY <1>3, Quiet DEF vaultVars, fees, VaultInv, Pending
  <2> QED BY <2>1, <2>2 DEF VaultInv
<1> QED BY <1>1, <1>2, <1>3, OuterStep DEF VaultNext

(* The types, the sum of the shares, the queued tokens and the claims on fees *)
(* (MultiUserVault's userInfo, totalShares, _pendingTotal, accFeePerShare).   *)
THEOREM VaultInvariance == VaultSpec => []VaultInv
BY VaultStart, VaultStep, PTL DEF VaultSpec

(* Shares add up, queued tokens are there and no fees are promised twice, for *)
(* any users, amounts, losses, fees, precisions and restarts of the shares.   *)
THEOREM CustodyHolds == VaultSpec => []CustodyBacked
<1>1. VaultInv => CustodyBacked
  BY FeesFollow DEF VaultInv, CustodyBacked
<1> QED BY <1>1, VaultInvariance, PTL

-----------------------------------------------------------------------------
(* What an exit computes is there: a part of the whole is at most the whole.  *)
LEMMA PartOfWhole ==
  ASSUME NEW all \in Nat, NEW s \in Nat, NEW n \in Nat \ {0}, s <= n
  PROVE  (all * s) \div n \in 0 .. all
<1>1. all * s \in Nat /\ all * s <= all * n
  BY Spread, Monotone
<1>2. (all * s) \div n \in Nat /\ (all * s) \div n <= all
  BY <1>1, QuotientBelow
<1> QED BY <1>2

LEMMA WithdrawalCovered ==
  ASSUME VaultInv, NEW u \in User, NEW f \in Collectable, shares[u] > 0
  PROVE  /\ totalShares > 0
         /\ Withdrawn(shares[u], assets + f) # {}
         /\ Withdrawn(shares[u], assets + f) \subseteq 0 .. assets + f
<1>1. /\ VaultTypeOK /\ SharesAdd /\ assets \in Nat /\ shares[u] \in Nat
      /\ totalShares \in Nat /\ DeadShares \in Nat \ {0} /\ MaxSlip \in Nat
  BY VaultAssumption DEF VaultAssumption, VaultInv, VaultTypeOK
<1>2. totalShares \in Nat \ {0} /\ shares[u] <= totalShares
  <2>1. totalShares = UserShares + DeadShares /\ UserShares \in Nat /\ shares[u] <= UserShares
    BY <1>1, UserOf
  <2> QED BY <1>1, <2>1
<1> DEFINE all == assets + f
           part == (all * shares[u]) \div totalShares
<1>3. all \in Nat
  BY <1>1, Collecting
<1>4. Withdrawn(shares[u], all) =
        IF totalShares - shares[u] <= DeadShares THEN {all}
        ELSE IF position THEN {x \in 0 .. part : x + MaxSlip >= part} ELSE {part}
  BY DEF Withdrawn
<1> HIDE DEF all
<1>5. part \in 0 .. all
  BY <1>1, <1>2, <1>3, PartOfWhole
<1> HIDE DEF part
<1>6. Withdrawn(shares[u], all) \subseteq 0 .. all
  BY <1>3, <1>4, <1>5
<1>7. all \in Withdrawn(shares[u], all) \/ part \in Withdrawn(shares[u], all)
  BY <1>1, <1>3, <1>4, <1>5
<1> QED BY <1>2, <1>6, <1>7 DEF all

LEMMA RecoveryCovered ==
  ASSUME VaultInv, NEW u \in User
  PROVE  /\ held >= Pending /\ RecoverRange(u) <= assets
         /\ held + RecoverRange(u) >= Pending - request[u] + (RecoverPart(u) + request[u])
<1>1. /\ VaultTypeOK /\ SharesAdd /\ held \in Nat /\ assets \in Nat /\ shares[u] \in Nat
      /\ totalShares \in Nat /\ request[u] \in Nat /\ DeadShares \in Nat \ {0} /\ held >= Pending
  BY VaultAssumption DEF VaultAssumption, VaultInv, VaultTypeOK
<1>2. Pending \in Nat
  BY <1>1, UserSum DEF Pending, VaultTypeOK
<1>3. /\ FreeTokens \in Nat /\ RecoverPart(u) \in Nat
      /\ RecoverRange(u) \in Nat /\ RecoverRange(u) <= assets
  BY Recovering
<1>4. RecoverPart(u) <= FreeTokens + assets
  <2>1. CASE shares[u] = 0
    BY <1>1, <1>3, <2>1 DEF RecoverPart
  <2>2. CASE shares[u] # 0
    <3>1. totalShares = UserShares + DeadShares /\ UserShares \in Nat /\ shares[u] <= UserShares
      BY <1>1, <2>2, UserOf
    <3>2. totalShares \in Nat \ {0} /\ shares[u] <= totalShares /\ FreeTokens + assets \in Nat
      BY <1>1, <1>3, <3>1
    <3>3. ((FreeTokens + assets) * shares[u]) \div totalShares \in 0 .. FreeTokens + assets
      BY <1>1, <3>2, PartOfWhole
    <3> QED BY <1>3, <2>2, <3>2, <3>3 DEF RecoverPart
  <2> QED BY <2>1, <2>2
<1>5. RecoverPart(u) <= FreeTokens + RecoverRange(u)
  BY <1>1, <1>3, <1>4 DEF RecoverRange, Min2
<1>6. FreeTokens = held - Pending
  BY DEF FreeTokens
<1> QED BY <1>1, <1>2, <1>3, <1>5, <1>6

(***************************************************************************)
(* Whoever holds shares can leave and whoever has a claim can recover: no     *)
(* check and no arithmetic of _withdrawInternal and EmergencyRecoverUser      *)
(* reverts, for any users, amounts, precision, fees and history of them.      *)
(***************************************************************************)
THEOREM ExitOpen == VaultSpec => []ExitNeverBlocked
<1>1. ASSUME VaultInv PROVE ExitNeverBlocked
  <2> SUFFICES ASSUME NEW u \in User
               PROVE  /\ shares[u] > 0 /\ ~locked /\ WithdrawalAllowed(u) =>
                           /\ WithdrawalPasses(u, shares[u]) /\ totalShares > 0
                           /\ \A f \in Collectable :
                                /\ Withdrawn(shares[u], assets + f) # {}
                                /\ Withdrawn(shares[u], assets + f) \subseteq 0 .. assets + f
                      /\ ~position /\ (shares[u] > 0 \/ request[u] > 0) =>
                           RecoveryPasses(u) /\ RecoverRange(u) <= assets
    BY DEF ExitNeverBlocked
  <2>1. ASSUME shares[u] > 0, ~locked, WithdrawalAllowed(u)
        PROVE  WithdrawalPasses(u, shares[u])
    <3>1. shares[u] \in 1 .. shares[u]
      BY <1>1, <2>1 DEF VaultInv, VaultTypeOK
    <3>2. DebtCovered(u, accFee)
      BY <1>1 DEF VaultInv, FeesSound, DebtCovered
    <3> QED BY <2>1, <3>1, <3>2 DEF WithdrawalPasses
  <2>2. ASSUME shares[u] > 0, NEW f \in Collectable
        PROVE  /\ totalShares > 0
               /\ Withdrawn(shares[u], assets + f) # {}
               /\ Withdrawn(shares[u], assets + f) \subseteq 0 .. assets + f
    BY <1>1, <2>2, WithdrawalCovered
  <2>3. 0 \in Collectable
    BY DEF Collectable
  <2>4. ASSUME ~position, shares[u] > 0 \/ request[u] > 0
        PROVE  RecoveryPasses(u) /\ RecoverRange(u) <= assets
    BY <1>1, <2>4, RecoveryCovered DEF RecoveryPasses
  <2> QED BY <2>1, <2>2, <2>3, <2>4
<1> QED BY <1>1, VaultInvariance, PTL

-----------------------------------------------------------------------------
(* What a share is worth to those who stay *)
Undiluted == \A v \in User : shares[v] > 0 /\ shares'[v] = shares[v] =>
               assets' * totalShares >= assets * totalShares'

LEMMA TwoUsers ==
  ASSUME VaultTypeOK, NEW u \in User, NEW v \in User, u # v
  PROVE  shares[u] + shares[v] <= UserShares
<1> DEFINE g == [shares EXCEPT ![u] = 0]
<1>1. shares \in [User -> Nat] /\ g \in [User -> Nat] /\ g[u] = 0 /\ g[v] = shares[v]
      /\ \A x \in User \ {u} : g[x] = shares[x]
  BY DEF VaultTypeOK
<1> HIDE DEF g
<1>2. /\ SumFunctionOnSet(shares, User) \in Nat
      /\ SumFunctionOnSet(g, User) = SumFunctionOnSet(shares, User) - shares[u] + g[u]
  BY <1>1, UserChange
<1>3. g[v] <= SumFunctionOnSet(g, User) /\ SumFunctionOnSet(g, User) \in Nat
  BY <1>1, UserChange
<1> QED BY <1>1, <1>2, <1>3 DEF UserShares

(* Shares minted for c over nav, rounded down, do not lower the value of the  *)
(* shares t there are.                                                       *)
LEMMA MintFair ==
  ASSUME NEW nav \in Nat \ {0}, NEW c \in Nat, NEW t \in Nat, NEW a \in Nat, a <= nav
  PROVE  (nav + c) * t >= a * (t + (c * t) \div nav)
<1> DEFINE m == (c * t) \div nav
<1>1. c * t \in Nat /\ nav * t \in Nat /\ a * t \in Nat /\ a * t <= nav * t
  BY Spread, Monotone
<1>2. m \in Nat /\ m * nav <= c * t
  BY <1>1, Quotient
<1> HIDE DEF m
<1>3. a * m \in Nat /\ m * nav \in Nat /\ a * m <= m * nav
  BY <1>2, Spread, Monotone
<1>4. (nav + c) * t = nav * t + c * t
  BY Spread
<1>5. a * (t + m) = a * t + a * m
  BY <1>2
<1>6. (nav + c) * t >= a * (t + m)
  BY <1>1, <1>2, <1>3, <1>4, <1>5
<1> QED BY <1>6 DEF m

(* Who takes no more than s of t shares' part leaves the others' shares whole. *)
LEMMA LeaveFair ==
  ASSUME NEW all \in Nat, NEW out \in Nat, NEW s \in Nat, NEW t \in Nat, NEW a \in Nat,
         a <= all, out <= all, s <= t, out * t <= all * s
  PROVE  (all - out) * t >= a * (t - s)
<1>1. (all - out) * t = all * t - out * t /\ all * (t - s) = all * t - all * s
  OBVIOUS
<1>2. /\ all * t \in Nat /\ out * t \in Nat /\ all * s \in Nat /\ t - s \in Nat
  BY Spread
<1>3. a * (t - s) \in Nat /\ all * (t - s) \in Nat /\ a * (t - s) <= all * (t - s)
  BY <1>2, Spread, Monotone
<1> QED BY <1>1, <1>2, <1>3

LEMMA ProcessFair ==
  ASSUME VaultInv, NEW u \in User, ProcessDepositPermissionless(u)
  PROVE  Undiluted
<1> SUFFICES ASSUME NEW v \in User, shares[v] > 0, shares'[v] = shares[v]
             PROVE  assets' * totalShares >= assets * totalShares'
  BY DEF Undiluted
<1>1. PICK f \in Collectable, c \in 1 .. request[u] :
        /\ totalShares > DeadShares => assets + f > 0
        /\ assets' = assets + f + c
        /\ totalShares' = BaseShares + SharesFor(c, assets + f)
  BY DEF ProcessDepositPermissionless
<1>2. /\ VaultTypeOK /\ SharesAdd /\ assets \in Nat /\ request[u] \in Nat
      /\ totalShares \in Nat /\ DeadShares \in Nat /\ shares[v] \in Nat /\ f \in Nat
  BY Collecting, VaultAssumption DEF VaultAssumption, VaultInv, VaultTypeOK
<1>3. ~(totalShares <= DeadShares)
  BY <1>2, UserOf
<1> DEFINE nav == assets + f
<1>4. nav \in Nat \ {0} /\ c \in Nat /\ assets <= nav /\ assets' = nav + c
  BY <1>1, <1>2, <1>3
<1>5. totalShares' = totalShares + (c * totalShares) \div nav
  BY <1>1, <1>3 DEF BaseShares, SharesFor
<1> HIDE DEF nav
<1> QED BY <1>2, <1>4, <1>5, MintFair

LEMMA WithdrawFair ==
  ASSUME VaultInv, NEW u \in User, NEW s \in 1 .. shares[u], Withdraw(u, s)
  PROVE  Undiluted
<1> SUFFICES ASSUME NEW v \in User, shares[v] > 0, shares'[v] = shares[v]
             PROVE  assets' * totalShares >= assets * totalShares'
  BY DEF Undiluted
<1>1. /\ VaultTypeOK /\ SharesAdd /\ assets \in Nat /\ shares \in [User -> Nat]
      /\ totalShares \in Nat /\ DeadShares \in Nat \ {0}
  BY VaultAssumption DEF VaultAssumption, VaultInv, VaultTypeOK
<1>2. shares' = [shares EXCEPT ![u] = @ - s] /\ totalShares' = totalShares - s
  BY DEF Withdraw
<1>3. v # u /\ s \in Nat /\ s <= shares[u]
  BY <1>1, <1>2
<1>4. /\ shares[u] + shares[v] <= UserShares /\ UserShares \in Nat
      /\ totalShares = UserShares + DeadShares
  BY <1>1, <1>3, TwoUsers, UserOf
<1>5. ~(totalShares - s <= DeadShares) /\ s <= totalShares /\ totalShares \in Nat \ {0}
  BY <1>1, <1>3, <1>4
<1>6. PICK f \in Collectable :
        \E out \in Withdrawn(s, assets + f) : assets' = (assets + f) - out
  BY Zenon DEF Withdraw
<1>0. PICK out \in Withdrawn(s, assets + f) : assets' = (assets + f) - out
  BY <1>6
<1> DEFINE all == assets + f
           part == (all * s) \div totalShares
<1>7. f \in Nat /\ all \in Nat /\ assets <= all
  <2>1. f \in Nat
    BY <1>1, Collecting
  <2> QED BY <1>1, <2>1
<1>8. (out = part \/ out \in 0 .. part) /\ assets' = all - out
  <2>1. out = part \/ out \in 0 .. part
    BY <1>5, Drawn, Zenon
  <2>2. assets' = all - out
    BY <1>0
  <2> QED BY <2>1, <2>2
<1> HIDE DEF all
<1>9. all * s \in Nat
  BY <1>3, <1>7, Spread
<1>10. part \in Nat /\ part * totalShares <= all * s
  BY <1>5, <1>9, Quotient
<1> HIDE DEF part
<1>11. out \in Nat /\ out <= part
  BY <1>8, <1>10
<1>12. out * totalShares <= part * totalShares /\ out * totalShares \in Nat
       /\ part * totalShares \in Nat
  BY <1>1, <1>10, <1>11, Spread, Monotone
<1>13. out * totalShares <= all * s
  BY <1>9, <1>10, <1>12
<1>14. out <= all
  <2>1. all * s <= all * totalShares /\ all * totalShares \in Nat
    BY <1>1, <1>3, <1>5, <1>7, Spread, Monotone
  <2>2. out * totalShares <= all * totalShares
    BY <1>9, <1>12, <1>13, <2>1
  <2> QED BY <1>5, <1>7, <1>11, <2>2, Cancel
<1> QED BY <1>1, <1>2, <1>3, <1>5, <1>7, <1>8, <1>11, <1>13, <1>14, LeaveFair

LEMMA RecoverFair ==
  ASSUME VaultInv, NEW u \in User, EmergencyRecoverUser(u)
  PROVE  Undiluted
<1> SUFFICES ASSUME NEW v \in User, shares[v] > 0, shares'[v] = shares[v]
             PROVE  assets' * totalShares >= assets * totalShares'
  BY DEF Undiluted
<1> DEFINE placed == RecoverRange(u)
           part == RecoverPart(u)
           free == FreeTokens
           s == shares[u]
<1>1. /\ assets' = assets - placed /\ totalShares' = totalShares - s
      /\ shares' = [shares EXCEPT ![u] = 0]
  BY DEF EmergencyRecoverUser
<1>2. /\ VaultTypeOK /\ SharesAdd /\ assets \in Nat /\ shares \in [User -> Nat] /\ s \in Nat
      /\ totalShares \in Nat /\ DeadShares \in Nat \ {0}
  BY VaultAssumption DEF VaultAssumption, VaultInv, VaultTypeOK
<1>3. free \in Nat /\ part \in Nat /\ placed \in Nat /\ placed <= assets
  BY Recovering
<1>4. v # u
  BY <1>1, <1>2
<1>5. totalShares \in Nat \ {0} /\ s <= totalShares
  <2>1. /\ s + shares[v] <= UserShares /\ UserShares \in Nat
        /\ totalShares = UserShares + DeadShares
    BY <1>2, <1>4, TwoUsers, UserOf
  <2> QED BY <1>2, <2>1
<1>6. placed * totalShares <= assets * s
  <2>1. assets * s \in Nat /\ (free + assets) * s \in Nat /\ free * s \in Nat
        /\ (free + assets) * s = free * s + assets * s
    BY <1>2, <1>3, Spread
  <2>2. CASE placed = 0
    <3>1. placed * totalShares = 0
      BY <1>2, <2>2
    <3> QED BY <2>1, <3>1
  <2>3. CASE placed # 0
    <3>1. part > free /\ placed <= part - free
      BY <1>2, <1>3, <2>3 DEF RecoverRange, Min2
    <3>2. part = ((free + assets) * s) \div totalShares
      BY <1>3, <3>1 DEF RecoverPart
    <3>3. part * totalShares <= (free + assets) * s
      BY <1>5, <2>1, <3>2, Quotient
    <3> HIDE DEF part, placed, free, s
    <3>4. (placed + free) * totalShares = placed * totalShares + free * totalShares
          /\ placed * totalShares \in Nat /\ free * totalShares \in Nat
      BY <1>2, <1>3, Spread
    <3>5. placed + free <= part /\ placed + free \in Nat
      BY <1>3, <3>1
    <3>6. (placed + free) * totalShares <= part * totalShares /\ part * totalShares \in Nat
      BY <1>2, <1>3, <3>5, Spread, Monotone
    <3>7. free * s <= free * totalShares
      BY <1>2, <1>3, <1>5, Monotone
    <3> QED BY <2>1, <3>3, <3>4, <3>6, <3>7
  <2> QED BY <2>2, <2>3
<1> HIDE DEF placed, s
<1> QED BY <1>1, <1>2, <1>3, <1>5, <1>6, LeaveFair

(* Nobody's deposit, withdrawal, refund or recovery takes from the shares     *)
(* that others keep, for any amounts, losses, fees, gifts and rounding        *)
(* (_finalizeProcessedDeposit, _executeWithdraw, EmergencyRecoverUser).       *)
THEOREM SharesKeepValue == VaultSpec => NoDilution
<1>1. ASSUME VaultInv, [VaultNext]_vaultVars, <<queued, shares>>' # <<queued, shares>>
      PROVE  Undiluted
  <2>1. ASSUME NEW u \in User, \/ ProcessDepositPermissionless(u)
                               \/ \E s \in 1 .. shares[u] : Withdraw(u, s)
                               \/ EmergencyRecoverUser(u)
        PROVE  Undiluted
    BY <1>1, <2>1, ProcessFair, WithdrawFair, RecoverFair
  <2>2. ASSUME NEW u \in User, \/ \E a \in Amount : Deposit(u, a)
                               \/ RefundStaleDeposit(u)
                               \/ DonateToVault(u) \/ DonateToRange(u)
        PROVE  Undiluted
    <3>1. assets \in Nat /\ totalShares \in Nat
      BY <1>1 DEF VaultInv, VaultTypeOK
    <3>2. totalShares' = totalShares /\ (assets' = assets \/ assets' = assets + 1)
      BY <2>2 DEF Deposit, RefundStaleDeposit, DonateToVault, DonateToRange
    <3>3. assets' * totalShares >= assets * totalShares
      <4>1. assets' \in Nat /\ assets <= assets'
        BY <3>1, <3>2
      <4>2. assets' * totalShares \in Nat /\ assets * totalShares \in Nat
            /\ assets * totalShares <= assets' * totalShares
        BY <3>1, <4>1, Spread, Monotone
      <4> QED BY <4>2
    <3> QED BY <3>2, <3>3 DEF Undiluted
  <2>3. ASSUME NEW u \in User, CooldownOver(u) PROVE FALSE
    BY <1>1, <2>3 DEF CooldownOver, queued
  <2>4. CASE \/ EmergencyBurnPositions \/ StartRebalance \/ RebalanceBurn \/ RebalanceSwap
             \/ RebalanceMint \/ EndRebalance \/ Market \/ NextBlock
             \/ (\E m \in Modes : ChangeMode(m)) \/ UNCHANGED vaultVars
    BY <1>1, <2>4 DEF EmergencyBurnPositions, StartRebalance, RebalanceBurn, RebalanceSwap,
       RebalanceMint, EndRebalance, Market, NextBlock, ChangeMode, BurnTracked, queued, vaultVars
  <2> QED BY <1>1, <2>1, <2>2, <2>3, <2>4 DEF VaultNext
<1>2. VaultInv /\ [VaultNext]_vaultVars =>
        [ <<queued, shares>>' # <<queued, shares>> =>
            \A v \in User : shares[v] > 0 /\ shares'[v] = shares[v] =>
              assets' * totalShares >= assets * totalShares' ]_vaultVars
  BY <1>1 DEF Undiluted
<1> QED BY <1>2, VaultInvariance, PTL DEF VaultSpec, NoDilution

-----------------------------------------------------------------------------
(***************************************************************************)
(* The hedge.  First what its operators yield: quotients, prices, budgets.   *)
(***************************************************************************)
LEMMA CeilDivTyped ==
  ASSUME NEW a \in Nat, NEW d \in Nat \ {0}
  PROVE  CeilDiv(a, d) \in Nat
<1>1. a + d - 1 \in Nat
  OBVIOUS
<1> QED BY <1>1, Quotient DEF CeilDiv

(* A share of a balance is rounded down, by less than one.                   *)
LEMMA PartBounds ==
  ASSUME NEW x \in Nat, NEW s \in 0 .. 100
  PROVE  /\ Part(x, s) \in Nat /\ Part(x, s) <= x
         /\ Part(x, s) * 100 <= x * s /\ x * s < Part(x, s) * 100 + 100
<1>1. x * s \in Nat /\ x * s <= x * 100
  BY Spread, Monotone
<1> DEFINE y == x * s
<1>2. y \in Nat /\ y <= x * 100 /\ Part(x, s) = y \div 100
  BY <1>1 DEF Part
<1> HIDE DEF y
<1>3. y \div 100 \in Nat /\ (y \div 100) * 100 <= y /\ y < (y \div 100) * 100 + 100
  BY <1>2
<1> QED BY <1>2, <1>3 DEF y

(* Values and prices of a trade are natural numbers.                         *)
LEMMA ValueTyped ==
  ASSUME price \in Prices, NEW x \in Nat, NEW bad \in BOOLEAN
  PROVE  /\ Base(x) \in Nat /\ Proceeds(x, bad) \in Nat
         /\ OracleMax(x) \in Nat /\ Cost(x, bad) \in Nat /\ Owed(x) \in Nat
<1>1. /\ price \in Nat \ {0} /\ Unit \in Nat \ {0} /\ PremiumRate \in Nat
      /\ Slippage \in Nat /\ 100 - Slippage \in Nat
  BY HedgeAssumption DEF HedgeAssumption
<1>2. x * price \in Nat
  BY <1>1, Spread
<1>3. Base(x) \in Nat
  BY <1>1, <1>2, Quotient DEF Base
<1>4. Base(x) * (100 - Slippage) \in Nat
  BY <1>1, <1>3, Spread
<1>5. OracleMin(x) \in Nat
  BY <1>4, Quotient DEF OracleMin
<1>6. CeilDiv(x * price, Unit) \in Nat
  BY <1>1, <1>2, CeilDivTyped
<1>7. CeilDiv(x * price, Unit) * (100 + Slippage) \in Nat
  BY <1>1, <1>6, Spread
<1>8. OracleMax(x) \in Nat
  BY <1>7, CeilDivTyped DEF OracleMax
<1>9. x * PremiumRate + 50 \in Nat
  BY <1>1, Spread
<1>10. Owed(x) \in Nat
  BY <1>9, Quotient DEF Owed
<1> QED BY <1>3, <1>5, <1>6, <1>8, <1>10 DEF Proceeds, Cost

(* A purchase draws no more collateral than there is.                        *)
LEMMA DrawableBounded ==
  ASSUME price \in Prices, NEW p \in Positions, NEW target \in Nat
  PROVE  Drawable(p, target) \in Nat /\ Drawable(p, target) <= p.coll
<1>1. p.coll \in Nat /\ p.debt \in Nat
  BY DEF Positions
<1>2. Base(p.debt) \in Nat
  BY <1>1, ValueTyped
<1>3. Threshold \in Nat \ {0} /\ Base(p.debt) * target \in Nat
  BY <1>2, Spread, HedgeAssumption DEF HedgeAssumption
<1>4. CeilDiv(Base(p.debt) * target, Threshold) \in Nat
  BY <1>3, CeilDivTyped
<1> QED BY <1>1, <1>4 DEF Drawable, Excess

-----------------------------------------------------------------------------
(* The legs.  A flash loan repays the debt by its amount and is paid for from *)
(* what is idle and what was drawn; it touches no token 0.                    *)
LEMMA FlashLeg ==
  ASSUME price \in Prices, NEW p \in Positions, NEW x \in 0 .. p.debt, NEW target \in Nat,
         NEW bad \in BOOLEAN, FlashCovers(p, x, target, bad)
  PROVE  /\ FlashRepaid(p, x, target, bad) \in Positions
         /\ FlashRepaid(p, x, target, bad).debt = p.debt - x
         /\ FlashRepaid(p, x, target, bad).idle0 = p.idle0
         /\ FlashRepaid(p, x, target, bad).rm0 = p.rm0
<1>1. /\ p.debt \in Nat /\ p.coll \in Nat /\ p.idle0 \in Nat /\ p.idle1 \in Nat /\ p.rm0 \in Nat
  BY DEF Positions
<1> DEFINE q == [p EXCEPT !.debt = @ - x]
           max == OracleMax(Owed(x))
           able == Drawable(q, target)
           draw == Least(Excess(max, p.idle1), able)
           cap == Least(max, p.idle1 + draw)
           cost == Cost(Owed(x), bad)
<1>2. q \in Positions /\ q.coll = p.coll /\ q.idle1 = p.idle1 /\ x \in Nat
  BY <1>1 DEF Positions
<1>3. Owed(x) \in Nat
  BY <1>2, ValueTyped
<1>4. max \in Nat /\ cost \in Nat
  BY <1>3, ValueTyped
<1>5. able \in Nat /\ able <= p.coll
  BY <1>2, DrawableBounded
<1>6. FlashBudget(p, x, target) = [draw |-> draw, cap |-> cap]
  BY <1>2 DEF FlashBudget, Budget
<1>7. cost <= cap
  BY <1>6 DEF FlashCovers
<1>8. FlashRepaid(p, x, target, bad)
        = [p EXCEPT !.debt = @ - x, !.coll = @ - draw, !.idle1 = @ + draw - cost]
  BY <1>6 DEF FlashRepaid
<1> HIDE DEF q, max, able, cost
<1>9. draw \in Nat /\ draw <= p.coll
  BY <1>1, <1>4, <1>5 DEF Least, Excess
<1>10. cost <= p.idle1 + draw
  <2> HIDE DEF draw
  <2> QED BY <1>1, <1>4, <1>7, <1>9 DEF Least
<1> HIDE DEF draw, cap
<1>11. p.debt - x \in Nat /\ p.coll - draw \in Nat /\ p.idle1 + draw - cost \in Nat
  BY <1>1, <1>4, <1>9, <1>10
<1> QED BY <1>1, <1>8, <1>11 DEF Positions

(* A larger short: the debt grows, all token 1 becomes collateral.            *)
LEMMA BorrowLeg ==
  ASSUME price \in Prices, NEW p \in Positions, NEW x \in Nat, NEW bad \in BOOLEAN
  PROVE  /\ Borrowed(p, x, bad) \in Positions
         /\ Borrowed(p, x, bad).debt = p.debt + x
         /\ Borrowed(p, x, bad).idle0 = p.idle0
         /\ Borrowed(p, x, bad).rm0 = p.rm0
<1> DEFINE n == [p EXCEPT !.debt = @ + x, !.coll = @ + p.idle1 + Proceeds(x, bad), !.idle1 = 0]
<1>1. Proceeds(x, bad) \in Nat
  BY ValueTyped
<1>2. p.debt + x \in Nat /\ p.coll + p.idle1 + Proceeds(x, bad) \in Nat
  BY <1>1 DEF Positions
<1>3. n \in Positions /\ n.debt = p.debt + x /\ n.idle0 = p.idle0 /\ n.rm0 = p.rm0
  BY <1>2 DEF Positions
<1> QED BY <1>3 DEF Borrowed

LEMMA ReserveLeg ==
  ASSUME price \in Prices, NEW p \in Positions
  PROVE  /\ ReserveRebuilt(p) \in Positions
         /\ ReserveRebuilt(p).debt = p.debt
         /\ ReserveRebuilt(p).idle0 = p.idle0
         /\ ReserveRebuilt(p).rm0 = p.rm0
<1>1. OpTarget \in Nat
  BY HedgeAssumption DEF HedgeAssumption
<1> DEFINE free == IF Base(p.debt) = 0 THEN 0 ELSE Drawable(p, OpTarget)
<1>2. p.coll \in Nat /\ free \in Nat /\ free <= p.coll
  BY <1>1, DrawableBounded DEF Positions
<1>3. ReserveRebuilt(p) = [p EXCEPT !.coll = @ - free, !.idle1 = @ + free]
  BY DEF ReserveRebuilt
<1> HIDE DEF free
<1>4. p.coll - free \in Nat /\ p.idle1 + free \in Nat
  BY <1>2 DEF Positions
<1> QED BY <1>3, <1>4 DEF Positions

-----------------------------------------------------------------------------
(* The inventory.  Dust aside, token 0 that is sold or used leaves the idle   *)
(* balance first and then the range manager's; the balances never run short, *)
(* and the debt less both changes as planned.                                *)
LEMMA NetTyped ==
  ASSUME NEW x \in Nat
  PROVE  Net(x) \in Nat /\ Net(x) <= x /\ (Net(x) > 0 => Net(x) = x - Dust)
BY HedgeAssumption DEF HedgeAssumption, Net, Excess

LEMMA ShortTyped ==
  ASSUME NEW p \in Positions
  PROVE  /\ p.debt \in Nat /\ p.idle0 \in Nat /\ p.rm0 \in Nat
         /\ Short(p) \in Int /\ Short(p) = p.debt - Net(p.idle0) - Net(p.rm0) /\ Short(p) <= p.debt
<1>1. p.debt \in Nat /\ p.idle0 \in Nat /\ p.rm0 \in Nat
  BY DEF Positions
<1>2. Net(p.idle0) \in Nat /\ Net(p.rm0) \in Nat
  BY <1>1, NetTyped
<1> QED BY <1>1, <1>2 DEF Short

(* What a plan for the inventory may ask for.                                *)
LEMMA Planned ==
  ASSUME price \in Prices, NEW p \in Positions, NEW target \in Nat, NEW strict \in BOOLEAN,
         NEW move, move = Inventory(p, target, strict)
  PROVE  /\ move.amount \in Nat /\ move.stock \in Nat /\ move.amount <= move.stock
         /\ move.repay = (target = 0 /\ Short(p) >= 0)
         /\ move.continued = (strict /\ pending /\ Short(p) < target /\ p.debt > Short(p))
         /\ move.repay => move.amount <= p.debt /\ move.stock = Net(p.idle0)
         /\ ~move.repay => /\ move.stock = IF Short(p) < target THEN p.debt - Short(p) ELSE 0
                           /\ move.amount > 0 => Short(p) + move.amount <= target
                           /\ move.drift = DriftOf(Distance(Short(p), target), target)
         /\ move.only => /\ move.stock > 0
                         /\ \/ target = 0 \/ move.continued
                            \/ ~move.repay => /\ move.amount < move.stock
                                              /\ Short(p) + move.amount < target
         /\ move.stock > 0 /\ (target = 0 \/ move.continued) => move.only
<1> DEFINE short == Short(p)
           repay == target = 0 /\ short >= 0
           continued == strict /\ pending /\ short < target /\ p.debt > short
           gap == IF repay THEN p.debt ELSE Distance(short, target)
           stock == IF repay THEN Net(p.idle0)
                    ELSE IF short < target THEN p.debt - short ELSE 0
           needed == Least(gap, stock)
           cap == (SwapCap * Unit) \div price
           amount == Least(needed, cap)
<1>1. /\ move.repay = repay /\ move.continued = continued /\ move.stock = stock
      /\ move.amount = amount /\ move.drift = DriftOf(gap, target)
      /\ move.only = (stock > 0 /\ (target = 0 \/ continued \/ amount < needed))
  BY DEF Inventory, InventoryOnly
<1>2. cap \in Nat
  <2>1. SwapCap \in Nat /\ Unit \in Nat /\ price \in Nat \ {0}
    BY HedgeAssumption DEF HedgeAssumption
  <2>2. SwapCap * Unit \in Nat
    BY <2>1, Spread
  <2> QED BY <2>1, <2>2, Quotient
<1>3. short \in Int /\ p.debt \in Nat /\ short <= p.debt /\ Net(p.idle0) \in Nat
  BY ShortTyped, NetTyped
<1> HIDE DEF short, cap
<1>4. gap \in Nat /\ stock \in Nat
  BY <1>3 DEF Distance
<1>5. needed \in Nat /\ needed <= gap /\ needed <= stock
  BY <1>4 DEF Least
<1>6. amount \in Nat /\ amount <= needed
  <2> HIDE DEF needed
  <2> QED BY <1>2, <1>5 DEF Least
<1> HIDE DEF needed, amount
<1>7. amount <= stock /\ amount <= gap
  BY <1>4, <1>5, <1>6
<1>8. CASE repay
  BY <1>1, <1>3, <1>4, <1>6, <1>7, <1>8 DEF short
<1>9. CASE ~repay
  <2>1. amount > 0 => short < target /\ short + amount <= target
    BY <1>3, <1>6, <1>7, <1>9 DEF Distance
  <2>2. stock > 0 /\ amount < needed => amount < stock /\ short + amount < target
    BY <1>3, <1>5, <1>6, <1>9 DEF Distance
  <2> QED BY <1>1, <1>3, <1>4, <1>6, <1>7, <1>9, <2>1, <2>2 DEF short
<1> QED BY <1>8, <1>9

(* Using the inventory: a repayment leaves the short as it is; a sale raises  *)
(* it by what is sold and leaves the debt as it is.                          *)
LEMMA Used ==
  ASSUME price \in Prices, NEW p \in Positions, NEW move, NEW bad \in BOOLEAN,
         move.amount \in Nat, move.repay \in BOOLEAN,
         move.repay => move.amount <= p.debt /\ move.amount <= Net(p.idle0),
         ~move.repay => move.amount <= Net(p.idle0) + Net(p.rm0)
  PROVE  /\ InventoryUsed(p, move, bad) \in Positions
         /\ move.repay => /\ Short(InventoryUsed(p, move, bad)) = Short(p)
                          /\ InventoryUsed(p, move, bad).debt = p.debt - move.amount
         /\ ~move.repay => /\ Short(InventoryUsed(p, move, bad)) = Short(p) + move.amount
                           /\ InventoryUsed(p, move, bad).debt = p.debt
<1> DEFINE m == move.amount
           pulled == Excess(m, Net(p.idle0))
           q == InventoryUsed(p, move, bad)
<1>1. /\ p.debt \in Nat /\ p.coll \in Nat /\ p.idle0 \in Nat /\ p.idle1 \in Nat /\ p.rm0 \in Nat
      /\ m \in Nat /\ Dust \in Nat
  BY HedgeAssumption DEF Positions, HedgeAssumption
<1>2. /\ Net(p.idle0) \in Nat /\ Net(p.idle0) <= p.idle0
      /\ Net(p.rm0) \in Nat /\ Net(p.rm0) <= p.rm0
  BY <1>1, NetTyped
<1>3. CASE m = 0
  <2>1. q = p
    BY <1>3 DEF InventoryUsed
  <2> QED BY <1>1, <1>3, <2>1, ShortTyped
<1>4. CASE m # 0 /\ move.repay
  <2> DEFINE n == [p EXCEPT !.debt = @ - m, !.idle0 = @ - m]
  <2>1. q = n
    BY <1>4 DEF InventoryUsed
  <2>2. p.debt - m \in Nat /\ p.idle0 - m \in Nat /\ m <= Net(p.idle0)
    BY <1>1, <1>2, <1>4
  <2>3. n \in Positions /\ n.debt = p.debt - m /\ n.idle0 = p.idle0 - m /\ n.rm0 = p.rm0
    BY <2>2 DEF Positions
  <2>4. Net(p.idle0 - m) = Net(p.idle0) - m
    BY <1>1, <2>2 DEF Net, Excess
  <2> HIDE DEF n, q, m
  <2>5. Short(q) = Short(p)
    BY <1>1, <1>2, <2>1, <2>3, <2>4 DEF Short
  <2> QED BY <1>4, <2>1, <2>3, <2>5 DEF q, m
<1>5. CASE m # 0 /\ ~move.repay
  <2> DEFINE n == [p EXCEPT !.idle0 = @ + pulled - m, !.rm0 = @ - pulled,
                            !.coll = @ + p.idle1 + Proceeds(m, bad), !.idle1 = 0]
  <2>1. q = n
    BY <1>5 DEF InventoryUsed
  <2>2. Proceeds(m, bad) \in Nat
    BY <1>1, ValueTyped
  <2>3. m <= Net(p.idle0) + Net(p.rm0)
    BY <1>5
  <2> HIDE DEF m, q
  <2>4. /\ pulled \in Nat /\ p.idle0 + pulled - m \in Nat /\ p.rm0 - pulled \in Nat
        /\ Net(p.idle0 + pulled - m) + m = Net(p.idle0) + pulled
        /\ Net(p.rm0 - pulled) = Net(p.rm0) - pulled
    <3>1. CASE m <= Net(p.idle0)
      <4>1. pulled = 0
        BY <1>1, <1>2, <3>1 DEF Excess
      <4> HIDE DEF pulled
      <4>2. p.idle0 + pulled - m = p.idle0 - m /\ p.rm0 - pulled = p.rm0 /\ p.idle0 - m \in Nat
        BY <1>1, <1>2, <3>1, <4>1
      <4>3. Net(p.idle0 - m) + m = Net(p.idle0)
        BY <1>1, <3>1, <4>2 DEF Net, Excess
      <4> QED BY <1>1, <1>2, <4>1, <4>2, <4>3
    <3>2. CASE m > Net(p.idle0)
      <4>1. pulled = m - Net(p.idle0)
        BY <1>1, <1>2, <3>2 DEF Excess
      <4> HIDE DEF pulled
      <4>2. pulled \in Nat /\ pulled > 0 /\ pulled <= Net(p.rm0)
        BY <1>1, <1>2, <2>3, <3>2, <4>1
      <4>3. p.idle0 + pulled - m = p.idle0 - Net(p.idle0)
        BY <1>1, <1>2, <4>1
      <4>4. Net(p.idle0 - Net(p.idle0)) = 0
        BY <1>1 DEF Net, Excess
      <4>5. Net(p.rm0 - pulled) = Net(p.rm0) - pulled /\ p.rm0 - pulled \in Nat
        BY <1>1, <4>2 DEF Net, Excess
      <4> QED BY <1>1, <1>2, <4>1, <4>2, <4>3, <4>4, <4>5
    <3> QED BY <1>1, <1>2, <3>1, <3>2
  <2> HIDE DEF pulled
  <2>5. p.coll + p.idle1 + Proceeds(m, bad) \in Nat
    BY <1>1, <2>2
  <2>6. /\ n \in Positions /\ n.debt = p.debt
        /\ n.idle0 = p.idle0 + pulled - m /\ n.rm0 = p.rm0 - pulled
    BY <1>1, <2>4, <2>5 DEF Positions
  <2>7. Net(p.idle0 + pulled - m) \in Nat /\ Net(p.rm0 - pulled) \in Nat
    BY <2>4, NetTyped
  <2> HIDE DEF n
  <2>8. Short(q) = Short(p) + m
    BY <1>1, <1>2, <2>1, <2>4, <2>6, <2>7 DEF Short
  <2> QED BY <1>5, <2>1, <2>6, <2>8 DEF q, m
<1> QED BY <1>3, <1>4, <1>5

(* The short after an adjustment: the target, or what a step of the inventory *)
(* alone has made of it.                                                     *)
LEMMA Executed ==
  ASSUME price \in Prices, NEW p \in Positions, NEW target \in Nat, NEW strict \in BOOLEAN,
         NEW bad \in BOOLEAN, NEW move, move = Inventory(p, target, strict),
         NEW q, q = InventoryUsed(p, move, bad),
         ExecuteHedgeAdjustment(p, target, strict, bad)
  PROVE  /\ pos' \in Positions /\ q \in Positions
         /\ Admitted(move, target, strict)
         /\ move.repay => Short(q) = Short(p) /\ q.debt = p.debt - move.amount
         /\ ~move.repay => Short(q) = Short(p) + move.amount /\ q.debt = p.debt
         /\ move.only => Short(pos') = Short(q) /\ pos'.debt = q.debt
         /\ ~move.only => Short(pos') = target /\ pos'.debt = q.debt + target - Short(q)
         /\ ~move.only /\ Short(q) < target => ~stopped
         /\ pending' = (move.only /\ target # 0 /\ Short(q) < target /\ q.debt > Short(q))
         /\ cooling \in BOOLEAN => cooling' \in BOOLEAN
<1>1. /\ move.amount \in Nat /\ move.amount <= move.stock
      /\ move.repay = (target = 0 /\ Short(p) >= 0)
      /\ move.repay => move.amount <= p.debt /\ move.stock = Net(p.idle0)
      /\ ~move.repay => move.stock = IF Short(p) < target THEN p.debt - Short(p) ELSE 0
  BY Planned
<1>2. /\ p.debt \in Nat /\ Short(p) \in Int /\ Short(p) = p.debt - Net(p.idle0) - Net(p.rm0)
      /\ Net(p.idle0) \in Nat /\ Net(p.rm0) \in Nat
  BY ShortTyped, NetTyped
<1>3. /\ move.repay \in BOOLEAN
      /\ move.repay => move.amount <= p.debt /\ move.amount <= Net(p.idle0)
      /\ ~move.repay => move.amount <= Net(p.idle0) + Net(p.rm0)
  BY <1>1, <1>2
<1>4. /\ q \in Positions
      /\ move.repay => Short(q) = Short(p) /\ q.debt = p.debt - move.amount
      /\ ~move.repay => Short(q) = Short(p) + move.amount /\ q.debt = p.debt
  BY <1>1, <1>3, Used
<1>5. /\ q.debt \in Nat /\ Short(q) \in Int /\ Short(q) <= q.debt
      /\ Short(q) = q.debt - Net(q.idle0) - Net(q.rm0) /\ Net(q.idle0) \in Nat /\ Net(q.rm0) \in Nat
  BY <1>4, ShortTyped, NetTyped
<1> DEFINE missing == IF move.only THEN 0 ELSE target - Short(q)
           adjusted == CASE missing > 0 -> Borrowed(q, missing, bad)
                         [] missing < 0 -> FlashRepaid(q, -missing, Floor, bad)
                         [] OTHER -> q
           idle == missing = 0 /\ move.amount = 0
<1>6. /\ Admitted(move, target, strict)
      /\ missing > 0 => ~stopped
      /\ missing < 0 => FlashCovers(q, -missing, Floor, bad)
      /\ pos' = IF idle THEN p ELSE ReserveRebuilt(adjusted)
      /\ pending' = (move.only /\ target # 0 /\ Short(q) < target /\ q.debt > Short(q))
      /\ cooling' = IF idle \/ move.only THEN cooling ELSE TRUE
  BY DEF ExecuteHedgeAdjustment
<1>7. missing \in Int /\ (missing < 0 => -missing \in 0 .. q.debt) /\ Floor \in Nat
  BY <1>5, HedgeAssumption DEF HedgeAssumption
<1>8. /\ adjusted \in Positions /\ adjusted.debt = q.debt + missing
      /\ adjusted.idle0 = q.idle0 /\ adjusted.rm0 = q.rm0
  <2> HIDE DEF missing
  <2>1. CASE missing > 0
    <3>1. adjusted = Borrowed(q, missing, bad) /\ missing \in Nat
      BY <1>7, <2>1
    <3> HIDE DEF adjusted
    <3> QED BY <1>4, <3>1, BorrowLeg
  <2>2. CASE missing < 0
    <3>1. adjusted = FlashRepaid(q, -missing, Floor, bad)
      BY <1>7, <2>2
    <3>2. q.debt - (-missing) = q.debt + missing
      BY <1>5, <1>7
    <3> QED BY <1>4, <1>6, <1>7, <2>2, <3>1, <3>2, FlashLeg
  <2>3. CASE missing = 0
    <3>1. adjusted = q
      BY <2>3
    <3> QED BY <1>4, <1>5, <2>3, <3>1
  <2> QED BY <1>7, <2>1, <2>2, <2>3
<1>9. CASE idle
  <2>1. q = p /\ missing = 0
    BY <1>9 DEF InventoryUsed
  <2> QED BY <1>4, <1>5, <1>6, <1>9, <2>1
<1>10. CASE ~idle
  <2> HIDE DEF adjusted
  <2> DEFINE r == ReserveRebuilt(adjusted)
  <2>1. /\ r \in Positions /\ r.debt = q.debt + missing
        /\ r.idle0 = q.idle0 /\ r.rm0 = q.rm0
    BY <1>8, ReserveLeg
  <2>2. pos' = r
    BY <1>6, <1>10
  <2> HIDE DEF r, missing
  <2>3. Short(r) = Short(q) + missing
    BY <1>5, <1>7, <2>1 DEF Short
  <2>4. Short(pos') = Short(q) + missing /\ pos'.debt = q.debt + missing /\ pos' \in Positions
    BY <2>1, <2>2, <2>3
  <2>5. /\ move.only => missing = 0
        /\ ~move.only => missing = target - Short(q)
    BY DEF missing
  <2>6. move.only => Short(pos') = Short(q) /\ pos'.debt = q.debt
    BY <1>5, <2>4, <2>5
  <2>7. ~move.only => Short(pos') = target /\ pos'.debt = q.debt + target - Short(q)
    BY <1>5, <2>4, <2>5
  <2>8. ~move.only /\ Short(q) < target => ~stopped
    BY <1>5, <1>6, <2>5
  <2>9. cooling \in BOOLEAN => cooling' \in BOOLEAN
    BY <1>6
  <2> QED BY <1>4, <1>6, <2>4, <2>6, <2>7, <2>8, <2>9
<1> QED BY <1>9, <1>10

-----------------------------------------------------------------------------
(* An adjustment towards the target moves the short towards it, and changes   *)
(* the debt only as the thresholds, the cooldown and a pending correction     *)
(* allow.                                                                   *)
LEMMA AdjustStep ==
  ASSUME HedgeTypeOK, NEW bad \in BOOLEAN, AdjustHedge(bad)
  PROVE  /\ Distance(Short(pos'), lp0) <= Distance(Short(pos), lp0)
         /\ Short(pos) <= lp0 => Short(pos') <= lp0
         /\ Short(pos) >= lp0 => Short(pos') >= lp0
         /\ ~pending' /\ lp0 > 0 => Short(pos') = lp0 \/ pending
         /\ pos'.debt > pos.debt => lp0 > 0 /\ ~stopped
         /\ cooling /\ lp0 > 0 /\ Drift(pos, lp0) < CriticalDrift => pos'.debt = pos.debt
         /\ pending /\ Short(pos) < lp0 /\ pos.debt > Short(pos) => pos'.debt = pos.debt
<1>1. price \in Prices /\ pos \in Positions /\ lp0 \in Nat
  BY DEF HedgeTypeOK
<1>2. PICK p \in Positions, goal \in Nat, strict \in BOOLEAN :
        p = pos /\ goal = lp0 /\ strict /\ ExecuteHedgeAdjustment(p, goal, strict, bad)
  BY <1>1 DEF AdjustHedge
<1>3. PICK move : move = Inventory(p, goal, strict)
  OBVIOUS
<1>4. PICK q : q = InventoryUsed(p, move, bad)
  OBVIOUS
<1>5. /\ price \in Prices /\ p \in Positions /\ goal \in Nat /\ strict \in BOOLEAN /\ bad \in BOOLEAN
      /\ move = Inventory(p, goal, strict) /\ q = InventoryUsed(p, move, bad)
      /\ ExecuteHedgeAdjustment(p, goal, strict, bad)
  BY <1>1, <1>2, <1>3, <1>4
<1> DEFINE before == Short(p)
           after == Short(pos')
           m == move.amount
<1>6. /\ pos' \in Positions /\ q \in Positions
      /\ Admitted(move, goal, strict)
      /\ move.repay => Short(q) = before /\ q.debt = p.debt - m
      /\ ~move.repay => Short(q) = before + m /\ q.debt = p.debt
      /\ move.only => after = Short(q) /\ pos'.debt = q.debt
      /\ ~move.only => after = goal /\ pos'.debt = q.debt + goal - Short(q)
      /\ ~move.only /\ Short(q) < goal => ~stopped
      /\ pending' = (move.only /\ goal # 0 /\ Short(q) < goal /\ q.debt > Short(q))
  BY ONLY <1>5, Executed
<1>7. /\ m \in Nat /\ move.stock \in Nat /\ m <= move.stock
      /\ move.repay = (goal = 0 /\ before >= 0)
      /\ move.continued = (strict /\ pending /\ before < goal /\ p.debt > before)
      /\ move.repay => m <= p.debt
      /\ ~move.repay => /\ move.stock = IF before < goal THEN p.debt - before ELSE 0
                        /\ m > 0 => before + m <= goal
                        /\ move.drift = DriftOf(Distance(before, goal), goal)
      /\ move.only => /\ move.stock > 0
                      /\ \/ goal = 0 \/ move.continued
                         \/ ~move.repay => /\ m < move.stock
                                           /\ before + m < goal
      /\ move.stock > 0 /\ (goal = 0 \/ move.continued) => move.only
  BY <1>1, <1>3, Planned
<1>8. before \in Int /\ p.debt \in Nat /\ before <= p.debt
  BY <1>1, ShortTyped
<1>9. /\ move.stock > 0 => m > 0
      /\ move.repay => move.stock > 0
      /\ move.continued \/ (cooling => move.drift >= CriticalDrift)
  BY <1>2, <1>6 DEF Admitted
<1>10. after \in Int /\ pos'.debt \in Nat /\ Short(q) \in Int
  BY <1>6, ShortTyped
<1>11. Drift(p, goal) = DriftOf(Distance(before, goal), goal)
  BY DEF Drift
<1> HIDE DEF before, after, m
<1> DEFINE Sound ==
      /\ Distance(after, goal) <= Distance(before, goal)
      /\ before <= goal => after <= goal
      /\ before >= goal => after >= goal
      /\ ~pending' /\ goal > 0 => after = goal \/ pending
      /\ pos'.debt > p.debt => goal > 0 /\ ~stopped
      /\ cooling /\ goal > 0 /\ Drift(p, goal) < CriticalDrift => pos'.debt = p.debt
      /\ pending /\ before < goal /\ p.debt > before => pos'.debt = p.debt
<1>12. ASSUME move.repay PROVE Sound
  <2>1. move.only /\ after = before /\ pos'.debt = p.debt - m /\ goal = 0
    BY <1>6, <1>7, <1>9, <1>12
  <2>2. ~(pos'.debt > p.debt)
    BY <1>7, <1>8, <2>1
  <2>3. ~(before < goal)
    <3>1. before >= 0
      BY <1>7, <1>12
    <3> QED BY <1>8, <2>1, <3>1
  <2>4. Distance(after, goal) <= Distance(before, goal)
    BY <1>1, <1>8, <2>1 DEF Distance
  <2> QED BY <1>1, <1>8, <1>10, <2>1, <2>2, <2>3, <2>4
<1>13. ASSUME ~move.repay PROVE Sound
  <2>1. Short(q) = before + m /\ q.debt = p.debt
    BY <1>6, <1>13
  <2>2. before + m <= goal \/ m = 0
    BY <1>7, <1>13
  <2>3. move.continued => move.only
    BY <1>7, <1>8, <1>13
  <2>4. move.only => pos'.debt = p.debt
    BY <1>6, <2>1
  <2>5. Distance(after, goal) <= Distance(before, goal)
    BY <1>1, <1>6, <1>7, <1>8, <2>1, <2>2 DEF Distance
  <2>6. (before <= goal => after <= goal) /\ (before >= goal => after >= goal)
    BY <1>1, <1>6, <1>7, <1>8, <1>10, <2>1, <2>2
  <2>7. ASSUME ~pending', goal > 0, ~pending PROVE after = goal
    <3>1. SUFFICES ASSUME move.only PROVE FALSE
      BY <1>6
    <3>2. ~move.continued
      BY <1>7, <2>7
    <3>3. before < goal /\ move.stock = p.debt - before
      BY <1>7, <1>13, <3>1
    <3>4. m < move.stock /\ before + m < goal
      BY <1>1, <1>7, <1>13, <2>7, <3>1, <3>2
    <3>5. Short(q) < goal /\ q.debt > Short(q) /\ goal # 0
      BY <1>7, <1>8, <2>1, <2>7, <3>3, <3>4
    <3> QED BY <1>6, <2>7, <3>1, <3>5
  <2>8. ASSUME pos'.debt > p.debt PROVE goal > 0 /\ ~stopped
    <3>1. ~move.only
      BY <1>8, <2>4, <2>8
    <3>2. Short(q) < goal
      BY <1>1, <1>6, <1>8, <1>10, <2>1, <2>8, <3>1
    <3>3. before < goal
      BY <1>1, <1>7, <1>8, <2>1, <3>2
    <3>4. goal # 0
      BY <1>7, <1>8, <1>13, <3>1, <3>3
    <3> QED BY <1>1, <1>6, <3>1, <3>2, <3>4
  <2>9. ASSUME cooling, goal > 0, Drift(p, goal) < CriticalDrift PROVE pos'.debt = p.debt
    <3>1. move.drift < CriticalDrift
      BY <1>7, <1>11, <1>13, <2>9
    <3>2. move.drift \in Int /\ CriticalDrift \in Int
      <4>1. CriticalDrift \in Nat
        BY HedgeAssumption DEF HedgeAssumption
      <4>2. Distance(before, goal) \in Nat
        BY <1>1, <1>8 DEF Distance
      <4>3. Distance(before, goal) * 100 \in Nat /\ goal \in Nat \ {0}
        BY <1>1, <2>9, <4>2
      <4>4. DriftOf(Distance(before, goal), goal) \in Nat
        BY <4>3, Quotient DEF DriftOf
      <4> QED BY <1>7, <1>13, <4>1, <4>4
    <3> QED BY <1>9, <2>3, <2>4, <2>9, <3>1, <3>2
  <2>10. pending /\ before < goal /\ p.debt > before => pos'.debt = p.debt
    BY <1>2, <1>7, <2>3, <2>4
  <2> QED BY <2>5, <2>6, <2>7, <2>8, <2>9, <2>10
<1>14. Sound
  BY <1>12, <1>13
<1> QED BY <1>2, <1>14 DEF before, after

(***************************************************************************)
(* An adjustment of the hedge is sound, whatever the prices and thresholds.  *)
(***************************************************************************)
LEMMA AdjustedTyped ==
  ASSUME HedgeTypeOK, NEW bad \in BOOLEAN, AdjustHedge(bad)
  PROVE  HedgeTypeOK'
<1>1. /\ price \in Prices /\ pos \in Positions /\ lp0 \in Nat /\ cooling \in BOOLEAN
      /\ UNCHANGED <<lp0, price, stopped, pauseMode, hasPosition, events>>
  BY DEF HedgeTypeOK, AdjustHedge
<1>2. PICK p \in Positions, goal \in Nat, strict \in BOOLEAN :
        p = pos /\ goal = lp0 /\ strict /\ ExecuteHedgeAdjustment(p, goal, strict, bad)
  BY <1>1 DEF AdjustHedge
<1>3. PICK move : move = Inventory(p, goal, strict)
  OBVIOUS
<1>4. PICK q : q = InventoryUsed(p, move, bad)
  OBVIOUS
<1>5. /\ price \in Prices /\ p \in Positions /\ goal \in Nat /\ strict \in BOOLEAN /\ bad \in BOOLEAN
      /\ move = Inventory(p, goal, strict) /\ q = InventoryUsed(p, move, bad)
      /\ ExecuteHedgeAdjustment(p, goal, strict, bad)
  BY <1>1, <1>2, <1>3, <1>4
<1>6. /\ pos' \in Positions /\ (cooling \in BOOLEAN => cooling' \in BOOLEAN)
      /\ pending' = (move.only /\ goal # 0 /\ Short(q) < goal /\ q.debt > Short(q))
  BY ONLY <1>5, Executed
<1> QED BY <1>1, <1>6 DEF HedgeTypeOK

LEMMA ChangedTyped ==
  ASSUME HedgeTypeOK, NEW target \in Inventories, NEW bad \in BOOLEAN, ChangeRange(target, bad),
         events' \in 0 .. MaxEvents
  PROVE  HedgeTypeOK'
<1>1. /\ price \in Prices /\ pos \in Positions /\ cooling \in BOOLEAN
      /\ lp0' = target /\ UNCHANGED <<price, stopped, pauseMode, hasPosition>>
  BY DEF HedgeTypeOK, ChangeRange
<1>2. target \in Nat /\ [pos EXCEPT !.rm0 = 0] \in Positions
  BY <1>1, HedgeAssumption DEF HedgeAssumption, Positions
<1>3. PICK p \in Positions, strict \in BOOLEAN : ExecuteHedgeAdjustment(p, target, strict, bad)
  BY <1>2 DEF ChangeRange
<1>4. PICK move : move = Inventory(p, target, strict)
  OBVIOUS
<1>5. PICK q : q = InventoryUsed(p, move, bad)
  OBVIOUS
<1>6. /\ price \in Prices /\ p \in Positions /\ target \in Nat /\ strict \in BOOLEAN /\ bad \in BOOLEAN
      /\ move = Inventory(p, target, strict) /\ q = InventoryUsed(p, move, bad)
      /\ ExecuteHedgeAdjustment(p, target, strict, bad)
  BY <1>1, <1>2, <1>3, <1>4, <1>5
<1>7. /\ pos' \in Positions /\ (cooling \in BOOLEAN => cooling' \in BOOLEAN)
      /\ pending' = (move.only /\ target # 0 /\ Short(q) < target /\ q.debt > Short(q))
  BY ONLY <1>6, Executed
<1> QED BY <1>1, <1>2, <1>7 DEF HedgeTypeOK

-----------------------------------------------------------------------------
(* A settlement takes the share of every balance, rounded down; what the      *)
(* purchase does not use of the leaver's collateral goes to the leaver.       *)
LEMMA PartialSettlement ==
  ASSUME HedgeTypeOK, NEW s \in 0 .. 100, NEW bad \in BOOLEAN, Settle(s, FALSE, bad)
  PROVE  /\ pos' = [debt |-> pos.debt - Part(pos.debt, s), coll |-> pos.coll - Part(pos.coll, s),
                    idle0 |-> pos.idle0 - Part(pos.idle0, s),
                    idle1 |-> pos.idle1 - Part(pos.idle1, s),
                    rm0 |-> pos.rm0 - Part(pos.rm0, s)]
         /\ lp0' = lp0 - Part(lp0, s)
<1> DEFINE gone == Leaving(s, FALSE)
           purchase == IF gone.shortfall = 0 THEN 0 ELSE Cost(Owed(gone.shortfall), bad)
           rest == pos.idle1 - gone.idle1 + gone.coll - purchase - Excess(gone.coll, purchase)
<1>1. /\ price \in Prices /\ lp0 \in Nat /\ pos.debt \in Nat /\ pos.coll \in Nat
      /\ pos.idle0 \in Nat /\ pos.idle1 \in Nat /\ pos.rm0 \in Nat
  BY DEF HedgeTypeOK, Positions
<1>2. /\ Part(pos.debt, s) \in Nat /\ Part(pos.coll, s) \in Nat /\ Part(pos.idle0, s) \in Nat
      /\ Part(pos.idle1, s) \in Nat /\ Part(pos.rm0, s) \in Nat /\ Part(lp0, s) \in Nat
  BY <1>1, PartBounds
<1>3. /\ gone.debt = Part(pos.debt, s) /\ gone.coll = Part(pos.coll, s)
      /\ gone.idle0 = Part(pos.idle0, s) /\ gone.idle1 = Part(pos.idle1, s)
      /\ gone.rm0 = Part(pos.rm0, s) /\ gone.lp0 = Part(lp0, s)
  BY DEF Leaving, IdleShare
<1>4. gone.shortfall \in Nat
  <2>1. gone.shortfall = IF pos.debt = 0 THEN 0
                         ELSE Excess(Part(pos.debt, s), Part(lp0, s) + Part(pos.rm0, s) + Part(pos.idle0, s))
    BY DEF Leaving, IdleShare
  <2>2. Part(lp0, s) + Part(pos.rm0, s) + Part(pos.idle0, s) \in Nat
    BY <1>2
  <2> HIDE DEF gone
  <2> QED BY <1>2, <2>1, <2>2 DEF Excess
<1>5. /\ pos' = [debt |-> pos.debt - gone.debt, coll |-> pos.coll - gone.coll,
                 idle0 |-> pos.idle0 - gone.idle0, idle1 |-> rest, rm0 |-> pos.rm0 - gone.rm0]
      /\ lp0' = lp0 - gone.lp0 /\ purchase <= gone.coll
  BY DEF Settle, Settlement, Purse
<1> HIDE DEF gone
<1>6. purchase \in Nat
  BY <1>1, <1>4, ValueTyped
<1> HIDE DEF purchase
<1>7. rest = pos.idle1 - Part(pos.idle1, s)
  BY <1>1, <1>2, <1>3, <1>5, <1>6 DEF Excess
<1> QED BY <1>3, <1>5, <1>7

LEMMA FullSettlement ==
  ASSUME HedgeTypeOK, NEW bad \in BOOLEAN, Settle(100, TRUE, bad)
  PROVE  pos' = [debt |-> 0, coll |-> 0, idle0 |-> 0, idle1 |-> 0, rm0 |-> 0] /\ lp0' = 0
<1>1. /\ lp0 \in Nat /\ pos.debt \in Nat /\ pos.coll \in Nat
      /\ pos.idle0 \in Nat /\ pos.idle1 \in Nat /\ pos.rm0 \in Nat
  BY DEF HedgeTypeOK, Positions
<1> DEFINE gone == Leaving(100, TRUE)
<1>2. /\ gone.debt = pos.debt /\ gone.coll = pos.coll /\ gone.idle0 = pos.idle0
      /\ gone.rm0 = pos.rm0 /\ gone.lp0 = lp0
  BY DEF Leaving, IdleShare
<1>3. /\ pos' = [debt |-> pos.debt - gone.debt, coll |-> pos.coll - gone.coll,
                 idle0 |-> pos.idle0 - gone.idle0, idle1 |-> 0, rm0 |-> pos.rm0 - gone.rm0]
      /\ lp0' = lp0 - gone.lp0
  BY DEF Settle, Settlement
<1> HIDE DEF gone
<1>4. /\ pos.debt - gone.debt = 0 /\ pos.coll - gone.coll = 0 /\ pos.idle0 - gone.idle0 = 0
      /\ pos.rm0 - gone.rm0 = 0 /\ lp0 - gone.lp0 = 0
  BY <1>1, <1>2
<1> QED BY <1>3, <1>4

LEMMA ShareKept ==
  ASSUME NEW x \in Nat, NEW s \in 0 .. 100
  PROVE  /\ x - Part(x, s) \in Nat /\ (x - Part(x, s)) * 100 >= x * (100 - s)
         /\ (x - Part(x, s)) * 100 < x * (100 - s) + 100
<1> DEFINE y == Part(x, s)
           z == x * s
<1>1. y \in Nat /\ y <= x /\ y * 100 <= z /\ z < y * 100 + 100
  BY PartBounds
<1>3. z \in Nat
  OBVIOUS
<1>2. x * (100 - s) = x * 100 - z
  OBVIOUS
<1> HIDE DEF y, z
<1>4. x - y \in Nat /\ (x - y) * 100 >= x * (100 - s) /\ (x - y) * 100 < x * (100 - s) + 100
  BY <1>1, <1>2, <1>3
<1> QED BY <1>4 DEF y

LEMMA SettledTyped ==
  ASSUME HedgeTypeOK, NEW s \in 0 .. 100, NEW full \in BOOLEAN, NEW bad \in BOOLEAN,
         full => s = 100, Settle(s, full, bad), events' \in 0 .. MaxEvents
  PROVE  HedgeTypeOK'
<1>1. /\ lp0 \in Nat /\ pos.debt \in Nat /\ pos.coll \in Nat
      /\ pos.idle0 \in Nat /\ pos.idle1 \in Nat /\ pos.rm0 \in Nat
      /\ UNCHANGED <<price, pending, cooling, stopped, pauseMode>> /\ hasPosition' \in BOOLEAN
  BY DEF HedgeTypeOK, Positions, Settle
<1>2. pos' \in Positions /\ lp0' \in Nat
  <2>1. CASE full
    <3>1. Settle(100, TRUE, bad)
      BY <2>1
    <3>2. pos' = [debt |-> 0, coll |-> 0, idle0 |-> 0, idle1 |-> 0, rm0 |-> 0] /\ lp0' = 0
      BY <3>1, FullSettlement
    <3> QED BY ONLY <3>2 DEF Positions
  <2>2. CASE ~full
    <3>1. Settle(s, FALSE, bad)
      BY <2>2
    <3>2. /\ pos.debt - Part(pos.debt, s) \in Nat /\ pos.coll - Part(pos.coll, s) \in Nat
          /\ pos.idle0 - Part(pos.idle0, s) \in Nat /\ pos.idle1 - Part(pos.idle1, s) \in Nat
          /\ pos.rm0 - Part(pos.rm0, s) \in Nat /\ lp0 - Part(lp0, s) \in Nat
      BY <1>1, ShareKept
    <3>3. /\ pos' = [debt |-> pos.debt - Part(pos.debt, s), coll |-> pos.coll - Part(pos.coll, s),
                     idle0 |-> pos.idle0 - Part(pos.idle0, s),
                     idle1 |-> pos.idle1 - Part(pos.idle1, s),
                     rm0 |-> pos.rm0 - Part(pos.rm0, s)]
          /\ lp0' = lp0 - Part(lp0, s)
      BY <3>1, PartialSettlement
    <3> QED BY ONLY <3>2, <3>3 DEF Positions
  <2> QED BY <2>1, <2>2
<1> QED BY <1>1, <1>2 DEF HedgeTypeOK

-----------------------------------------------------------------------------
(* A repair.  What it repays directly is idle and owed, and what a flash loan  *)
(* repays is owed still, whenever the repair is attempted at all.             *)
LEMMA DirectBounded ==
  ASSUME price \in Prices, NEW p \in Positions, Base(p.debt) > 0,
         RepairTarget * Base(p.debt) > Threshold * p.coll
  PROVE  Direct(p) \in Nat /\ Direct(p) <= p.idle0 /\ Direct(p) <= p.debt
<1> DEFINE base == Base(p.debt)
           required == RepairTarget * base
           secured == Threshold * p.coll
           short == CeilDiv(p.debt * (required - secured), required)
           buffer == p.debt \div base + 1
           needed == IF p.debt - short < buffer THEN p.debt ELSE short + buffer
<1>1. /\ p.debt \in Nat /\ p.idle0 \in Nat /\ p.coll \in Nat
      /\ RepairTarget \in Nat \ {0} /\ Threshold \in Nat
  BY HedgeAssumption DEF HedgeAssumption, Positions, RepairTarget
<1>2. base \in Nat \ {0}
  <2>1. Base(p.debt) \in Nat
    BY ONLY <1>1, price \in Prices, ValueTyped
  <2> QED BY <2>1
<1>3. Direct(p) = Least(p.idle0, needed)
  BY DEF Direct
<1> HIDE DEF base
<1>4. secured \in Nat /\ required \in Nat
  BY <1>1, <1>2, Spread
<1>5. required \in Nat \ {0} /\ required - secured \in Nat
  BY <1>4 DEF base
<1> HIDE DEF required, secured
<1>6. p.debt * (required - secured) \in Nat
  BY <1>1, <1>5, Spread
<1>7. short \in Nat
  BY <1>5, <1>6, CeilDivTyped
<1>8. buffer \in Nat \ {0}
  BY <1>1, <1>2, Quotient
<1> HIDE DEF short, buffer
<1>9. needed \in Nat /\ needed <= p.debt
  BY <1>1, <1>7, <1>8
<1> HIDE DEF needed
<1> QED BY <1>1, <1>3, <1>9 DEF Least

LEMMA FlashBounded ==
  ASSUME price \in Prices, NEW p \in Positions, Base(p.debt) > 0, NEW direct \in 0 .. p.debt,
         NeedsFlash(p, direct) => RepairTarget > FlashCost
  PROVE  Flash(p, direct) \in 0 .. p.debt - direct
<1> DEFINE base == Base(p.debt)
           rest == RestBase(p, direct)
           left == p.debt - direct
           gap == RepairTarget * rest - Threshold * p.coll
           repaid == Repaid(p, direct, FlashCost)
<1>1. /\ p.debt \in Nat /\ p.coll \in Nat /\ left \in Nat
      /\ RepairTarget \in Nat /\ Threshold \in Nat /\ Slippage \in Nat /\ PremiumRate \in Nat
      /\ price \in Nat /\ Unit \in Nat \ {0}
  BY HedgeAssumption DEF HedgeAssumption, Positions, RepairTarget
<1>2. base \in Nat
  BY <1>1, ValueTyped
<1>3. p.debt # 0
  <2>1. ASSUME p.debt = 0 PROVE FALSE
    <3>1. p.debt * price = 0 /\ 0 \div Unit = 0
      BY <1>1, <2>1
    <3> QED BY <3>1 DEF Base
  <2> QED BY <2>1
<1>4. CASE ~NeedsFlash(p, direct)
  BY <1>1, <1>4 DEF Flash
<1>5. CASE NeedsFlash(p, direct)
  <2>1. rest \in Nat
    <3> HIDE DEF base
    <3>1. direct \in Nat /\ direct <= p.debt /\ p.debt \in Nat \ {0}
      BY <1>1, <1>3
    <3>2. base * direct \in Nat /\ base * direct <= base * p.debt
      BY <1>1, <1>2, <3>1, Spread, Monotone
    <3> DEFINE y == (base * direct) \div p.debt
    <3>3. y \in Nat /\ y <= base
      BY <1>2, <3>1, <3>2, QuotientBelow
    <3>4. rest = base - y
      BY DEF RestBase, base
    <3> HIDE DEF y, rest
    <3> QED BY <1>2, <3>3, <3>4
  <2>2. rest # 0 /\ RepairTarget * rest > Threshold * p.coll /\ RepairTarget > FlashCost
    BY <1>5 DEF NeedsFlash
  <2> HIDE DEF rest
  <2>3. RepairTarget * rest \in Nat /\ Threshold * p.coll \in Nat
    BY <1>1, <2>1, Spread
  <2>4. gap \in Nat
    BY <2>2, <2>3
  <2>5. FlashCost \in Nat
    <3>1. 100 + Slippage + PremiumRate + 1 \in Nat
      BY <1>1
    <3>2. Threshold * (100 + Slippage + PremiumRate + 1) \in Nat
      BY <1>1, <3>1, Spread
    <3> QED BY <3>2, CeilDivTyped DEF FlashCost
  <2>6. RepairTarget - FlashCost \in Nat \ {0}
    BY <1>1, <2>2, <2>5
  <2>7. repaid = CeilDiv(gap, RepairTarget - FlashCost)
    BY DEF Repaid, rest
  <2> HIDE DEF gap, repaid
  <2>8. repaid \in Nat
    BY <2>4, <2>6, <2>7, CeilDivTyped
  <2>9. left * repaid \in Nat
    BY <1>1, <2>8, Spread
  <2>10. CeilDiv(left * repaid, rest) \in Nat
    BY <2>1, <2>2, <2>9, CeilDivTyped
  <2>11. Flash(p, direct) = Least(left, CeilDiv(left * repaid, rest))
    BY <1>5 DEF Flash, repaid, rest
  <2> QED BY <1>1, <2>10, <2>11 DEF Least
<1> QED BY <1>4, <1>5

LEMMA RepairedTyped ==
  ASSUME HedgeTypeOK, NEW bad \in BOOLEAN, NEW market \in BOOLEAN, RepairHealthFactor(bad, market)
  PROVE  HedgeTypeOK'
<1>1. /\ price \in Prices /\ pos \in Positions /\ OpTarget \in Nat
      /\ UNCHANGED <<lp0, price, pending, cooling, stopped, pauseMode, hasPosition, events>>
  BY HedgeAssumption DEF HedgeAssumption, HedgeTypeOK, RepairHealthFactor
<1>2. PICK p \in Positions : p = pos
  BY <1>1
<1> DEFINE direct == Direct(p)
           flash == Flash(p, direct)
           q == [p EXCEPT !.debt = @ - direct, !.idle0 = @ - direct]
           flashed == flash > 0 /\ market /\ FlashCovers(q, flash, OpTarget, bad)
<1>3. pos' = IF flashed THEN FlashRepaid(q, flash, OpTarget, bad) ELSE q
  BY <1>2 DEF RepairHealthFactor, RepairPlan
<1>4. /\ Base(p.debt) > 0 /\ RepairTarget * Base(p.debt) > Threshold * p.coll
      /\ NeedsFlash(p, direct) => RepairTarget > FlashCost
  BY <1>2 DEF RepairHealthFactor, Ailing, Repairs, RepairPlan
<1>5. p.debt \in Nat /\ p.idle0 \in Nat
  BY DEF Positions
<1>6. direct \in Nat /\ direct <= p.idle0 /\ direct <= p.debt
  BY <1>1, <1>4, DirectBounded
<1>7. flash \in 0 .. p.debt - direct
  <2> HIDE DEF direct
  <2> QED BY <1>1, <1>4, <1>5, <1>6, FlashBounded
<1> HIDE DEF direct, flash
<1>8. q \in Positions /\ q.debt = p.debt - direct
  <2>1. p.debt - direct \in Nat /\ p.idle0 - direct \in Nat
    BY <1>5, <1>6
  <2> QED BY <2>1 DEF Positions
<1> HIDE DEF q
<1>9. flashed => FlashRepaid(q, flash, OpTarget, bad) \in Positions
  BY <1>1, <1>7, <1>8, FlashLeg
<1>10. pos' \in Positions
  BY <1>3, <1>8, <1>9
<1> QED BY <1>1, <1>10 DEF HedgeTypeOK

-----------------------------------------------------------------------------
(* The rest of the actions, and type correctness.                            *)
LEMMA OpenedTyped ==
  ASSUME HedgeTypeOK, NEW c \in Supplies, OpenHedge(c), events' \in 0 .. MaxEvents
  PROVE  HedgeTypeOK'
<1> DEFINE ltv == (Threshold * 100) \div OpTarget
           b == (((c * ltv) \div 100) * Unit) \div price
           p == [pos EXCEPT !.coll = @ + c, !.debt = @ + b]
           q == IF hasPosition THEN p ELSE [p EXCEPT !.rm0 = 0]
<1>1. /\ price \in Nat \ {0} /\ Unit \in Nat /\ c \in Nat /\ Threshold \in Nat
      /\ OpTarget \in Nat \ {0} /\ pos \in Positions /\ lp0 \in Nat
  BY HedgeAssumption DEF HedgeAssumption, HedgeTypeOK
<1>2. b \in Nat
  <2>1. Threshold * 100 \in Nat
    BY <1>1
  <2>2. ltv \in Nat
    BY <1>1, <2>1, Quotient
  <2> HIDE DEF ltv
  <2>3. c * ltv \in Nat
    BY <1>1, <2>2, Spread
  <2>4. (c * ltv) \div 100 \in Nat
    BY <2>3
  <2>5. ((c * ltv) \div 100) * Unit \in Nat
    BY <1>1, <2>4, Spread
  <2> QED BY <1>1, <2>5, Quotient
<1>3. pos' = q /\ lp0' = lp0 + b + pos.rm0 - q.rm0 /\ hasPosition' = TRUE
      /\ UNCHANGED <<price, pending, cooling, stopped, pauseMode>>
  BY DEF OpenHedge
<1> HIDE DEF b
<1>4. p \in Positions /\ p.rm0 = pos.rm0 /\ pos.rm0 \in Nat
  <2>1. pos.coll + c \in Nat /\ pos.debt + b \in Nat
    BY <1>1, <1>2 DEF Positions
  <2> QED BY <1>1, <2>1 DEF Positions
<1> HIDE DEF p
<1>5. q \in Positions /\ (q.rm0 = pos.rm0 \/ q.rm0 = 0)
  BY <1>4 DEF Positions
<1> HIDE DEF q
<1>6. lp0 + b + pos.rm0 - q.rm0 \in Nat
  BY <1>1, <1>2, <1>4, <1>5
<1> QED BY <1>3, <1>5, <1>6 DEF HedgeTypeOK

LEMMA HedgeTypeInit == HedgeInit => HedgeTypeOK
<1> SUFFICES ASSUME HedgeInit PROVE HedgeTypeOK
  OBVIOUS
<1>1. price \in Prices /\ lp0 \in Nat /\ MaxEvents \in Nat /\ OpTarget \in Nat /\ Threshold \in Nat \ {0}
  BY HedgeAssumption DEF HedgeAssumption, HedgeInit
<1>2. Base(lp0) \in Nat
  BY <1>1, ValueTyped
<1>3. Base(lp0) * OpTarget \in Nat
  BY <1>1, <1>2, Spread
<1>4. CeilDiv(Base(lp0) * OpTarget, Threshold) \in Nat
  BY <1>1, <1>3, CeilDivTyped
<1>5. pos \in Positions
  <2>1. pos = [debt |-> lp0, coll |-> CeilDiv(Base(lp0) * OpTarget, Threshold),
               idle0 |-> 0, idle1 |-> 0, rm0 |-> 0]
    BY DEF HedgeInit
  <2> QED BY ONLY <1>1, <1>4, <2>1 DEF Positions
<1>6. /\ pending = FALSE /\ cooling = FALSE /\ stopped = FALSE
      /\ pauseMode = "open" /\ hasPosition = TRUE /\ events = 0
  BY DEF HedgeInit
<1>7. {pending, cooling, stopped, hasPosition} \subseteq BOOLEAN
  BY <1>6
<1>8. events \in 0 .. MaxEvents /\ pauseMode \in {"open", "held", "exit"}
  BY ONLY <1>1, <1>6
<1> QED BY ONLY <1>1, <1>5, <1>7, <1>8 DEF HedgeTypeOK

LEMMA HedgeTypeStep ==
  ASSUME HedgeTypeOK, [HedgeNext]_hedgeVars
  PROVE  HedgeTypeOK'
<1>1. /\ pos.debt \in Nat /\ pos.coll \in Nat /\ pos.idle0 \in Nat /\ pos.idle1 \in Nat
      /\ pos.rm0 \in Nat /\ lp0 \in Nat
  BY DEF HedgeTypeOK, Positions
<1>2. CASE Event
  <2>1. events' \in 0 .. MaxEvents
    BY <1>2, HedgeAssumption DEF Event, HedgeTypeOK, HedgeAssumption
  <2>2. ASSUME NEW s \in Fractions, NEW bad \in BOOLEAN, Settle(s, FALSE, bad) PROVE HedgeTypeOK'
    <3>1. PICK full \in BOOLEAN : ~full /\ Settle(s, full, bad)
      BY <2>2
    <3>2. s \in 0 .. 100
      BY HedgeAssumption DEF HedgeAssumption
    <3> QED BY <2>1, <3>1, <3>2, SettledTyped
  <2>3. ASSUME NEW bad \in BOOLEAN, Settle(100, TRUE, bad) PROVE HedgeTypeOK'
    <3>1. PICK full \in BOOLEAN : full /\ Settle(100, full, bad)
      BY <2>3
    <3>2. PICK s \in 0 .. 100 : s = 100
      OBVIOUS
    <3> QED BY <2>1, <3>1, <3>2, SettledTyped
  <2>4. ASSUME NEW c \in Supplies, OpenHedge(c) PROVE HedgeTypeOK'
    BY <2>1, <2>4, OpenedTyped
  <2>5. ASSUME NEW target \in Inventories \ {0}, NEW bad \in BOOLEAN, ChangeRange(target, bad)
        PROVE  HedgeTypeOK'
    BY <2>1, <2>5, ChangedTyped
  <2>6. CASE EmergencyBurnHedgedPosition
    <3>1. pos.rm0 + lp0 \in Nat
      BY <1>1
    <3>2. pos' \in Positions
      BY <2>6, <3>1 DEF EmergencyBurnHedgedPosition, HedgeTypeOK, Positions
    <3> QED BY <2>1, <2>6, <3>2 DEF EmergencyBurnHedgedPosition, HedgeTypeOK
  <2>7. CASE SetPaused
    BY <2>1, <2>7 DEF SetPaused, HedgeTypeOK
  <2>8. ASSUME NEW m \in {"open", "held", "exit"}, SetMode(m) PROVE HedgeTypeOK'
    BY <2>1, <2>8 DEF SetMode, HedgeTypeOK
  <2>9. ASSUME NEW to \in Prices, NEW rest \in Inventories \cup {lp0}, Move(to, rest) PROVE HedgeTypeOK'
    <3>1. rest \in Nat
      BY <1>1, HedgeAssumption DEF HedgeAssumption
    <3> QED BY <2>1, <2>9, <3>1 DEF Move, HedgeTypeOK
  <2>10. CASE Accrue
    <3>1. pos.debt + Interest \in Nat
      BY <1>1, HedgeAssumption DEF HedgeAssumption
    <3>2. pos' \in Positions
      BY <2>10, <3>1 DEF Accrue, HedgeTypeOK, Positions
    <3> QED BY <2>1, <2>10, <3>2 DEF Accrue, HedgeTypeOK
  <2>11. ASSUME NEW where \in {"idle0", "idle1", "rm0"}, Donate(where) PROVE HedgeTypeOK'
    <3>1. /\ Gift \in Nat /\ pos.idle0 + Gift \in Nat /\ pos.idle1 + Gift \in Nat
          /\ pos.rm0 + Gift \in Nat
      BY <1>1, HedgeAssumption DEF HedgeAssumption
    <3>2. pos' \in Positions
      BY <2>11, <3>1 DEF Donate, HedgeTypeOK, Positions
    <3> QED BY <2>1, <2>11, <3>2 DEF Donate, HedgeTypeOK
  <2> QED BY <1>2, <2>2, <2>3, <2>4, <2>5, <2>6, <2>7, <2>8, <2>9, <2>10, <2>11 DEF Event
<1>3. ASSUME NEW bad \in BOOLEAN, AdjustHedge(bad) PROVE HedgeTypeOK'
  BY <1>3, AdjustedTyped
<1>4. ASSUME NEW bad \in BOOLEAN, NEW market \in BOOLEAN, RepairHealthFactor(bad, market)
      PROVE  HedgeTypeOK'
  BY <1>4, RepairedTyped
<1>5. ASSUME NEW bad \in BOOLEAN, CloseAll(bad) PROVE HedgeTypeOK'
  <2>1. pos.rm0 + Excess(pos.idle0, pos.debt) \in Nat
    BY <1>1 DEF Excess
  <2>2. pos' \in Positions
    BY <1>5, <2>1 DEF CloseAll, Positions
  <2> QED BY <1>5, <2>2 DEF CloseAll, HedgeTypeOK
<1>6. CASE RepayDebt(pos.idle0)
  <2>1. pos.debt - Least(pos.idle0, pos.debt) \in Nat /\ pos.idle0 - Least(pos.idle0, pos.debt) \in Nat
    BY <1>1 DEF Least
  <2>2. pos' \in Positions
    BY <1>6, <2>1 DEF RepayDebt, HedgeTypeOK, Positions
  <2> QED BY <1>6, <2>2 DEF RepayDebt, HedgeTypeOK
<1>7. CASE SweepWethAmount(pos.idle0)
  <2>1. pos.idle0 - pos.idle0 \in Nat /\ pos.rm0 + pos.idle0 \in Nat
    BY <1>1
  <2>2. pos' \in Positions
    BY <1>7, <2>1 DEF SweepWethAmount, HedgeTypeOK, Positions
  <2> QED BY <1>7, <2>2 DEF SweepWethAmount, HedgeTypeOK
<1>8. CASE CooldownEnds
  BY <1>8 DEF CooldownEnds, HedgeTypeOK
<1>9. CASE UNCHANGED hedgeVars
  BY <1>9 DEF hedgeVars, HedgeTypeOK
<1> QED BY <1>2, <1>3, <1>4, <1>5, <1>6, <1>7, <1>8, <1>9 DEF HedgeNext

(***************************************************************************)
(* The account and the balances of the hedge stay natural numbers: no action  *)
(* takes more from a balance than is there or repays more than is owed        *)
(* (AaveHedgeManager and its libraries).                                     *)
(***************************************************************************)
THEOREM HedgeTyped == HedgeSpec => []HedgeTypeOK
<1> QED BY HedgeTypeInit, HedgeTypeStep, PTL DEF HedgeSpec

(***************************************************************************)
(* Whatever the prices, thresholds and balances, an adjustment of the hedge   *)
(* moves the short towards its target and never beyond it, borrows nothing    *)
(* without a target, and respects the cooldown and a pending correction       *)
(* (adjustHedge).                                                          *)
(***************************************************************************)
THEOREM HedgeAdjusted == HedgeSpec => AdjustmentSound
<1> DEFINE Sound ==
      (\E bad \in BOOLEAN : AdjustHedge(bad)) =>
        LET before == Short(pos)
            after == Short(pos')
        IN  /\ Distance(after, lp0) <= Distance(before, lp0)
            /\ (before <= lp0 => after <= lp0) /\ (before >= lp0 => after >= lp0)
            /\ ~pending' /\ lp0 > 0 => after = lp0 \/ pending
            /\ pos'.debt > pos.debt => lp0 > 0
            /\ cooling /\ lp0 > 0 /\ Drift(pos, lp0) < CriticalDrift => pos'.debt = pos.debt
            /\ pending /\ before < lp0 /\ pos.debt > before => pos'.debt = pos.debt
<1>1. HedgeTypeOK => Sound
  <2> SUFFICES ASSUME HedgeTypeOK, NEW bad \in BOOLEAN, AdjustHedge(bad)
               PROVE  Sound
    OBVIOUS
  <2> QED BY AdjustStep
<1>2. HedgeTypeOK => [Sound]_hedgeVars
  BY <1>1
<1> QED BY <1>2, HedgeTyped, PTL DEF HedgeSpec, AdjustmentSound

(***************************************************************************)
(* Whoever leaves the hedged pool takes and pays the own share and no more,   *)
(* for every size of the balances, every share and every price of the         *)
(* purchase; the last one leaves nothing (_settleProportional).              *)
(***************************************************************************)
THEOREM HedgeSharesKept == HedgeSpec => OwnShareOnly
<1> DEFINE Fair(s) ==
      /\ \A a \in {"coll", "idle0", "idle1", "rm0"} : pos'[a] * 100 >= pos[a] * (100 - s)
      /\ pos'.debt * 100 < pos.debt * (100 - s) + 100
<1>1. ASSUME HedgeTypeOK, NEW s \in Fractions, NEW bad \in BOOLEAN, Settle(s, FALSE, bad)
      PROVE  Fair(s)
  <2>1. s \in 0 .. 100
    BY HedgeAssumption DEF HedgeAssumption
  <2>2. /\ pos' = [debt |-> pos.debt - Part(pos.debt, s), coll |-> pos.coll - Part(pos.coll, s),
                   idle0 |-> pos.idle0 - Part(pos.idle0, s),
                   idle1 |-> pos.idle1 - Part(pos.idle1, s),
                   rm0 |-> pos.rm0 - Part(pos.rm0, s)]
    BY <1>1, <2>1, PartialSettlement
  <2>3. /\ pos.debt \in Nat /\ pos.coll \in Nat /\ pos.idle0 \in Nat /\ pos.idle1 \in Nat
        /\ pos.rm0 \in Nat
    BY <1>1 DEF HedgeTypeOK, Positions
  <2>4. /\ (pos.coll - Part(pos.coll, s)) * 100 >= pos.coll * (100 - s)
        /\ (pos.idle0 - Part(pos.idle0, s)) * 100 >= pos.idle0 * (100 - s)
        /\ (pos.idle1 - Part(pos.idle1, s)) * 100 >= pos.idle1 * (100 - s)
        /\ (pos.rm0 - Part(pos.rm0, s)) * 100 >= pos.rm0 * (100 - s)
        /\ (pos.debt - Part(pos.debt, s)) * 100 < pos.debt * (100 - s) + 100
    BY ONLY <2>1, <2>3, ShareKept
  <2> QED BY <2>2, <2>4
<1>2. ASSUME HedgeTypeOK, NEW bad \in BOOLEAN, Settle(100, TRUE, bad)
      PROVE  \A a \in DOMAIN pos : pos'[a] = 0
  <2>1. pos' = [debt |-> 0, coll |-> 0, idle0 |-> 0, idle1 |-> 0, rm0 |-> 0]
    BY <1>2, FullSettlement
  <2>2. DOMAIN pos = {"debt", "coll", "idle0", "idle1", "rm0"}
    BY <1>2 DEF HedgeTypeOK, Positions
  <2> QED BY <2>1, <2>2
<1>3. HedgeTypeOK => [/\ \A s \in Fractions, bad \in BOOLEAN : Settle(s, FALSE, bad) => Fair(s)
                      /\ \A bad \in BOOLEAN : Settle(100, TRUE, bad) =>
                           \A a \in DOMAIN pos : pos'[a] = 0]_hedgeVars
  BY <1>1, <1>2
<1> QED BY <1>3, HedgeTyped, PTL DEF HedgeSpec, OwnShareOnly

-----------------------------------------------------------------------------
(***************************************************************************)
(* Exits and repairs stay open.  First arithmetic: what rounding adds, and    *)
(* what a health factor says of the values of debt and collateral.           *)
(***************************************************************************)
LEMMA CeilBounds ==
  ASSUME NEW a \in Nat, NEW d \in Nat \ {0}
  PROVE  /\ CeilDiv(a, d) \in Nat
         /\ a <= CeilDiv(a, d) * d /\ CeilDiv(a, d) * d < a + d
<1> DEFINE n == a + d - 1
           y == n \div d
<1>1. n \in Nat /\ CeilDiv(a, d) = y
  BY DEF CeilDiv
<1> HIDE DEF n
<1>2. y \in Nat /\ y * d <= n /\ n < y * d + d
  BY <1>1
<1> HIDE DEF y
<1>3. y * d \in Nat
  BY <1>2, Spread
<1> QED BY <1>1, <1>2, <1>3 DEF n

LEMMA CancelStrict ==
  ASSUME NEW a \in Nat, NEW b \in Nat, NEW k \in Nat, a * k < b * k
  PROVE  a < b
<1>1. SUFFICES ASSUME b <= a PROVE FALSE
  OBVIOUS
<1>2. b * k <= a * k /\ b * k \in Nat /\ a * k \in Nat
  BY <1>1, Monotone, Spread
<1> QED BY <1>2

LEMMA Times ==
  ASSUME NEW a \in Nat, NEW b \in Nat, NEW c \in Nat
  PROVE  (a * b) * c = a * (b * c) /\ a * (b * c) = b * (a * c) /\ a * b = b * a
OBVIOUS

(* What a value is worth, and when a health factor is reached.               *)
LEMMA BaseBounds ==
  ASSUME price \in Prices, NEW x \in Nat
  PROVE  /\ Base(x) \in Nat /\ x * price \in Nat
         /\ Base(x) * Unit <= x * price /\ x * price < (Base(x) + 1) * Unit
<1>1. price \in Nat /\ Unit \in Nat \ {0}
  BY HedgeAssumption DEF HedgeAssumption
<1> DEFINE y == x * price
           q == y \div Unit
<1>2. y \in Nat /\ Base(x) = q
  BY <1>1, Spread DEF Base
<1> HIDE DEF y
<1>3. q \in Nat /\ q * Unit <= y /\ y < q * Unit + Unit
  BY <1>1, <1>2
<1> HIDE DEF q
<1>4. (q + 1) * Unit = q * Unit + Unit
  BY <1>1, <1>3
<1> QED BY <1>2, <1>3, <1>4 DEF y

LEMMA BaseBelow ==
  ASSUME price \in Prices, NEW x \in Nat, NEW b \in Nat, x * price < (b + 1) * Unit
  PROVE  Base(x) \in Nat /\ Base(x) <= b
<1>1. Unit \in Nat
  BY HedgeAssumption DEF HedgeAssumption
<1> DEFINE q == Base(x)
<1>2. q \in Nat /\ q * Unit <= x * price /\ x * price \in Nat
  BY BaseBounds
<1> HIDE DEF q
<1>3. (b + 1) * Unit \in Nat /\ q * Unit \in Nat
  BY <1>1, <1>2, Spread
<1>4. q * Unit < (b + 1) * Unit
  BY <1>2, <1>3
<1>5. q < b + 1
  BY ONLY <1>1, <1>2, <1>4, CancelStrict, b \in Nat
<1> QED BY <1>2, <1>5 DEF q

LEMMA HealthReached ==
  ASSUME NEW p \in Positions, Base(p.debt) \in Nat, NEW t \in Nat,
         t * 100 <= Unlimited, t * Base(p.debt) <= Threshold * p.coll
  PROVE  HealthAtLeast(p, t)
<1> DEFINE b == Base(p.debt)
           h == p.coll * Threshold * 100
<1>1. p.coll \in Nat /\ Threshold \in Nat
  BY HedgeAssumption DEF HedgeAssumption, Positions
<1>2. CASE b = 0
  BY <1>2 DEF HealthAtLeast, Health
<1>3. CASE b # 0
  <2>1. h \in Nat /\ h = (Threshold * p.coll) * 100
    BY <1>1
  <2> HIDE DEF b
  <2>2. b \in Nat \ {0} /\ t * b <= Threshold * p.coll
    BY <1>3 DEF b
  <2>3. t * b \in Nat /\ Threshold * p.coll \in Nat
    BY <1>1, <2>2, Spread
  <2>4. (t * b) * 100 = (t * 100) * b /\ t * 100 \in Nat
    BY <2>2
  <2>5. (t * 100) * b <= h
    BY <2>1, <2>2, <2>3, <2>4
  <2>6. HealthAtLeast(p, t) = (h \div b >= t * 100)
    BY <1>3 DEF HealthAtLeast, Health, b
  <2> HIDE DEF h
  <2> DEFINE q == h \div b
             a == t * 100
  <2>7. q \in Nat /\ h < q * b + b
    BY <2>1, <2>2
  <2>8. a \in Nat /\ a * b <= h
    BY <2>4, <2>5
  <2> HIDE DEF q, a
  <2>9. a * b < (q + 1) * b
    <3>1. (q + 1) * b = q * b + b
      BY <2>2, <2>7
    <3>2. a * b \in Nat /\ q * b \in Nat
      BY <2>2, <2>7, <2>8, Spread
    <3> QED BY <2>1, <2>2, <2>7, <2>8, <3>1, <3>2
  <2>10. a < q + 1
    BY ONLY <2>2, <2>7, <2>8, <2>9, CancelStrict
  <2>11. q >= a
    BY <2>7, <2>8, <2>10
  <2> QED BY <2>6, <2>11 DEF q, a
<1> QED BY <1>2, <1>3

LEMMA HealthMeans ==
  ASSUME NEW p \in Positions, Base(p.debt) \in Nat \ {0}, NEW t \in Nat
  PROVE  /\ HealthAtLeast(p, t) => t * Base(p.debt) <= Threshold * p.coll
         /\ ~HealthAtLeast(p, t) => Threshold * p.coll < t * Base(p.debt)
         /\ Health(p) \in Nat
<1> DEFINE b == Base(p.debt)
           h == p.coll * Threshold * 100
<1>1. p.coll \in Nat /\ Threshold \in Nat
  BY HedgeAssumption DEF HedgeAssumption, Positions
<1>2. h \in Nat /\ h = (Threshold * p.coll) * 100 /\ Threshold * p.coll \in Nat
  BY <1>1
<1>3. Health(p) = h \div b /\ HealthAtLeast(p, t) = (h \div b >= t * 100)
  BY DEF HealthAtLeast, Health
<1>4. b \in Nat \ {0}
  OBVIOUS
<1> HIDE DEF b, h
<1> DEFINE q == h \div b
<1>5. q \in Nat /\ q * b <= h /\ h < q * b + b
  BY <1>2, <1>4
<1> HIDE DEF q
<1>6. /\ q * b \in Nat /\ t * b \in Nat /\ (t * 100) * b = (t * b) * 100
      /\ t * 100 \in Nat
  BY <1>4, <1>5
<1>7. ASSUME q >= t * 100 PROVE t * b <= Threshold * p.coll
  <2>1. (t * 100) * b <= q * b
    BY ONLY <1>4, <1>5, <1>6, <1>7, Monotone
  <2> QED BY <1>2, <1>5, <1>6, <2>1
<1>8. ASSUME ~(q >= t * 100) PROVE Threshold * p.coll < t * b
  <2>1. q + 1 <= t * 100 /\ q + 1 \in Nat
    BY <1>5, <1>6, <1>8
  <2>2. (q + 1) * b <= (t * 100) * b
    BY ONLY <1>4, <1>6, <2>1, Monotone
  <2>3. (q + 1) * b = q * b + b
    BY <1>4, <1>5
  <2> QED BY <1>2, <1>4, <1>5, <1>6, <2>2, <2>3
<1> QED BY <1>3, <1>5, <1>7, <1>8 DEF q, b

(* What a purchase may cost at most, counted in parts of 10000 Unit.         *)
LEMMA PurchaseBound ==
  ASSUME price \in Prices, NEW n \in Nat
  PROVE  /\ OracleMax(Owed(n)) \in Nat
         /\ 10000 * (Unit * OracleMax(Owed(n)))
              <= (n * price) * ((100 + PremiumRate) * (100 + Slippage)) + PurchaseRounding(price)
<1>1. /\ price \in Nat \ {0} /\ Unit \in Nat \ {0} /\ PremiumRate \in Nat /\ Slippage \in Nat
  BY HedgeAssumption DEF HedgeAssumption
<1> DEFINE fee == n * PremiumRate + 50
           owed == Owed(n)
           cost == CeilDiv(owed * price, Unit)
           max == OracleMax(owed)
           top == 100 + Slippage
           rate == 100 + PremiumRate
           worth == n * price
<1>2. fee \in Nat /\ top \in Nat /\ rate \in Nat /\ worth \in Nat
  BY <1>1, Spread
<1>3. owed \in Nat /\ 100 * owed <= n * rate + 50
  <2> DEFINE q == fee \div 100
  <2>1. q \in Nat /\ q * 100 <= fee
    BY <1>2, Quotient
  <2>2. owed = n + q
    BY DEF Owed
  <2> HIDE DEF q, owed
  <2>3. n * rate = n * 100 + n * PremiumRate /\ n * PremiumRate \in Nat
    BY <1>1
  <2> QED BY <2>1, <2>2, <2>3
<1> HIDE DEF fee, owed
<1>4. owed * price \in Nat
  BY <1>1, <1>3, Spread
<1>5. cost \in Nat /\ cost * Unit < owed * price + Unit
  BY <1>1, <1>4, CeilBounds
<1>6. max = CeilDiv(cost * top, 100)
  BY DEF OracleMax
<1> HIDE DEF cost, max
<1>7. cost * top \in Nat
  BY <1>2, <1>5, Spread
<1>8. max \in Nat /\ max * 100 < cost * top + 100
  BY <1>6, <1>7, CeilBounds
<1> DEFINE c == cost * Unit
           o == owed * price
<1>9. c \in Nat /\ c < o + Unit /\ o \in Nat
  BY <1>1, <1>4, <1>5, Spread
<1>10. 100 * o <= worth * rate + 50 * price
  <2>1. (100 * owed) * price <= (n * rate + 50) * price
    <3>1. 100 * owed \in Nat /\ n * rate + 50 \in Nat
      BY <1>2, <1>3, Spread
    <3> QED BY ONLY <1>1, <1>3, <3>1, Monotone
  <2>2. (100 * owed) * price = 100 * o
    BY <1>1, <1>3
  <2>3. (n * rate + 50) * price = worth * rate + 50 * price
    BY <1>1, <1>2
  <2> QED BY <2>1, <2>2, <2>3
<1>11. worth * rate \in Nat
  BY <1>2, Spread
<1> DEFINE v == worth * rate + 50 * price + 100 * Unit
<1>12. v \in Nat /\ 100 * c <= v
  <2> HIDE DEF c, o, worth, rate
  <2> QED BY <1>1, <1>9, <1>10, <1>11
<1>13. (100 * c) * top <= v * top
  <2> HIDE DEF v, c, top
  <2>1. 100 * c \in Nat
    BY <1>9
  <2> QED BY ONLY <1>2, <1>12, <2>1, Monotone
<1>14. 10000 * (Unit * max) <= (100 * c) * top + 9900 * Unit
  <2>1. max * 100 <= cost * top + 99
    BY <1>7, <1>8
  <2>2. (max * 100) * Unit <= (cost * top + 99) * Unit
    <3>1. max * 100 \in Nat /\ cost * top + 99 \in Nat
      BY <1>7, <1>8
    <3> QED BY ONLY <1>1, <2>1, <3>1, Monotone
  <2>3. (cost * top + 99) * Unit = (cost * Unit) * top + 99 * Unit
    BY <1>1, <1>2, <1>5
  <2>4. (max * 100) * Unit = 100 * (Unit * max)
    BY <1>1, <1>8
  <2>5. (100 * c) * top = 100 * (c * top) /\ c * top \in Nat /\ Unit * max \in Nat
    BY <1>1, <1>2, <1>8, <1>9
  <2> HIDE DEF top
  <2> QED BY <1>1, <2>2, <2>3, <2>4, <2>5
<1>15. v * top = worth * (rate * top) + (50 * price + 100 * Unit) * top
  BY <1>1, <1>2
<1>16. PurchaseRounding(price) = (50 * price + 100 * Unit) * top + 9900 * Unit
  BY DEF PurchaseRounding
<1>17. /\ v * top \in Nat /\ (100 * c) * top \in Nat /\ Unit * max \in Nat
       /\ worth * (rate * top) \in Nat /\ (50 * price + 100 * Unit) * top \in Nat
  <2>1. 50 * price + 100 * Unit \in Nat /\ 100 * c \in Nat /\ rate * top \in Nat
    BY <1>1, <1>2, <1>9, Spread
  <2> HIDE DEF v, c, top, worth, rate
  <2> QED BY <1>1, <1>2, <1>8, <1>12, <2>1, Spread
<1>18. 10000 * (Unit * max) <= worth * (rate * top) + PurchaseRounding(price)
  <2> HIDE DEF v, c, top, worth, rate
  <2> QED BY <1>1, <1>13, <1>14, <1>15, <1>16, <1>17
<1> QED BY <1>8, <1>18 DEF max, owed, worth, rate, top

(* A purchase costs at most what the oracle allows, and that is something.   *)
LEMMA CostWithin ==
  ASSUME price \in Prices, NEW n \in Nat, NEW bad \in BOOLEAN
  PROVE  /\ Cost(Owed(n), bad) \in Nat /\ OracleMax(Owed(n)) \in Nat
         /\ Cost(Owed(n), bad) <= OracleMax(Owed(n))
         /\ n > 0 => OracleMax(Owed(n)) > 0
<1> DEFINE o == Owed(n)
           q == CeilDiv(o * price, Unit)
           M == OracleMax(o)
<1>1. /\ price \in Nat \ {0} /\ Unit \in Nat \ {0} /\ PremiumRate \in Nat /\ Slippage \in Nat
      /\ 100 + Slippage \in Nat \ {0}
  BY HedgeAssumption DEF HedgeAssumption
<1>2. o \in Nat /\ o >= n
  <2>1. n * PremiumRate + 50 \in Nat
    BY <1>1, Spread
  <2>2. (n * PremiumRate + 50) \div 100 \in Nat
    BY <2>1, Quotient
  <2> QED BY <2>2 DEF Owed
<1>3. M = CeilDiv(q * (100 + Slippage), 100) /\ Cost(o, bad) = IF bad THEN M ELSE q
  BY DEF OracleMax, Cost
<1> HIDE DEF o
<1>4. o * price \in Nat /\ (o > 0 => o * price > 0)
  BY ONLY <1>1, <1>2
<1>5. q \in Nat /\ o * price <= q * Unit
  BY <1>1, <1>4, CeilBounds
<1> HIDE DEF q, M
<1>6. q * (100 + Slippage) = q * 100 + q * Slippage /\ q * Slippage \in Nat
  BY ONLY <1>1, <1>5
<1>7. q * (100 + Slippage) \in Nat
  BY <1>1, <1>5, Spread
<1>8. M \in Nat /\ q * (100 + Slippage) <= M * 100
  BY <1>3, <1>7, CeilBounds
<1>9. q <= M
  BY <1>5, <1>6, <1>8
<1>10. o > 0 => q > 0
  <2> SUFFICES ASSUME o > 0, q = 0 PROVE FALSE
    BY <1>5
  <2>1. q * Unit = 0
    BY <1>1
  <2> QED BY <1>4, <1>5, <2>1
<1> QED BY <1>2, <1>3, <1>5, <1>8, <1>9, <1>10 DEF o, M

(* What remains of a debt after a direct repayment is worth no more than the  *)
(* share of its value that remains.                                          *)
LEMMA RestWorth ==
  ASSUME price \in Prices, NEW p \in Positions, p.debt # 0, NEW d \in 0 .. p.debt
  PROVE  /\ RestBase(p, d) \in Nat /\ RestBase(p, d) <= Base(p.debt)
         /\ (p.debt - d) * price < (RestBase(p, d) + 1) * Unit
         /\ d = 0 => RestBase(p, d) = Base(p.debt)
<1> DEFINE D == p.debt
           B == Base(D)
           e == (B * d) \div D
           r == RestBase(p, d)
           L == D - d
<1>1. /\ D \in Nat \ {0} /\ d \in Nat /\ L \in Nat /\ price \in Nat \ {0} /\ Unit \in Nat \ {0}
  BY HedgeAssumption DEF HedgeAssumption, Positions
<1>2. r = B - e
  BY DEF RestBase
<1>3. B \in Nat /\ D * price < (B + 1) * Unit /\ D * price \in Nat
  BY <1>1, BaseBounds
<1> HIDE DEF B, r
<1>4. B * d \in Nat /\ B * d <= B * D
  <2>1. d <= D
    BY <1>1
  <2> QED BY ONLY <1>1, <1>3, <2>1, Spread, Monotone
<1>5. e \in Nat /\ e <= B /\ e * D <= B * d
  BY <1>1, <1>3, <1>4, Quotient, QuotientBelow
<1>6. r \in Nat /\ r <= B
  BY <1>2, <1>3, <1>5
<1>7. d = 0 => r = B
  <2> SUFFICES ASSUME d = 0 PROVE r = B
    OBVIOUS
  <2>1. B * d = 0 /\ 0 \div D = 0
    BY <1>1, <1>3
  <2> QED BY <1>2, <1>3, <2>1
<1> HIDE DEF e
<1>8. L * price \in Nat /\ (r + 1) * Unit \in Nat
  BY <1>1, <1>6, Spread
<1>9. L * price < (r + 1) * Unit
  <2>1. CASE L = 0
    <3>1. (r + 1) * Unit = r * Unit + Unit /\ r * Unit \in Nat
      BY <1>1, <1>6
    <3>2. L * price = 0
      BY <1>1, <2>1
    <3> QED BY <1>1, <3>1, <3>2
  <2>2. CASE L # 0
    <3>1. D * price + 1 <= (B + 1) * Unit /\ (B + 1) * Unit \in Nat
      BY <1>1, <1>3, Spread
    <3>2. L * (D * price + 1) <= L * ((B + 1) * Unit)
      <4>1. D * price + 1 \in Nat
        BY <1>3
      <4> QED BY ONLY <1>1, <3>1, <4>1, Monotone
    <3>3. L * (D * price + 1) = (L * price) * D + L
      BY <1>1, <1>3
    <3>0. B \in Nat /\ B + 1 \in Nat
      BY <1>3
    <3>4. L * ((B + 1) * Unit) = (L * (B + 1)) * Unit
      BY ONLY <1>1, <3>0, Times
    <3>5. L * (B + 1) = (B * D + D) - (B * d + d)
      <4>1. L + d = D
        BY <1>1
      <4> HIDE DEF L
      <4>2. B * D = L * B + B * d /\ L * (B + 1) = L * B + L /\ L * B \in Nat /\ B * d \in Nat
        <5>1. (L + d) * B = L * B + d * B
          BY <1>1, <3>0
        <5> QED BY <1>1, <3>0, <4>1, <5>1
      <4> QED BY <1>1, <3>0, <4>1, <4>2
    <3>6. (r + 1) * D = B * D - e * D + D
      BY <1>1, <1>2, <1>3, <1>5
    <3>7. /\ L * (B + 1) \in Nat /\ (r + 1) * D \in Nat /\ B * D \in Nat /\ e * D \in Nat
      BY <1>1, <1>3, <1>5, <1>6, Spread
    <3>8. L * (B + 1) <= (r + 1) * D
      <4> HIDE DEF L
      <4> QED BY <1>1, <1>4, <1>5, <3>5, <3>6, <3>7
    <3>9. (L * (B + 1)) * Unit <= ((r + 1) * D) * Unit
      BY ONLY <1>1, <3>7, <3>8, Monotone
    <3>10. ((r + 1) * D) * Unit = ((r + 1) * Unit) * D
      BY <1>1, <1>6
    <3>11. /\ (L * price) * D \in Nat /\ ((r + 1) * Unit) * D \in Nat /\ L \in Nat \ {0}
           /\ (L * (B + 1)) * Unit \in Nat
      BY <1>1, <1>8, <2>2, <3>7, Spread
    <3>12. (L * price) * D < ((r + 1) * Unit) * D
      <4> HIDE DEF L
      <4> QED BY <3>2, <3>3, <3>4, <3>9, <3>10, <3>11
    <3> QED BY ONLY <1>1, <1>8, <3>12, CancelStrict
  <2> QED BY <2>1, <2>2
<1> QED BY <1>6, <1>7, <1>9 DEF B, r, L

(* The estimated cost of a flash loan has one percent for the rounding.       *)
LEMMA CostEstimated ==
  /\ FlashCost \in Nat \ {0} /\ PremiumRate * Slippage \in Nat
  /\ Threshold * ((100 + PremiumRate) * (100 + Slippage)) + Threshold * (100 - PremiumRate * Slippage)
       <= 10000 * FlashCost
<1>1. /\ PremiumRate \in Nat /\ Slippage \in Nat /\ Threshold \in Nat \ {0}
  BY HedgeAssumption DEF HedgeAssumption
<1> DEFINE k == PremiumRate * Slippage
           c == 100 + Slippage + PremiumRate + 1
           n == Threshold * c
<1>2. c \in Nat \ {0} /\ k \in Nat
  BY <1>1, Spread
<1>3. n \in Nat \ {0}
  <2> HIDE DEF c
  <2> QED BY <1>1, <1>2
<1>4. FlashCost = CeilDiv(n, 100)
  BY DEF FlashCost
<1>5. (100 + PremiumRate) * (100 + Slippage) = 10000 + 100 * Slippage + 100 * PremiumRate + k
  BY <1>1
<1>6. 100 * c = 10000 + 100 * Slippage + 100 * PremiumRate + 100
  BY <1>1
<1> DEFINE a == (100 + PremiumRate) * (100 + Slippage)
<1>7. a \in Nat /\ a + (100 - k) = 100 * c
  <2> HIDE DEF c, k
  <2> QED BY <1>1, <1>2, <1>5, <1>6
<1>8. Threshold * a + Threshold * (100 - k) = 100 * n
  <2> HIDE DEF a, k, c
  <2>1. Threshold * (a + (100 - k)) = Threshold * a + Threshold * (100 - k)
    BY <1>1, <1>2, <1>7
  <2>2. Threshold * (100 * c) = 100 * n
    BY <1>1, <1>2
  <2> QED BY <1>7, <2>1, <2>2
<1> HIDE DEF n
<1>9. FlashCost \in Nat /\ n <= FlashCost * 100
  BY <1>3, <1>4, CeilBounds
<1>10. FlashCost # 0
  BY <1>3, <1>9
<1>11. 100 * n <= 10000 * FlashCost
  BY <1>3, <1>9
<1> HIDE DEF a
<1> QED BY <1>2, <1>8, <1>9, <1>10, <1>11 DEF a, k

-----------------------------------------------------------------------------
(* An exit.  What the leaver's part of the debt costs is within the leaver's  *)
(* part of the collateral.                                                  *)
LEMMA ShareBought ==
  ASSUME price \in Prices, NEW p \in Positions, NEW s \in Fractions, NEW x \in 0 .. Part(p.debt, s),
         NEW bad \in BOOLEAN, Base(p.debt) >= Crumbs, (Floor + 1) * Base(p.debt) <= Threshold * p.coll
  PROVE  Cost(Owed(x), bad) <= Part(p.coll, s) /\ (x > 0 => Part(p.coll, s) > 0)
<1> DEFINE D == p.debt
           C == p.coll
           B == Base(D)
           M == OracleMax(Owed(x))
           W == Unit * s
           A == (100 + PremiumRate) * (100 + Slippage)
           R == PurchaseRounding(price)
           K == FlashCost
           T == Threshold
           F == Floor + 1
           Y == Crumbs
           c == Part(C, s)
           v == x * price
<1>1. /\ price \in Nat \ {0} /\ Unit \in Nat \ {0} /\ PremiumRate \in Nat /\ Slippage \in Nat
      /\ s \in 1 .. 99 /\ s \in Nat /\ D \in Nat /\ C \in Nat /\ T \in Nat \ {0}
      /\ F \in Nat /\ Y \in Nat /\ Floor \in Nat
      /\ s \in 0 .. 100
  BY HedgeAssumption DEF HedgeAssumption, Positions
<1>2. x \in Nat /\ 100 * x <= D * s
  <2> DEFINE d == Part(D, s)
  <2>1. d \in Nat /\ d * 100 <= D * s /\ D * s \in Nat
    BY ONLY <1>1, PartBounds, Spread
  <2>2. x \in 0 .. d
    OBVIOUS
  <2> HIDE DEF d, D
  <2> QED BY <2>1, <2>2
<1>3. c \in Nat /\ C * s <= 100 * c + 99 /\ C * s \in Nat
  <2>1. c \in Nat /\ C * s < c * 100 + 100 /\ C * s \in Nat
    BY ONLY <1>1, PartBounds, Spread
  <2> HIDE DEF c, C
  <2> QED BY <2>1
<1>4. B \in Nat /\ D * price < (B + 1) * Unit /\ D * price \in Nat /\ Y <= B
  BY <1>1, BaseBounds
<1>5. F * B <= T * C
  OBVIOUS
<1>6. /\ M \in Nat /\ 10000 * (Unit * M) <= v * A + R
      /\ v \in Nat /\ A \in Nat
  <2>1. 100 + PremiumRate \in Nat /\ 100 + Slippage \in Nat
    BY <1>1
  <2>2. v \in Nat /\ A \in Nat
    BY ONLY <1>1, <1>2, <2>1, Spread
  <2>3. M \in Nat /\ 10000 * (Unit * M) <= v * A + R
    BY ONLY <1>2, price \in Prices, PurchaseBound
  <2> QED BY <2>2, <2>3
<1>7. R \in Nat
  <2>1. 50 * price + 100 * Unit \in Nat /\ 100 + Slippage \in Nat
    BY <1>1
  <2>2. (50 * price + 100 * Unit) * (100 + Slippage) \in Nat
    BY ONLY <2>1, Spread
  <2> QED BY <1>1, <2>2 DEF PurchaseRounding
<1>8. /\ K \in Nat /\ K <= Floor /\ T * A <= 10000 * K
  <2>1. Threshold * (100 - PremiumRate * Slippage) >= 0
    <3>1. 100 - PremiumRate * Slippage \in Nat
      BY CostEstimated, RoundingAssumption DEF RoundingAssumption
    <3> QED BY ONLY <1>1, <3>1, Spread
  <2>2. T * A \in Nat
    BY ONLY <1>1, <1>6, Spread
  <2>3. Threshold * (100 - PremiumRate * Slippage) \in Int
    BY <1>1, CostEstimated
  <2> HIDE DEF A
  <2> QED BY <2>1, <2>2, <2>3, CostEstimated, RoundingAssumption DEF RoundingAssumption, A
<1>9. T * (R + 9900 * Unit) <= 100 * W * (F * Y - K * (Y + 1))
  BY RoundingAssumption DEF RoundingAssumption
<1>10. Cost(Owed(x), bad) <= M
  BY <1>2, CostWithin
<1>11. W \in Nat
  BY <1>1, Spread
<1> HIDE DEF D, C, B, M, A, R, K, T, F, Y, c
<1>12. 100 * v <= (B + 1) * W
  <2>1. (100 * x) * price <= (D * s) * price
    <3>1. 100 * x \in Nat /\ D * s \in Nat
      BY <1>1, <1>2, Spread
    <3> QED BY ONLY <1>1, <1>2, <3>1, Monotone
  <2>2. (100 * x) * price = 100 * v
    BY <1>1, <1>2
  <2>3. (D * s) * price = (D * price) * s
    BY <1>1
  <2>4. (D * price) * s <= ((B + 1) * Unit) * s
    <3>1. (B + 1) * Unit \in Nat /\ D * price <= (B + 1) * Unit
      BY <1>1, <1>4, Spread
    <3> QED BY ONLY <1>1, <1>4, <3>1, Monotone
  <2>5. ((B + 1) * Unit) * s = (B + 1) * W
    BY <1>1, <1>4
  <2>6. (D * price) * s \in Nat /\ (B + 1) * W \in Nat
    BY <1>1, <1>4, <1>11, Spread
  <2> QED BY <1>6, <2>1, <2>2, <2>3, <2>4, <2>5, <2>6
<1> HIDE DEF v
<1> DEFINE U == (B + 1) * W
           Z == T * (Unit * M)
<1>13. U \in Nat /\ Unit * M \in Nat /\ Z \in Nat
  BY <1>1, <1>4, <1>6, <1>11, Spread
<1>14. 100 * (10000 * (Unit * M)) <= U * A + 100 * R
  <2>1. (100 * v) * A <= U * A /\ (100 * v) * A = 100 * (v * A) /\ v * A \in Nat /\ U * A \in Nat
    <3>1. 100 * v \in Nat
      BY <1>6
    <3> QED BY <1>6, <1>12, <1>13, <3>1, Monotone, Spread
  <2> HIDE DEF U
  <2> QED BY <1>6, <1>7, <1>13, <2>1
<1> HIDE DEF W, U
<1>15. 1000000 * Z <= U * (10000 * K) + 100 * (T * R)
  <2> DEFINE l == 100 * (10000 * (Unit * M))
             r == U * A + 100 * R
  <2>1. l \in Nat /\ U * A \in Nat /\ r \in Nat
    BY <1>6, <1>7, <1>13, Spread
  <2>2. T * l <= T * r
    <3> HIDE DEF l, r
    <3> QED BY ONLY <1>1, <1>14, <2>1, Monotone DEF l, r
  <2>3. T * l = 1000000 * Z
    BY <1>1, <1>13
  <2>4. T * r = U * (T * A) + 100 * (T * R)
    BY <1>1, <1>6, <1>7, <1>13, <2>1
  <2>5. T * A \in Nat /\ 10000 * K \in Nat
    BY <1>1, <1>6, <1>8, Spread
  <2>6. U * (T * A) <= U * (10000 * K)
    BY ONLY <1>8, <1>13, <2>5, Monotone
  <2>7. U * (T * A) \in Nat /\ U * (10000 * K) \in Nat /\ T * R \in Nat
    BY <1>1, <1>7, <1>13, <2>5, Spread
  <2> HIDE DEF l, r, Z
  <2> QED BY <1>13, <2>2, <2>3, <2>4, <2>6, <2>7
<1> HIDE DEF Z
<1>16. U * K \in Nat /\ T * R \in Nat /\ 10000 * Z <= 100 * (U * K) + T * R
  <2>1. U * K \in Nat /\ T * R \in Nat /\ U * (10000 * K) = 10000 * (U * K)
    BY <1>1, <1>7, <1>8, <1>13, Spread
  <2> QED BY <1>13, <1>15, <2>1
<1>17. F * Y - K * (Y + 1) <= F * B - K * (B + 1)
  <2>1. F - K \in Nat
    BY <1>1, <1>8 DEF F
  <2>2. (F - K) * Y <= (F - K) * B
    BY ONLY <1>1, <1>4, <2>1, Monotone
  <2>3. (F - K) * Y = F * Y - K * Y /\ (F - K) * B = F * B - K * B
    BY ONLY <1>1, <1>4, <1>8, F \in Int, K \in Int
  <2>4. K * (Y + 1) = K * Y + K /\ K * (B + 1) = K * B + K
    BY ONLY <1>1, <1>4, <1>8
  <2>5. F * Y \in Nat /\ F * B \in Nat /\ K * Y \in Nat /\ K * B \in Nat
    BY ONLY <1>1, <1>4, <1>8, Spread
  <2> QED BY <1>8, <2>2, <2>3, <2>4, <2>5
<1>18. T * R + 9900 * (T * Unit) <= 100 * (W * (F * B)) - 100 * (U * K)
  <2> DEFINE g == F * Y - K * (Y + 1)
             h == F * B - K * (B + 1)
  <2>1. g \in Int /\ h \in Int /\ F * B \in Nat /\ K * (B + 1) \in Nat
    BY <1>1, <1>4, <1>8, Spread
  <2>2. W * g <= W * h
    <3>1. h - g \in Nat
      BY <1>17, <2>1
    <3> HIDE DEF g, h
    <3>2. W * (h - g) \in Nat
      BY ONLY <1>11, <3>1, Spread
    <3>3. W * (h - g) = W * h - W * g
      BY ONLY <1>11, <2>1
    <3>4. W * h \in Int /\ W * g \in Int
      BY ONLY <1>11, <2>1
    <3> QED BY ONLY <3>2, <3>3, <3>4
  <2>3. W * h = W * (F * B) - W * (K * (B + 1))
    BY ONLY <1>11, <2>1
  <2>4. W * (K * (B + 1)) = U * K
    BY ONLY <1>4, <1>8, <1>11 DEF U
  <2>5. T * (R + 9900 * Unit) = T * R + 9900 * (T * Unit)
    BY ONLY <1>1, <1>7
  <2>6. 100 * W * g = 100 * (W * g) /\ W * g \in Int /\ W * h \in Int
    BY ONLY <1>11, <2>1
  <2>7. T * Unit \in Nat /\ W * (F * B) \in Nat
    BY <1>1, <1>11, <2>1, Spread
  <2>8. T * (R + 9900 * Unit) <= 100 * W * g
    BY <1>9
  <2> HIDE DEF g, h
  <2> QED BY ONLY <1>16, <2>2, <2>3, <2>4, <2>5, <2>6, <2>7, <2>8
<1>19. W * (F * B) <= 100 * ((T * Unit) * c) + 99 * (T * Unit)
  <2>1. F * B \in Nat /\ T * C \in Nat
    BY <1>1, <1>4, Spread
  <2>2. W * (F * B) <= W * (T * C)
    BY ONLY <1>5, <1>11, <2>1, Monotone
  <2>3. W * (T * C) = (T * Unit) * (C * s)
    BY ONLY <1>1 DEF W
  <2>4. T * Unit \in Nat /\ 100 * c + 99 \in Nat
    BY <1>1, <1>3, Spread
  <2>5. (T * Unit) * (C * s) <= (T * Unit) * (100 * c + 99)
    BY ONLY <1>3, <2>4, Monotone
  <2>6. (T * Unit) * (100 * c + 99) = 100 * ((T * Unit) * c) + 99 * (T * Unit)
    BY ONLY <1>3, <2>4
  <2>7. W * (F * B) \in Nat /\ W * (T * C) \in Nat /\ (T * Unit) * c \in Nat
    BY <1>3, <1>11, <2>1, <2>4, Spread
  <2> QED BY ONLY <2>2, <2>3, <2>4, <2>5, <2>6, <2>7
<1>20. M <= c
  <2>1. T * Unit \in Nat \ {0}
    BY <1>1
  <2>2. Z = M * (T * Unit)
    BY ONLY <1>1, <1>6 DEF Z
  <2>3. (T * Unit) * c = c * (T * Unit) /\ (T * Unit) * c \in Nat /\ W * (F * B) \in Nat
    BY <1>1, <1>3, <1>4, <1>11, <2>1, Spread
  <2>4. M * (T * Unit) <= c * (T * Unit)
    BY ONLY <1>13, <1>16, <1>18, <1>19, <2>1, <2>2, <2>3
  <2> QED BY ONLY <1>3, <1>6, <2>1, <2>4, Cancel
<1>21. x > 0 => c > 0
  <2> SUFFICES ASSUME x > 0 PROVE c > 0
    OBVIOUS
  <2>1. OracleMax(Owed(x)) > 0
    BY <1>2, CostWithin
  <2> QED BY <1>3, <1>6, <1>20, <2>1 DEF M
<1>22. Cost(Owed(x), bad) \in Nat
  BY <1>2, ValueTyped
<1> QED BY <1>3, <1>6, <1>10, <1>20, <1>21, <1>22 DEF c, C

(* Who stays keeps a health factor that only the rounding of shares lowers.   *)
LEMMA ShareLeft ==
  ASSUME price \in Prices, NEW p \in Positions, NEW s \in Fractions, NEW q \in Positions,
         q.debt = p.debt - Part(p.debt, s), q.coll = p.coll - Part(p.coll, s),
         Base(p.debt) >= Crumbs, (Floor + 1) * Base(p.debt) <= Threshold * p.coll
  PROVE  Base(q.debt) \in Nat /\ Floor * Base(q.debt) <= Threshold * q.coll
<1> DEFINE D == p.debt
           C == p.coll
           B == Base(D)
           E == q.debt
           G == q.coll
           L == Base(E)
           w == 100 - s
           V == w * Unit
           T == Threshold
           F == Floor
           Y == Crumbs
<1>1. /\ price \in Nat \ {0} /\ Unit \in Nat \ {0} /\ s \in 0 .. 100 /\ s \in Nat /\ w \in Nat
      /\ D \in Nat /\ C \in Nat /\ E \in Nat /\ G \in Nat /\ T \in Nat \ {0} /\ F \in Nat /\ Y \in Nat
  BY HedgeAssumption DEF HedgeAssumption, Positions
<1>2. 100 * E <= D * w + 99 /\ D * w \in Nat
  <2> DEFINE d == Part(D, s)
  <2>1. d \in Nat /\ D * s < d * 100 + 100 /\ D * s \in Nat
    BY ONLY <1>1, PartBounds, Spread
  <2>2. E = D - d
    OBVIOUS
  <2> HIDE DEF d, D, E
  <2>3. D * w = D * 100 - D * s
    BY ONLY <1>1 DEF w
  <2>4. D * w \in Nat
    BY <1>1, Spread
  <2> QED BY ONLY <1>1, <2>1, <2>2, <2>3, <2>4
<1>3. C * w <= 100 * G /\ C * w \in Nat
  <2> DEFINE c == Part(C, s)
  <2>1. c \in Nat /\ c * 100 <= C * s /\ C * s \in Nat
    BY ONLY <1>1, PartBounds, Spread
  <2>2. G = C - c
    OBVIOUS
  <2> HIDE DEF c, C, G
  <2>3. C * w = C * 100 - C * s
    BY ONLY <1>1 DEF w
  <2>4. C * w \in Nat
    BY <1>1, Spread
  <2> QED BY ONLY <1>1, <2>1, <2>2, <2>3, <2>4
<1>4. B \in Nat /\ D * price < (B + 1) * Unit /\ D * price \in Nat /\ Y <= B
  <2>1. B \in Nat /\ D * price < (B + 1) * Unit /\ D * price \in Nat
    BY ONLY <1>1, price \in Prices, BaseBounds
  <2> QED BY <2>1
<1>5. L \in Nat /\ L * Unit <= E * price /\ E * price \in Nat
  BY ONLY <1>1, price \in Prices, BaseBounds
<1>6. (F + 1) * B <= T * C
  OBVIOUS
<1>7. F * (V + 99 * price) <= Y * V
  BY RoundingAssumption DEF RoundingAssumption
<1> HIDE DEF D, C, B, E, G, L, w, T, F, Y
<1>8. V \in Nat
  BY <1>1, Spread
<1>9. 100 * (L * Unit) <= (B + 1) * V + 99 * price
  <2>1. (100 * E) * price <= (D * w + 99) * price
    <3>1. 100 * E \in Nat /\ D * w + 99 \in Nat
      BY <1>1, <1>2
    <3> QED BY ONLY <1>1, <1>2, <3>1, Monotone
  <2>2. (100 * E) * price = 100 * (E * price)
    BY ONLY <1>1
  <2>3. (D * w + 99) * price = (D * price) * w + 99 * price
    BY ONLY <1>1
  <2>4. (D * price) * w <= ((B + 1) * Unit) * w
    <3>1. (B + 1) * Unit \in Nat
      BY <1>1, <1>4, Spread
    <3>2. D * price <= (B + 1) * Unit
      BY ONLY <1>4, <3>1
    <3> QED BY ONLY <1>1, <1>4, <3>1, <3>2, Monotone
  <2>5. ((B + 1) * Unit) * w = (B + 1) * V
    BY ONLY <1>1, <1>4 DEF V
  <2>6. (D * price) * w \in Nat /\ (B + 1) * V \in Nat /\ L * Unit \in Nat
    BY <1>1, <1>4, <1>5, <1>8, Spread
  <2> HIDE DEF V
  <2> QED BY ONLY <1>1, <1>5, <2>1, <2>2, <2>3, <2>4, <2>5, <2>6
<1>10. (F + 1) * (B * V) <= (100 * Unit) * (T * G)
  <2>1. (F + 1) * B \in Nat /\ T * C \in Nat
    BY <1>1, <1>4, Spread
  <2>2. ((F + 1) * B) * V <= (T * C) * V
    BY ONLY <1>6, <1>8, <2>1, Monotone
  <2>3. (T * C) * V = (T * Unit) * (C * w)
    BY ONLY <1>1 DEF V
  <2>4. T * Unit \in Nat /\ 100 * G \in Nat
    BY <1>1, Spread
  <2>5. (T * Unit) * (C * w) <= (T * Unit) * (100 * G)
    BY ONLY <1>3, <2>4, Monotone
  <2>6. (T * Unit) * (100 * G) = (100 * Unit) * (T * G)
    BY ONLY <1>1
  <2>7. ((F + 1) * B) * V = (F + 1) * (B * V)
    BY ONLY <1>1, <1>4, <1>8
  <2>8. /\ (F + 1) * (B * V) \in Nat /\ (T * C) * V \in Nat /\ (T * Unit) * (C * w) \in Nat
        /\ (100 * Unit) * (T * G) \in Nat
    BY <1>1, <1>3, <1>4, <1>8, <2>1, <2>4, Spread
  <2> QED BY ONLY <2>2, <2>3, <2>5, <2>6, <2>7, <2>8
<1>11. (100 * Unit) * (F * L) <= (F + 1) * (B * V)
  <2> HIDE DEF V
  <2>1. L * Unit \in Nat /\ (B + 1) * V + 99 * price \in Nat /\ 100 * (L * Unit) \in Nat
    BY <1>1, <1>4, <1>5, <1>8, Spread
  <2>2. F * (100 * (L * Unit)) <= F * ((B + 1) * V + 99 * price)
    BY ONLY <1>1, <1>9, <2>1, Monotone
  <2>3. F * (100 * (L * Unit)) = (100 * Unit) * (F * L)
    BY ONLY <1>1, <1>5
  <2>4. F * ((B + 1) * V + 99 * price) = F * (B * V) + F * (V + 99 * price)
    BY ONLY <1>1, <1>4, <1>8
  <2>5. Y * V <= B * V
    BY ONLY <1>1, <1>4, <1>8, Monotone
  <2>6. (F + 1) * (B * V) = F * (B * V) + B * V
    BY ONLY <1>1, <1>4, <1>8
  <2>7. B * V \in Nat /\ F * (B * V) \in Nat /\ F * (V + 99 * price) \in Nat /\ Y * V \in Nat
    <3>1. B * V \in Nat /\ V + 99 * price \in Nat
      BY <1>1, <1>4, <1>8, Spread
    <3> QED BY ONLY <1>1, <1>8, <3>1, Spread
  <2>8. (100 * Unit) * (F * L) \in Nat
    BY <1>1, <1>5, Spread
  <2> QED BY ONLY <1>7, <2>2, <2>3, <2>4, <2>5, <2>6, <2>7, <2>8
<1>12. F * L <= T * G
  <2>1. F * L \in Nat /\ T * G \in Nat /\ 100 * Unit \in Nat \ {0}
    BY <1>1, <1>5, Spread
  <2>2. (F + 1) * (B * V) \in Nat
    <3>1. B * V \in Nat
      BY <1>4, <1>8, Spread
    <3> QED BY <1>1, <3>1, Spread
  <2>3. (F * L) * (100 * Unit) = (100 * Unit) * (F * L) /\ (T * G) * (100 * Unit) = (100 * Unit) * (T * G)
    BY ONLY <2>1, Times
  <2>4. (100 * Unit) * (F * L) \in Nat /\ (100 * Unit) * (T * G) \in Nat
    BY ONLY <2>1, Spread
  <2>5. (F * L) * (100 * Unit) <= (T * G) * (100 * Unit)
    BY ONLY <1>10, <1>11, <2>2, <2>3, <2>4
  <2> QED BY ONLY <2>1, <2>5, Cancel
<1> QED BY <1>5, <1>12 DEF F, L, T, G, E

(* Whatever share a holder withdraws, the settlement passes.                  *)
LEMMA ExitSettles ==
  ASSUME HedgeTypeOK, NEW s \in Fractions, NEW bad \in BOOLEAN,
         HealthAtLeast(pos, Floor + 1), Base(pos.debt) >= Crumbs, Base(pos.debt) > 0
  PROVE  Settlement(s, FALSE, bad).passes
<1>1. /\ price \in Prices /\ lp0 \in Nat /\ pos \in Positions /\ pos.debt \in Nat /\ pos.coll \in Nat
      /\ pos.idle0 \in Nat /\ pos.idle1 \in Nat /\ pos.rm0 \in Nat /\ s \in 0 .. 100
      /\ Floor \in Nat \ {0} /\ 100 < Floor
  BY HedgeAssumption DEF HedgeAssumption, HedgeTypeOK, Positions
<1>2. (Floor + 1) * Base(pos.debt) <= Threshold * pos.coll
  <2>1. PICK p \in Positions : p = pos
    BY <1>1
  <2>2. Base(p.debt) \in Nat
    BY <1>1, <2>1, ValueTyped
  <2>3. Base(p.debt) \in Nat \ {0} /\ Floor + 1 \in Nat /\ HealthAtLeast(p, Floor + 1)
    BY <1>1, <2>1, <2>2
  <2>4. (Floor + 1) * Base(p.debt) <= Threshold * p.coll
    BY ONLY <2>3, HealthMeans
  <2> QED BY <2>1, <2>4
<1> DEFINE gone == Leaving(s, FALSE)
           purchase == IF gone.shortfall = 0 THEN 0 ELSE Cost(Owed(gone.shortfall), bad)
           left == [debt |-> pos.debt - gone.debt, coll |-> pos.coll - gone.coll,
                    idle0 |-> pos.idle0 - gone.idle0,
                    idle1 |-> pos.idle1 - gone.idle1 + gone.coll - purchase - Excess(gone.coll, purchase),
                    rm0 |-> pos.rm0 - gone.rm0]
<1>3. /\ Part(pos.debt, s) \in Nat /\ Part(pos.debt, s) <= pos.debt
      /\ Part(pos.coll, s) \in Nat /\ Part(pos.coll, s) <= pos.coll
      /\ Part(pos.idle0, s) \in Nat /\ Part(pos.rm0, s) \in Nat /\ Part(lp0, s) \in Nat
  BY <1>1, PartBounds
<1>4. /\ gone.debt = Part(pos.debt, s) /\ gone.coll = Part(pos.coll, s)
      /\ gone.shortfall \in 0 .. Part(pos.debt, s)
  <2>1. gone.shortfall = IF pos.debt = 0 THEN 0
                         ELSE Excess(Part(pos.debt, s), Part(lp0, s) + Part(pos.rm0, s) + Part(pos.idle0, s))
    BY DEF Leaving, IdleShare
  <2>2. Part(lp0, s) + Part(pos.rm0, s) + Part(pos.idle0, s) \in Nat
    BY <1>3
  <2>3. gone.shortfall \in 0 .. Part(pos.debt, s)
    <3> HIDE DEF gone
    <3> QED BY <1>3, <2>1, <2>2 DEF Excess
  <2> QED BY <2>3 DEF Leaving
<1>5. /\ Settlement(s, FALSE, bad).passes
           = /\ purchase <= gone.coll
             /\ gone.shortfall > 0 => gone.coll > 0
             /\ Released(left, gone)
             /\ Settled(left, FALSE)
  BY DEF Settlement, Purse
<1>6. left.debt = pos.debt - gone.debt /\ left.coll = pos.coll - gone.coll
  OBVIOUS
<1> HIDE DEF gone, left
<1>7. /\ gone.shortfall > 0 => gone.coll > 0
      /\ Cost(Owed(gone.shortfall), bad) <= gone.coll
  <2>1. PICK p \in Positions : p = pos
    BY <1>1
  <2>2. PICK x \in 0 .. Part(p.debt, s) : x = gone.shortfall
    BY <1>4, <2>1
  <2>3. price \in Prices /\ Base(p.debt) >= Crumbs /\ (Floor + 1) * Base(p.debt) <= Threshold * p.coll
    BY <1>1, <1>2, <2>1
  <2>4. Cost(Owed(x), bad) <= Part(p.coll, s) /\ (x > 0 => Part(p.coll, s) > 0)
    BY ONLY <2>3, ShareBought, p \in Positions, s \in Fractions, x \in 0 .. Part(p.debt, s), bad \in BOOLEAN
  <2> QED BY <1>4, <2>1, <2>2, <2>4
<1>8. purchase <= gone.coll
  BY <1>3, <1>4, <1>7
<1>9. HealthAtLeast(left, Floor)
  <2>1. PICK p \in Positions : p = pos
    BY <1>1
  <2> DEFINE q == [debt |-> left.debt, coll |-> left.coll, idle0 |-> 0, idle1 |-> 0, rm0 |-> 0]
  <2>2. left.debt \in Nat /\ left.coll \in Nat
    BY <1>1, <1>3, <1>4, <1>6
  <2>3. /\ q \in Positions /\ q.debt = p.debt - Part(p.debt, s) /\ q.coll = p.coll - Part(p.coll, s)
        /\ q.debt = left.debt /\ q.coll = left.coll
    BY <1>4, <1>6, <2>1, <2>2 DEF Positions
  <2> HIDE DEF q
  <2>4. price \in Prices /\ Base(p.debt) >= Crumbs /\ (Floor + 1) * Base(p.debt) <= Threshold * p.coll
    BY <1>1, <1>2, <2>1
  <2>5. Base(q.debt) \in Nat /\ Floor * Base(q.debt) <= Threshold * q.coll
    BY ONLY <2>3, <2>4, ShareLeft, p \in Positions, s \in Fractions
  <2>6. Floor \in Nat /\ Floor * 100 <= Unlimited
    <3>1. 100 * OpTarget <= Unlimited /\ OpTarget \in Nat /\ Floor <= OpTarget
      BY RoundingAssumption, HedgeAssumption DEF RoundingAssumption, HedgeAssumption
    <3> QED BY <1>1, <3>1 DEF Unlimited
  <2>7. HealthAtLeast(q, Floor)
    BY ONLY <2>3, <2>5, <2>6, HealthReached
  <2> QED BY <2>3, <2>7 DEF HealthAtLeast, Health
<1>10. HealthAtLeast(left, 100)
  <2>1. Health(left) \in Int
    <3>1. left.debt \in Nat /\ left.coll \in Nat
      BY <1>1, <1>3, <1>4, <1>6
    <3>2. Base(left.debt) \in Nat /\ Threshold \in Nat
      BY <1>1, <3>1, ValueTyped, HedgeAssumption DEF HedgeAssumption
    <3> DEFINE h == left.coll * Threshold * 100
    <3>3. h \in Nat
      BY <3>1, <3>2
    <3>4. Health(left) = IF Base(left.debt) = 0 THEN Unlimited ELSE h \div Base(left.debt)
      BY DEF Health
    <3> HIDE DEF h
    <3> QED BY <3>2, <3>3, <3>4, Quotient DEF Unlimited
  <2> QED BY <1>1, <1>9, <2>1 DEF HealthAtLeast
<1>11. Released(left, gone) /\ Settled(left, FALSE)
  BY <1>9, <1>10 DEF Released, Settled
<1> QED BY <1>5, <1>7, <1>8, <1>11

-----------------------------------------------------------------------------
(* A repair.  A flash loan that repays y of the value r of a debt leaves no   *)
(* more than the rest of the value and costs little more than y.             *)
LEMMA PartRepaid ==
  ASSUME NEW owing \in Nat, NEW r \in Nat \ {0}, NEW y \in 1 .. r, NEW x \in 0 .. owing,
         NEW a \in Nat \ {0}, NEW u \in Nat \ {0}, owing * a < (r + 1) * u,
         owing * y <= x * r, x * r < owing * y + r
  PROVE  /\ (owing - x) * a < ((r - y) + 1) * u
         /\ x * a <= (y + 1) * u + a
<1> DEFINE e == owing - x
           z == r - y
           n == owing * a
           t == (r + 1) * u
<1>1. /\ e \in Nat /\ z \in Nat /\ z < r /\ y \in Nat /\ y <= r /\ x \in Nat
      /\ e + x = owing /\ z + y = r
  OBVIOUS
<1>2. n \in Nat /\ t \in Nat /\ n <= t /\ owing * y \in Nat /\ x * r \in Nat
  BY <1>1, Spread
<1> HIDE DEF e, z, n, t
<1>3. e * a < (z + 1) * u
  <2>1. e * r <= owing * z
    <3>1. owing * r = e * r + x * r /\ owing * r = owing * z + owing * y
      BY ONLY <1>1, owing \in Nat, r \in Nat
    <3>2. e * r \in Nat /\ owing * z \in Nat
      BY <1>1, Spread
    <3> QED BY ONLY <1>2, <3>1, <3>2, owing * y <= x * r
  <2>2. (e * r) * a <= (owing * z) * a
    <3>1. e * r \in Nat /\ owing * z \in Nat
      BY <1>1, Spread
    <3> QED BY <2>1, <3>1, Monotone
  <2>3. (owing * z) * a = n * z
    BY ONLY <1>1, owing \in Nat, a \in Nat DEF n
  <2>4. n * z <= t * z
    BY ONLY <1>1, <1>2, Monotone
  <2>5. t * z = u * (r * z) + u * z
    BY ONLY <1>1, r \in Nat, u \in Nat DEF t
  <2>6. u * z < u * r
    BY ONLY <1>1, r \in Nat, u \in Nat \ {0}
  <2>7. ((z + 1) * u) * r = u * (r * z) + u * r
    BY ONLY <1>1, r \in Nat, u \in Nat
  <2>8. (e * r) * a = (e * a) * r
    BY ONLY <1>1, r \in Nat, a \in Nat
  <2>9. /\ n * z \in Nat /\ t * z \in Nat /\ u * z \in Nat /\ u * r \in Nat
        /\ e * a \in Nat /\ (z + 1) * u \in Nat /\ r * z \in Nat
    BY <1>1, <1>2, Spread
  <2>10. /\ (e * a) * r \in Nat /\ ((z + 1) * u) * r \in Nat /\ u * (r * z) \in Nat
    BY <2>9, Spread
  <2>11. (e * a) * r < ((z + 1) * u) * r
    BY ONLY <2>2, <2>3, <2>4, <2>5, <2>6, <2>7, <2>8, <2>9, <2>10
  <2> QED BY ONLY <2>9, <2>11, CancelStrict, r \in Nat
<1>4. x * a <= (y + 1) * u + a
  <2>1. x * r <= owing * y + r /\ owing * y + r \in Nat
    BY <1>2
  <2>2. (x * r) * a <= (owing * y + r) * a
    BY ONLY <1>2, <2>1, Monotone, a \in Nat
  <2>3. (owing * y + r) * a = n * y + r * a
    BY ONLY <1>1, owing \in Nat, a \in Nat, r \in Nat DEF n
  <2>4. n * y <= t * y
    BY ONLY <1>1, <1>2, Monotone
  <2>5. t * y = u * (r * y) + u * y
    BY ONLY <1>1, r \in Nat, u \in Nat DEF t
  <2>6. u * y <= u * r
    BY ONLY <1>1, r \in Nat, u \in Nat, Monotone
  <2>7. ((y + 1) * u + a) * r = u * (r * y) + u * r + r * a
    BY ONLY <1>1, r \in Nat, u \in Nat, a \in Nat
  <2>8. (x * r) * a = (x * a) * r
    BY ONLY <1>1, r \in Nat, a \in Nat
  <2>9. /\ n * y \in Nat /\ t * y \in Nat /\ u * y \in Nat /\ u * r \in Nat /\ r * a \in Nat
        /\ x * a \in Nat /\ (y + 1) * u + a \in Nat /\ r * y \in Nat
    BY <1>1, <1>2, Spread
  <2>10. /\ (x * a) * r \in Nat /\ ((y + 1) * u + a) * r \in Nat /\ u * (r * y) \in Nat
    BY <2>9, Spread
  <2>11. (x * a) * r <= ((y + 1) * u + a) * r
    BY ONLY <2>2, <2>3, <2>4, <2>5, <2>6, <2>7, <2>8, <2>9, <2>10
  <2> QED BY ONLY <2>9, <2>11, Cancel, r \in Nat \ {0}
<1> QED BY <1>3, <1>4 DEF e, z

(* What the purchase for y of the value r may cost is within the collateral   *)
(* that the estimate kept for it.                                           *)
LEMMA RepairBought ==
  ASSUME price \in Prices, NEW r \in Nat, NEW y \in 0 .. r, NEW x \in Nat, NEW able \in Nat,
         x * price <= (y + 1) * Unit + price,
         (r - y) + y * FlashCost <= Threshold * able + Threshold,
         FlashCost * Crumbs <= RepairTarget * r
  PROVE  OracleMax(Owed(x)) \in Nat /\ OracleMax(Owed(x)) <= able
<1> DEFINE M == OracleMax(Owed(x))
           A == (100 + PremiumRate) * (100 + Slippage)
           R == PurchaseRounding(price)
           RR == RepairRounding(price)
           K == FlashCost
           T == Threshold
           S == RepairTarget
           k == 100 - PremiumRate * Slippage
           z == r - y
           v == x * price
           u == Unit
<1>1. /\ price \in Nat \ {0} /\ u \in Nat \ {0} /\ PremiumRate \in Nat /\ Slippage \in Nat
      /\ T \in Nat \ {0} /\ T <= 100 /\ S \in Nat \ {0} /\ Crumbs \in Nat
      /\ y \in Nat /\ z \in Nat /\ r = z + y
  BY HedgeAssumption DEF HedgeAssumption, RepairTarget
<1>2. M \in Nat /\ 10000 * (u * M) <= v * A + R
  BY PurchaseBound
<1>3. 100 + PremiumRate \in Nat /\ 100 + Slippage \in Nat /\ v \in Nat
  BY <1>1, Spread
<1>4. A \in Nat
  BY ONLY <1>3, Spread
<1>5. R \in Nat
  <2>1. 50 * price + 100 * Unit \in Nat
    BY <1>1
  <2>2. (50 * price + 100 * Unit) * (100 + Slippage) \in Nat
    BY ONLY <1>3, <2>1, Spread
  <2> QED BY <1>1, <2>2 DEF PurchaseRounding
<1>6. RR = (u + price) * A + R + 10000 * u
  BY DEF RepairRounding
<1>7. /\ K \in Nat /\ k \in Nat \ {0} /\ k <= 100 /\ T * A + T * k <= 10000 * K
  <2>1. k \in Nat \ {0} /\ k <= 100
    BY CostEstimated, RoundingAssumption DEF RoundingAssumption
  <2> QED BY <2>1, CostEstimated
<1>8. S * RR <= K * Crumbs * (u * k)
  BY RoundingAssumption DEF RoundingAssumption
<1> HIDE DEF M, A, R, RR, K, T, S, k, z, v, u
<1>9. v <= (y + 1) * u + price /\ z + y * K <= T * able + T /\ K * Crumbs <= S * r
  BY DEF v, u, z, K, T, S
<1>10. RR \in Nat
  <2>1. (u + price) * A \in Nat
    BY <1>1, <1>4, Spread
  <2> QED BY <1>1, <1>5, <1>6, <2>1
<1>11. RR <= (u * r) * k
  <2>1. u * k \in Nat /\ K * Crumbs \in Nat /\ S * r \in Nat /\ u * r \in Nat
    BY <1>1, <1>7, Spread
  <2>2. (K * Crumbs) * (u * k) <= (S * r) * (u * k)
    BY ONLY <1>9, <2>1, Monotone
  <2>3. (S * r) * (u * k) = ((u * r) * k) * S
    BY ONLY <1>1, <1>7, r \in Nat
  <2>4. K * Crumbs * (u * k) = (K * Crumbs) * (u * k) /\ S * RR = RR * S
    BY ONLY <1>1, <1>10
  <2>5. RR * S \in Nat /\ (K * Crumbs) * (u * k) \in Nat /\ (S * r) * (u * k) \in Nat /\ (u * r) * k \in Nat
    BY <1>1, <1>7, <1>10, <2>1, Spread
  <2>6. RR * S <= ((u * r) * k) * S
    BY ONLY <1>8, <2>2, <2>3, <2>4, <2>5
  <2> QED BY ONLY <1>1, <1>10, <2>5, <2>6, Cancel
<1>12. 10000 * (u * M) + 10000 * u <= (y * u) * A + RR
  <2>1. (y + 1) * u + price \in Nat
    BY <1>1, Spread
  <2>2. v * A <= ((y + 1) * u + price) * A
    BY ONLY <1>3, <1>4, <1>9, <2>1, Monotone
  <2>3. ((y + 1) * u + price) * A = (y * u) * A + (u + price) * A
    BY ONLY <1>1, <1>4
  <2>4. v * A \in Nat /\ (y * u) * A \in Nat /\ (u + price) * A \in Nat /\ u * M \in Nat
    <3>1. y * u \in Nat /\ u + price \in Nat
      BY <1>1, Spread
    <3> QED BY <1>1, <1>2, <1>3, <1>4, <3>1, Spread
  <2> QED BY ONLY <1>1, <1>2, <1>5, <1>6, <2>2, <2>3, <2>4
<1>13. 10000 * (M * (T * u)) + 10000 * (T * u) <= (y * u) * (T * A) + T * ((u * r) * k)
  <2> DEFINE l == 10000 * (u * M) + 10000 * u
             h == (y * u) * A + RR
  <2>1. y * u \in Nat /\ u * M \in Nat /\ (u * r) * k \in Nat
    <3>1. u * r \in Nat
      BY <1>1, Spread
    <3> QED BY <1>1, <1>2, <1>7, <3>1, Spread
  <2>2. (y * u) * A \in Nat
    BY <1>4, <2>1, Spread
  <2>3. l \in Nat /\ h \in Nat
    BY <1>1, <1>10, <2>1, <2>2
  <2>4. T * l <= T * h
    <3>1. l <= h
      BY <1>12
    <3> HIDE DEF l, h
    <3> QED BY ONLY <1>1, <2>3, <3>1, Monotone
  <2>5. T * l = 10000 * (M * (T * u)) + 10000 * (T * u)
    BY ONLY <1>1, <1>2
  <2>6. T * h = (y * u) * (T * A) + T * RR
    BY ONLY <1>1, <1>4, <1>10
  <2>7. T * RR <= T * ((u * r) * k)
    BY ONLY <1>1, <1>10, <1>11, <2>1, Monotone
  <2>8. T * RR \in Nat /\ T * ((u * r) * k) \in Nat /\ T * l \in Nat /\ T * h \in Nat
    <3> HIDE DEF l, h
    <3> QED BY <1>1, <1>10, <2>1, <2>3, Spread
  <2>9. (y * u) * (T * A) \in Nat
    <3>1. T * A \in Nat
      BY <1>1, <1>4, Spread
    <3> QED BY <2>1, <3>1, Spread
  <2> HIDE DEF l, h
  <2> QED BY ONLY <2>4, <2>5, <2>6, <2>7, <2>8, <2>9
<1>14. (y * u) * (T * A) + T * ((u * r) * k) <= 10000 * (able * (T * u)) + 10000 * (T * u)
  <2>1. (10000 * u) * (z + y * K) <= (10000 * u) * (T * able + T)
    <3>1. z + y * K \in Nat /\ T * able + T \in Nat /\ 10000 * u \in Nat
      BY <1>1, <1>7, Spread
    <3> QED BY ONLY <1>9, <3>1, Monotone
  <2>2. (10000 * u) * (T * able + T) = 10000 * (able * (T * u)) + 10000 * (T * u)
    BY ONLY <1>1, able \in Nat
  <2>3. (10000 * u) * (z + y * K) = (u * z) * 10000 + (y * u) * (10000 * K)
    BY ONLY <1>1, <1>7
  <2>4. T * k <= 10000 /\ T * k \in Nat
    <3>1. T * k \in Nat /\ 100 * k \in Nat /\ T * k <= 100 * k
      BY ONLY <1>1, <1>7, Spread, Monotone, 100 \in Nat
    <3> QED BY ONLY <1>7, <3>1
  <2>5. u * z \in Nat /\ y * u \in Nat /\ T * A \in Nat /\ 10000 * K \in Nat /\ T * A + T * k \in Nat
    BY <1>1, <1>4, <1>7, <2>4, Spread
  <2>6. (u * z) * (T * k) <= (u * z) * 10000
    BY ONLY <2>4, <2>5, Monotone, 10000 \in Nat
  <2>7. (y * u) * (T * A + T * k) <= (y * u) * (10000 * K)
    BY ONLY <1>7, <2>5, Monotone
  <2>8. (u * z) * (T * k) + (y * u) * (T * A + T * k) = (y * u) * (T * A) + T * ((u * r) * k)
    <3>1. (y * u) * (T * A + T * k) = (y * u) * (T * A) + (y * u) * (T * k)
      BY ONLY <2>4, <2>5
    <3>2. T * ((u * (z + y)) * k) = (u * z) * (T * k) + (y * u) * (T * k)
      BY ONLY <1>1, <1>7
    <3>3. /\ (u * z) * (T * k) \in Nat /\ (y * u) * (T * A) \in Nat /\ (y * u) * (T * k) \in Nat
      BY ONLY <2>4, <2>5, Spread
    <3> QED BY ONLY <1>1, <3>1, <3>2, <3>3
  <2>9. /\ (u * z) * (T * k) \in Nat /\ (u * z) * 10000 \in Nat
        /\ (y * u) * (T * A + T * k) \in Nat /\ (y * u) * (10000 * K) \in Nat
    BY ONLY <2>4, <2>5, Spread, 10000 \in Nat
  <2>10. (10000 * u) * (T * able + T) \in Nat
    <3>1. T * able + T \in Nat /\ 10000 * u \in Nat
      BY <1>1, Spread
    <3> QED BY <3>1, Spread
  <2> QED BY ONLY <2>1, <2>2, <2>3, <2>6, <2>7, <2>8, <2>9, <2>10
<1>15. M <= able
  <2>1. T * u \in Nat \ {0}
    BY <1>1
  <2>2. M * (T * u) \in Nat /\ able * (T * u) \in Nat
    BY <1>2, <2>1, Spread
  <2>3. (y * u) * (T * A) + T * ((u * r) * k) \in Int
    <3>1. /\ y \in Int /\ u \in Int /\ T \in Int /\ A \in Int /\ r \in Int /\ k \in Int
      BY <1>1, <1>4, <1>7
    <3> QED BY ONLY <3>1
  <2>4. M * (T * u) <= able * (T * u)
    BY ONLY <1>13, <1>14, <2>1, <2>2, <2>3
  <2> QED BY ONLY <1>2, <2>1, <2>4, Cancel, able \in Nat
<1> QED BY <1>2, <1>15 DEF M

(* The flash loan of a repair: what it leaves of the debt, and what of the     *)
(* collateral may be drawn to pay for it.                                    *)
LEMMA FlashFits ==
  ASSUME price \in Prices, NEW p \in Positions, p.debt # 0, NEW d \in 0 .. p.debt, NeedsFlash(p, d),
         RepairTarget > FlashCost, FlashCost * Base(p.debt) <= Threshold * p.coll,
         NEW x, x = Flash(p, d),
         NEW q \in Positions, q.debt = p.debt - d - x, q.coll = p.coll
  PROVE  /\ x \in 1 .. p.debt - d
         /\ Base(q.debt) \in Nat /\ Base(q.debt) < RestBase(p, d)
         /\ Drawable(q, OpTarget) \in Nat
         /\ \E y \in 0 .. RestBase(p, d) :
              /\ x * price <= (y + 1) * Unit + price
              /\ (RestBase(p, d) - y) + y * FlashCost <= Threshold * Drawable(q, OpTarget) + Threshold
<1> DEFINE r == RestBase(p, d)
           owing == p.debt - d
           C == p.coll
           K == FlashCost
           T == Threshold
           S == RepairTarget
           B == Base(p.debt)
           gap == S * r - T * C
           m == Repaid(p, d, FlashCost)
           able == Drawable(q, OpTarget)
           a == price
           u == Unit
           L == Base(q.debt)
<1>1. /\ a \in Nat \ {0} /\ u \in Nat \ {0} /\ T \in Nat \ {0} /\ S \in Nat \ {0} /\ OpTarget \in Nat
      /\ S = OpTarget + 1 /\ owing \in Nat /\ C \in Nat /\ q.debt \in Nat /\ q.coll \in Nat
  BY HedgeAssumption DEF HedgeAssumption, RepairTarget, Positions
<1>2. r \in Nat /\ r <= B /\ owing * a < (r + 1) * u
  BY RestWorth
<1>3. S * r > T * C /\ r # 0 /\ S > K /\ K * B <= T * C
  BY DEF NeedsFlash
<1>4. K \in Nat \ {0} /\ B \in Nat
  <2>1. p.debt \in Nat
    BY DEF Positions
  <2> QED BY <2>1, CostEstimated, BaseBounds DEF B, K
<1>5. x = Least(owing, CeilDiv(owing * m, r)) /\ m = CeilDiv(gap, S - K)
  BY DEF Flash, Repaid
<1>6. q.debt = owing - x /\ q.coll = C
  OBVIOUS
<1>7. /\ able \in Nat
      /\ able = IF L = 0 THEN C ELSE Excess(C, CeilDiv(L * OpTarget, T))
  BY <1>1, <1>6, DrawableBounded DEF Drawable
<1>8. L \in Nat
  BY <1>1, ValueTyped
<1> HIDE DEF r, owing, C, K, T, S, B, gap, m, able, a, u, L
<1>9. S * r \in Nat /\ T * C \in Nat /\ K * B \in Nat
  BY <1>1, <1>2, <1>4, Spread
<1>10. gap \in Nat \ {0} /\ S - K \in Nat \ {0} /\ gap = S * r - T * C
  BY <1>1, <1>3, <1>4, <1>9 DEF gap
<1>11. m \in Nat /\ gap <= m * (S - K)
  BY <1>5, <1>10, CeilBounds
<1>12. m # 0
  <2> SUFFICES ASSUME m = 0 PROVE FALSE
    OBVIOUS
  <2>1. m * (S - K) = 0
    BY <1>10
  <2> QED BY <1>10, <1>11, <2>1
<1>13. owing # 0
  <2> SUFFICES ASSUME owing = 0 PROVE FALSE
    OBVIOUS
  <2>1. d = p.debt /\ p.debt \in Nat \ {0}
    BY <1>1 DEF owing, Positions
  <2>2. (B * d) \div p.debt = B
    BY ONLY <1>4, <2>1
  <2>3. r = B - (B * d) \div p.debt
    BY DEF r, B, RestBase
  <2> QED BY <1>3, <1>4, <2>2, <2>3
<1>14. owing * m \in Nat \ {0}
  BY ONLY <1>1, <1>11, <1>12, <1>13
<1> DEFINE n == CeilDiv(owing * m, r)
<1>15. r \in Nat \ {0}
  BY <1>2, <1>3
<1>16. n \in Nat /\ owing * m <= n * r /\ n * r < owing * m + r
  BY <1>14, <1>15, CeilBounds
<1>17. x = Least(owing, n)
  BY <1>5
<1> HIDE DEF n
<1>18. n # 0
  <2> SUFFICES ASSUME n = 0 PROVE FALSE
    OBVIOUS
  <2>1. n * r = 0
    BY <1>15
  <2> QED BY <1>14, <1>16, <2>1
<1>19. x \in 1 .. owing /\ x \in Nat
  BY <1>1, <1>13, <1>16, <1>17, <1>18 DEF Least
<1>20. CASE m > r
  <2>1. n >= owing
    <3>1. owing * r <= owing * m
      BY ONLY <1>1, <1>11, <1>15, <1>20, Monotone
    <3>2. owing * r <= n * r
      <4>1. owing * r \in Nat /\ n * r \in Nat
        BY <1>1, <1>15, <1>16, Spread
      <4> QED BY <1>14, <1>16, <3>1, <4>1
    <3> QED BY ONLY <1>1, <1>15, <1>16, <3>2, Cancel
  <2>2. x = owing
    BY <1>1, <1>16, <1>17, <2>1 DEF Least
  <2>3. L = 0
    <3>1. q.debt = 0 /\ 0 * price = 0 /\ 0 \div Unit = 0
      BY <1>1, <1>6, <2>2 DEF a, u
    <3> QED BY <3>1 DEF L, Base
  <2>4. able = C
    BY <1>7, <2>3
  <2>5. r * K <= T * able + T
    <3>1. r * K <= B * K /\ B * K = K * B /\ r * K \in Nat
      BY ONLY <1>2, <1>4, Monotone, Spread, Times
    <3> QED BY ONLY <1>1, <1>3, <1>9, <2>4, <3>1
  <2>6. x * a <= (r + 1) * u + a
    <3>1. (r + 1) * u \in Nat /\ x * a \in Nat
      BY <1>1, <1>2, <1>19, Spread
    <3> QED BY ONLY <1>1, <1>2, <2>2, <3>1
  <2>7. r \in 0 .. r /\ (r - r) + r * K <= T * able + T
    <3>1. r * K \in Nat
      BY <1>2, <1>4, Spread
    <3> QED BY <1>2, <2>5, <3>1
  <2>8. \E y \in 0 .. r : x * a <= (y + 1) * u + a /\ (r - y) + y * K <= T * able + T
    BY <2>6, <2>7
  <2> QED BY <1>7, <1>8, <1>15, <1>19, <2>3, <2>8 DEF r, owing, K, T, able, a, u, L
<1>21. CASE m <= r
  <2>1. m \in 1 .. r
    BY <1>11, <1>12, <1>15, <1>21
  <2>2. n <= owing
    <3>1. owing * m <= owing * r /\ owing * r \in Nat
      BY ONLY <1>1, <1>11, <1>15, <1>21, Monotone, Spread
    <3>2. (owing + 1) * r = owing * r + r
      BY ONLY <1>1, <1>15
    <3>3. n * r < (owing + 1) * r
      <4>1. n * r \in Nat
        BY <1>15, <1>16, Spread
      <4> QED BY ONLY <1>14, <1>15, <1>16, <3>1, <3>2, <4>1
    <3>4. owing + 1 \in Nat /\ r \in Nat
      BY <1>1, <1>2
    <3>5. n < owing + 1
      BY ONLY <1>16, <3>3, <3>4, CancelStrict
    <3> QED BY <1>1, <1>16, <3>5
  <2>3. x = n
    BY <1>1, <1>16, <1>17, <2>2 DEF Least
  <2>4. x \in 0 .. owing /\ owing * m <= x * r /\ x * r < owing * m + r
    BY <1>16, <1>19, <2>3
  <2>5. (owing - x) * a < ((r - m) + 1) * u /\ x * a <= (m + 1) * u + a
    BY ONLY <1>1, <1>2, <1>15, <2>1, <2>4, PartRepaid
  <2>6. L <= r - m
    <3>1. r - m \in Nat /\ q.debt * price < ((r - m) + 1) * Unit
      <4>1. r - m \in Nat
        BY ONLY <1>15, <2>1
      <4>2. q.debt * price = (owing - x) * a /\ u = Unit
        BY <1>6 DEF a, u
      <4> QED BY ONLY <2>5, <4>1, <4>2
    <3>2. q.debt \in Nat
      BY <1>1
    <3> QED BY ONLY <3>1, <3>2, price \in Prices, BaseBelow DEF L
  <2>7. (r - m) * S + m * K <= T * C
    <3>1. m * (S - K) = m * S - m * K /\ (r - m) * S = S * r - m * S
      BY ONLY <1>1, <1>2, <1>4, <1>11
    <3>2. m * S \in Nat /\ m * K \in Nat
      BY <1>1, <1>4, <1>11, Spread
    <3> QED BY ONLY <1>9, <1>10, <1>11, <3>1, <3>2
  <2>8. (r - m) + m * K <= T * able + T
    <3> DEFINE z == r - m
               O == OpTarget
    <3> SUFFICES z + m * K <= T * able + T
      OBVIOUS
    <3>1. z \in Nat /\ z * S = z * O + z /\ z * O \in Nat /\ m * K \in Nat
      <4>1. z \in Nat
        BY ONLY <1>15, <2>1 DEF z
      <4> HIDE DEF z
      <4> QED BY <1>1, <1>4, <1>11, <4>1, Spread
    <3> HIDE DEF z
    <3>2. z * S + m * K <= T * C
      BY <2>7 DEF z
    <3>3. CASE L = 0
      <4>1. T * able = T * C
        BY <1>7, <3>3
      <4> QED BY ONLY <1>1, <1>9, <3>1, <3>2, <4>1
    <3>4. CASE L # 0
      <4> DEFINE c == CeilDiv(L * O, T)
      <4>1. L * O <= z * O /\ L * O \in Nat
        BY ONLY <1>1, <1>8, <2>6, <3>1, Monotone, Spread DEF z
      <4>2. c \in Nat /\ c * T < L * O + T
        BY <1>1, <4>1, CeilBounds
      <4>3. able = Excess(C, c)
        BY <1>7, <3>4
      <4> HIDE DEF c
      <4>4. C - c <= able
        BY <1>1, <4>2, <4>3 DEF Excess
      <4>5. C <= able + c
        BY <1>1, <1>7, <4>2, <4>4
      <4>6. T * C <= T * (able + c)
        <5>1. able + c \in Nat
          BY <1>7, <4>2
        <5> QED BY ONLY <1>1, <4>5, <5>1, Monotone
      <4>7. T * (able + c) = T * able + c * T /\ T * able \in Nat /\ c * T \in Nat
        BY ONLY <1>1, <1>7, <4>2
      <4> QED BY ONLY <1>1, <1>9, <3>1, <3>2, <4>1, <4>2, <4>6, <4>7
    <3> QED BY <3>3, <3>4
  <2>9. m \in 0 .. r
    BY <2>1
  <2>10. \E y \in 0 .. r : x * a <= (y + 1) * u + a /\ (r - y) + y * K <= T * able + T
    BY <2>5, <2>8, <2>9
  <2>11. L < r
    BY <1>2, <1>8, <2>1, <2>6
  <2> QED BY <1>7, <1>8, <1>19, <2>10, <2>11 DEF r, owing, K, T, able, a, u, L
<1> QED BY <1>2, <1>11, <1>20, <1>21

(* Debts large against rounding are not worth nothing.                       *)
LEMMA CrumbsPositive ==
  ASSUME price \in Prices
  PROVE  Crumbs \in Nat \ {0}
<1> DEFINE A == (100 + PremiumRate) * (100 + Slippage)
           R == PurchaseRounding(price)
           RR == RepairRounding(price)
           g == Unit * (100 - PremiumRate * Slippage)
<1>1. /\ price \in Nat \ {0} /\ Unit \in Nat \ {0} /\ 100 + PremiumRate \in Nat /\ 100 + Slippage \in Nat
      /\ RepairTarget \in Nat \ {0} /\ Crumbs \in Nat /\ PremiumRate * Slippage \in Int /\ FlashCost \in Nat
  BY HedgeAssumption, CostEstimated DEF HedgeAssumption, RepairTarget
<1>2. R \in Nat
  <2>1. 50 * price + 100 * Unit \in Nat
    BY <1>1
  <2>2. (50 * price + 100 * Unit) * (100 + Slippage) \in Nat
    BY ONLY <1>1, <2>1, Spread
  <2> QED BY <1>1, <2>2 DEF PurchaseRounding
<1>3. (Unit + price) * A \in Nat
  <2>1. A \in Nat
    BY ONLY <1>1, Spread
  <2> QED BY ONLY <1>1, <2>1, Spread
<1>4. RR = (Unit + price) * A + R + 10000 * Unit
  BY DEF RepairRounding
<1>5. RepairTarget * RR <= FlashCost * Crumbs * g
  BY RoundingAssumption DEF RoundingAssumption
<1> HIDE DEF A, R, RR
<1>6. RR \in Nat \ {0}
  BY <1>1, <1>2, <1>3, <1>4
<1>7. g \in Int
  BY <1>1
<1> HIDE DEF g
<1> SUFFICES ASSUME Crumbs = 0 PROVE FALSE
  BY <1>1
<1>8. FlashCost * Crumbs * g = 0
  BY ONLY <1>1, <1>7, Crumbs = 0
<1>9. RepairTarget * RR > 0
  BY ONLY <1>1, <1>6
<1> QED BY <1>1, <1>5, <1>6, <1>8, <1>9

(* A purchase whose bound is within what may be drawn is paid, and what was   *)
(* drawn leaves the health factor at the target.                             *)
LEMMA FlashPays ==
  ASSUME price \in Prices, NEW p \in Positions, NEW x \in Nat, x > 0, NEW t \in Nat, NEW bad \in BOOLEAN,
         NEW q \in Positions, q.debt = p.debt - x, q.coll = p.coll,
         q.idle0 = p.idle0, q.idle1 = p.idle1, q.rm0 = p.rm0,
         OracleMax(Owed(x)) <= Drawable(q, t)
  PROVE  /\ FlashCovers(p, x, t, bad)
         /\ FlashRepaid(p, x, t, bad) \in Positions
         /\ FlashRepaid(p, x, t, bad).debt = q.debt
         /\ t * Base(q.debt) <= Threshold * FlashRepaid(p, x, t, bad).coll
<1> DEFINE M == OracleMax(Owed(x))
           cost == Cost(Owed(x), bad)
           able == Drawable(q, t)
           draw == Least(Excess(M, p.idle1), able)
           B == Base(q.debt)
           T == Threshold
           C == p.coll
           after == FlashRepaid(p, x, t, bad)
<1>1. M \in Nat \ {0} /\ cost \in Nat /\ cost <= M
  BY CostWithin
<1>2. /\ able \in Nat /\ able <= C /\ C \in Nat /\ p.idle1 \in Nat /\ q.debt \in Nat
      /\ T \in Nat \ {0} /\ q.idle1 = p.idle1 /\ q.coll = C
  BY DrawableBounded, HedgeAssumption DEF Positions, HedgeAssumption
<1>3. B \in Nat
  BY <1>2, ValueTyped
<1>4. /\ FlashBudget(p, x, t).draw = draw /\ FlashBudget(p, x, t).cap = Least(M, p.idle1 + draw)
  <2>1. q = [p EXCEPT !.debt = @ - x]
    BY DEF Positions
  <2> QED BY <1>2, <2>1 DEF FlashBudget, Budget
<1>5. able = IF B = 0 THEN C ELSE Excess(C, CeilDiv(B * t, T))
  BY <1>2 DEF Drawable
<1>6. M <= able
  OBVIOUS
<1> HIDE DEF M, cost, able, draw, B, T, C
<1>7. draw \in Nat /\ draw <= able /\ p.idle1 + draw >= M
  BY <1>1, <1>2, <1>6 DEF draw, Least, Excess
<1>8. Least(M, p.idle1 + draw) = M
  BY <1>1, <1>2, <1>7 DEF Least
<1>9. FlashCovers(p, x, t, bad)
  BY <1>1, <1>4, <1>8 DEF FlashCovers, cost
<1>10. after = [p EXCEPT !.debt = @ - x, !.coll = @ - draw, !.idle1 = @ + draw - cost]
  BY <1>4 DEF FlashRepaid, cost
<1>11. after.debt = q.debt /\ after.coll = C - draw
  BY <1>10 DEF Positions, C
<1>12. after \in Positions
  <2>1. q.debt = p.debt - x /\ p.idle0 \in Nat /\ p.rm0 \in Nat
    BY DEF Positions
  <2>2. C - draw \in Nat /\ p.idle1 + draw - cost \in Nat /\ p.debt - x \in Nat
    BY <1>1, <1>2, <1>7, <2>1
  <2> QED BY <1>10, <2>1, <2>2 DEF Positions, C
<1>13. t * B <= T * (C - draw)
  <2>1. CASE B = 0
    <3>1. t * B = 0 /\ C - draw \in Nat
      BY <1>2, <1>7, <2>1
    <3>2. T * (C - draw) \in Nat
      BY <1>2, <3>1
    <3> QED BY <3>1, <3>2
  <2>2. CASE B # 0
    <3> DEFINE c == CeilDiv(B * t, T)
    <3>1. B * t \in Nat
      BY <1>3, Spread
    <3>2. c \in Nat /\ B * t <= c * T
      BY <1>2, <3>1, CeilBounds
    <3>3. able = Excess(C, c)
      BY <1>5, <2>2
    <3> HIDE DEF c
    <3>4. c <= C - draw /\ C - draw \in Nat
      BY <1>1, <1>2, <1>6, <1>7, <3>2, <3>3 DEF Excess
    <3>5. c * T <= T * (C - draw)
      <4>1. T * c <= T * (C - draw) /\ T * c = c * T
        BY ONLY <1>2, <3>2, <3>4, Monotone
      <4> QED BY <4>1
    <3>6. t * B = B * t
      BY ONLY <1>3, t \in Nat
    <3>7. c * T \in Nat /\ T * (C - draw) \in Nat
      BY ONLY <1>2, <3>2, <3>4
    <3> QED BY ONLY <3>1, <3>2, <3>5, <3>6, <3>7
  <2> QED BY <2>1, <2>2
<1>14. t * Base(q.debt) <= Threshold * after.coll
  BY <1>11, <1>13 DEF B, T
<1> QED BY <1>9, <1>11, <1>12, <1>14

(* A position that reaches the operational target passes the floor and is     *)
(* healthier than an ailing one.                                             *)
LEMMA Healed ==
  ASSUME price \in Prices, NEW p \in Positions, Ailing(p), NEW q \in Positions,
         OpTarget * Base(q.debt) <= Threshold * q.coll
  PROVE  HealthAtLeast(q, Floor) /\ Health(q) > Health(p)
<1>1. /\ OpTarget \in Nat /\ OpTarget * 100 <= Unlimited /\ Floor \in Nat /\ Trigger \in Nat
      /\ Trigger < Floor /\ Floor <= OpTarget /\ Threshold \in Nat
  BY HedgeAssumption, RoundingAssumption DEF HedgeAssumption, RoundingAssumption, Unlimited
<1>2. p.debt \in Nat /\ q.debt \in Nat /\ q.coll \in Nat
  BY DEF Positions
<1>3. Base(p.debt) \in Nat /\ Base(q.debt) \in Nat
  BY <1>2, BaseBounds
<1>4. HealthAtLeast(q, OpTarget)
  BY ONLY <1>1, <1>3, q \in Positions, OpTarget * Base(q.debt) <= Threshold * q.coll, HealthReached
<1>5. Health(q) \in Nat
  <2>1. CASE Base(q.debt) = 0
    BY <2>1 DEF Health, Unlimited
  <2>2. CASE Base(q.debt) # 0
    <3>1. Base(q.debt) \in Nat \ {0} /\ 0 \in Nat
      BY <1>3, <2>2
    <3> QED BY ONLY <3>1, q \in Positions, HealthMeans
  <2> QED BY <2>1, <2>2
<1>6. Health(p) \in Nat /\ Health(p) < Trigger * 100
  <2>1. Base(p.debt) \in Nat \ {0} /\ ~HealthAtLeast(p, Trigger)
    BY <1>3 DEF Ailing
  <2>2. Health(p) \in Nat
    BY ONLY <1>1, <2>1, p \in Positions, HealthMeans
  <2> QED BY <1>1, <2>1, <2>2 DEF HealthAtLeast
<1>7. Health(q) >= OpTarget * 100
  BY <1>4 DEF HealthAtLeast
<1> QED BY <1>1, <1>5, <1>6, <1>7 DEF HealthAtLeast

(* A direct repayment that suffices: the health factor is at the operational  *)
(* target, and the value of the debt has fallen.                             *)
LEMMA DirectSuffices ==
  ASSUME price \in Prices, NEW p \in Positions, NEW d \in 0 .. p.debt, NEW q \in Positions,
         q.debt = p.debt - d, q.coll = p.coll, ~NeedsFlash(p, d),
         Threshold * p.coll > 0, Base(p.debt) > 0, Threshold * p.coll < RepairTarget * Base(p.debt)
  PROVE  /\ d > 0 /\ Base(q.debt) \in Nat /\ Base(q.debt) < Base(p.debt)
         /\ OpTarget * Base(q.debt) <= Threshold * q.coll
<1> DEFINE r == RestBase(p, d)
           B == Base(p.debt)
           L == Base(q.debt)
           S == RepairTarget
           Y == Threshold * p.coll
<1>1. /\ OpTarget \in Nat /\ S \in Nat \ {0} /\ S = OpTarget + 1 /\ Threshold \in Nat
      /\ p.debt \in Nat /\ p.coll \in Nat /\ q.debt \in Nat
  BY HedgeAssumption DEF HedgeAssumption, RepairTarget, Positions
<1>2. B \in Nat \ {0} /\ Y \in Nat \ {0}
  <2>1. B \in Nat /\ Y \in Nat
    BY <1>1, BaseBounds, Spread
  <2> QED BY <2>1
<1>3. p.debt # 0
  <2> SUFFICES ASSUME p.debt = 0 PROVE FALSE
    OBVIOUS
  <2>1. 0 * price = 0 /\ 0 \div Unit = 0
    BY HedgeAssumption DEF HedgeAssumption
  <2> QED BY <1>2, <2>1 DEF Base
<1>4. /\ r \in Nat /\ r <= B /\ q.debt * price < (r + 1) * Unit
      /\ d = 0 => r = B
  BY <1>3, RestWorth
<1>5. L \in Nat /\ L <= r
  BY ONLY <1>1, <1>4, price \in Prices, BaseBelow
<1>6. ~(S * r > Y /\ r # 0)
  BY <1>2 DEF NeedsFlash
<1>7. q.coll = p.coll /\ Y < S * B
  OBVIOUS
<1>8. Threshold * q.coll = Y
  BY <1>7
<1> HIDE DEF r, B, L, S, Y
<1>9. S * r \in Nat /\ S * B \in Nat /\ S * L \in Nat /\ OpTarget * L \in Nat
  BY <1>1, <1>2, <1>4, <1>5, Spread
<1>10. S * r <= Y
  <2>1. CASE r = 0
    <3>1. S * r = 0
      BY <1>1, <2>1
    <3> QED BY <1>2, <3>1
  <2>2. CASE r # 0
    BY <1>2, <1>6, <1>9, <2>2
  <2> QED BY <2>1, <2>2
<1>11. r # B
  <2> SUFFICES ASSUME r = B PROVE FALSE
    OBVIOUS
  <2>1. S * r = S * B
    OBVIOUS
  <2> QED BY <1>2, <1>7, <1>9, <1>10, <2>1
<1>12. d > 0
  BY <1>4, <1>11
<1>13. L < B
  BY <1>2, <1>4, <1>5, <1>11
<1>14. OpTarget * L <= Y
  <2>1. S * L <= S * r
    BY ONLY <1>1, <1>4, <1>5, Monotone
  <2>2. S * L = OpTarget * L + L
    BY ONLY <1>1, <1>5
  <2> QED BY ONLY <1>2, <1>5, <1>9, <1>10, <2>1, <2>2
<1> QED BY <1>5, <1>8, <1>12, <1>13, <1>14 DEF B, L

(* A repair that needs a flash loan: the loan is paid from what may be drawn, *)
(* and the same holds.                                                       *)
LEMMA FlashSuffices ==
  ASSUME price \in Prices, NEW p \in Positions, NEW d \in 0 .. p.debt, d <= p.idle0,
         NEW q \in Positions, q = [p EXCEPT !.debt = @ - d, !.idle0 = @ - d],
         NEW x, x = Flash(p, d), NeedsFlash(p, d), RepairTarget > FlashCost, NEW bad \in BOOLEAN,
         Base(p.debt) >= Crumbs, FlashCost * Base(p.debt) <= Threshold * p.coll
  PROVE  /\ x \in Nat /\ x > 0
         /\ FlashCovers(q, x, OpTarget, bad) /\ FlashRepaid(q, x, OpTarget, bad) \in Positions
         /\ Base(FlashRepaid(q, x, OpTarget, bad).debt) < Base(p.debt)
         /\ OpTarget * Base(FlashRepaid(q, x, OpTarget, bad).debt)
              <= Threshold * FlashRepaid(q, x, OpTarget, bad).coll
<1> DEFINE r == RestBase(p, d)
           K == FlashCost
           B == Base(p.debt)
           w == [q EXCEPT !.debt = @ - x]
           able == Drawable(w, OpTarget)
<1>1. /\ p.debt \in Nat /\ p.coll \in Nat /\ p.idle0 \in Nat /\ p.idle1 \in Nat /\ p.rm0 \in Nat
      /\ OpTarget \in Nat /\ RepairTarget \in Nat /\ Threshold \in Nat /\ d \in Nat
  BY HedgeAssumption DEF HedgeAssumption, RepairTarget, Positions
<1>2. B \in Nat /\ Crumbs \in Nat \ {0} /\ K \in Nat
  BY <1>1, BaseBounds, CrumbsPositive, CostEstimated
<1>3. p.debt # 0 /\ B > 0
  <2>1. B > 0
    BY <1>2
  <2> SUFFICES ASSUME p.debt = 0 PROVE FALSE
    BY <2>1
  <2>2. 0 * price = 0 /\ 0 \div Unit = 0
    BY HedgeAssumption DEF HedgeAssumption
  <2> QED BY <2>1, <2>2 DEF Base
<1>4. x \in 0 .. p.debt - d
  BY <1>3, FlashBounded
<1>5. /\ w \in Positions /\ w.debt = p.debt - d - x /\ w.coll = p.coll
  <2>1. p.debt - d - x \in Nat /\ p.idle0 - d \in Nat /\ p.debt - d - x = (p.debt - d) - x
    BY <1>1, <1>4
  <2> QED BY <2>1 DEF Positions
<1>6. r \in Nat /\ r <= B
  BY <1>3, RestWorth
<1>7. PICK v \in Positions : v = w
  BY <1>5
<1>8. v.debt = p.debt - d - x /\ v.coll = p.coll
  BY <1>5, <1>7
<1> HIDE DEF r, B, w, K
<1>9. /\ x \in 1 .. p.debt - d
      /\ Base(v.debt) \in Nat /\ Base(v.debt) < RestBase(p, d)
      /\ Drawable(v, OpTarget) \in Nat
      /\ \E y \in 0 .. RestBase(p, d) :
           /\ x * price <= (y + 1) * Unit + price
           /\ (RestBase(p, d) - y) + y * FlashCost <= Threshold * Drawable(v, OpTarget) + Threshold
  BY <1>3, <1>8, FlashFits
<1>10. PICK y \in 0 .. r : /\ x * price <= (y + 1) * Unit + price
                           /\ (r - y) + y * FlashCost <= Threshold * Drawable(v, OpTarget) + Threshold
  BY <1>9 DEF r
<1>11. FlashCost * Crumbs <= RepairTarget * r
  <2>1. K * Crumbs <= K * B /\ K * Crumbs \in Nat /\ K * B \in Nat
    <3>1. Crumbs <= B
      BY DEF B
    <3> QED BY ONLY <1>2, <3>1, Monotone
  <2>2. RepairTarget * r > Threshold * p.coll /\ K * B <= Threshold * p.coll
    BY DEF NeedsFlash, r, K, B
  <2>3. RepairTarget * r \in Nat /\ Threshold * p.coll \in Nat
    BY <1>1, <1>6, Spread
  <2> QED BY <2>1, <2>2, <2>3 DEF K
<1>12. x \in Nat /\ x > 0
  BY <1>1, <1>9
<1>13. OracleMax(Owed(x)) <= Drawable(v, OpTarget)
  <2>1. PICK n \in Nat : n = Drawable(v, OpTarget)
    BY <1>9
  <2> QED BY <1>6, <1>10, <1>11, <1>12, <2>1, RepairBought
<1>14. /\ v.debt = q.debt - x /\ v.coll = q.coll /\ v.idle0 = q.idle0 /\ v.idle1 = q.idle1
       /\ v.rm0 = q.rm0
  BY <1>7 DEF w, Positions
<1>15. /\ FlashCovers(q, x, OpTarget, bad)
       /\ FlashRepaid(q, x, OpTarget, bad) \in Positions
       /\ FlashRepaid(q, x, OpTarget, bad).debt = v.debt
       /\ OpTarget * Base(v.debt) <= Threshold * FlashRepaid(q, x, OpTarget, bad).coll
  BY ONLY price \in Prices, q \in Positions, v \in Positions, bad \in BOOLEAN, <1>1, <1>12, <1>13, <1>14,
          FlashPays
<1>16. Base(v.debt) < Base(p.debt)
  BY <1>2, <1>6, <1>9 DEF r, B
<1> QED BY <1>12, <1>15, <1>16

(* An urgent repair goes through.                                            *)
LEMMA RepairSucceeds ==
  ASSUME HedgeTypeOK, NEW bad \in BOOLEAN, Ailing(pos), Base(pos.debt) >= Crumbs,
         Threshold * pos.coll >= FlashCost * Base(pos.debt)
  PROVE  Repairs(RepairPlan(bad, TRUE))
<1>1. /\ price \in Prices /\ pos \in Positions /\ Trigger \in Nat /\ RepairTarget \in Nat
      /\ Trigger < RepairTarget /\ Threshold \in Nat /\ FlashCost \in Nat \ {0}
  BY HedgeAssumption, CostEstimated DEF HedgeAssumption, HedgeTypeOK, RepairTarget
<1>2. PICK p \in Positions : p = pos
  BY <1>1
<1>3. p.debt \in Nat /\ p.coll \in Nat /\ p.idle0 \in Nat
  BY DEF Positions
<1> DEFINE B == Base(p.debt)
           Y == Threshold * p.coll
           d == Direct(p)
           x == Flash(p, d)
           q == [p EXCEPT !.debt = @ - d, !.idle0 = @ - d]
           flashed == x > 0 /\ FlashCovers(q, x, OpTarget, bad)
           after == IF flashed THEN FlashRepaid(q, x, OpTarget, bad) ELSE q
           repair == [direct |-> d, flash |-> x, deferred |-> x > 0 /\ ~flashed, pos |-> after]
<1>4. RepairPlan(bad, TRUE) = repair
  BY <1>2 DEF RepairPlan
<1>5. B \in Nat \ {0} /\ Y \in Nat
  <2>1. B \in Nat /\ Y \in Nat
    BY <1>1, <1>3, BaseBounds, Spread
  <2> QED BY <1>2, <2>1 DEF Ailing
<1>6. Ailing(p) /\ B >= Crumbs /\ FlashCost * B <= Y
  BY <1>1, <1>2, <1>5
<1>7. Y < Trigger * B
  <2>1. ~HealthAtLeast(p, Trigger)
    BY <1>6 DEF Ailing
  <2> QED BY ONLY <1>1, <1>5, <2>1, p \in Positions, HealthMeans
<1>8. FlashCost < RepairTarget /\ Y < RepairTarget * B /\ Y > 0
  <2>1. Trigger * B <= RepairTarget * B /\ Trigger * B \in Nat /\ RepairTarget * B \in Nat
    BY ONLY <1>1, <1>5, Monotone, Spread
  <2>2. FlashCost * B \in Nat \ {0}
    BY ONLY <1>1, <1>5
  <2>3. FlashCost * B < Trigger * B
    BY ONLY <1>5, <1>6, <1>7, <2>1, <2>2
  <2>4. FlashCost < Trigger
    <3> HIDE DEF B
    <3> QED BY ONLY <1>1, <1>5, <2>3, CancelStrict
  <2> QED BY ONLY <1>1, <1>5, <1>6, <1>7, <2>1, <2>2, <2>4
<1>9. d \in Nat /\ d <= p.idle0 /\ d <= p.debt
  BY <1>1, <1>5, <1>8, DirectBounded
<1> HIDE DEF d
<1>10. d \in 0 .. p.debt
  BY <1>3, <1>9
<1>11. q \in Positions /\ q.debt = p.debt - d /\ q.coll = p.coll
  <2>1. p.debt - d \in Nat /\ p.idle0 - d \in Nat
    BY <1>3, <1>9
  <2> QED BY <2>1 DEF Positions
<1> SUFFICES /\ d > 0 \/ x > 0
             /\ x > 0 => flashed
             /\ after \in Positions /\ Base(after.debt) < B
             /\ OpTarget * Base(after.debt) <= Threshold * after.coll
  <2>1. HealthAtLeast(after, Floor) /\ Health(after) > Health(p)
    <3>1. PICK z \in Positions : z = after
      OBVIOUS
    <3>2. HealthAtLeast(z, Floor) /\ Health(z) > Health(p)
      BY ONLY <1>1, <1>6, <3>1, p \in Positions, z \in Positions,
              OpTarget * Base(after.debt) <= Threshold * after.coll, Healed
    <3> QED BY <3>1, <3>2
  <2>2. /\ repair.direct = d /\ repair.flash = x /\ repair.pos = after
        /\ repair.deferred = (x > 0 /\ ~flashed)
    OBVIOUS
  <2>3. RepairTarget * B > Y
    BY <1>1, <1>5, <1>8
  <2> HIDE DEF repair, after, x, flashed
  <2> QED BY <1>2, <1>4, <1>8, <2>1, <2>2, <2>3 DEF Repairs
<1>12. CASE NeedsFlash(p, d)
  <2>1. PICK z \in Positions : z = q
    BY <1>11
  <2>2. z = [p EXCEPT !.debt = @ - d, !.idle0 = @ - d]
    BY <2>1
  <2> HIDE DEF x
  <2>3. /\ x \in Nat /\ x > 0
        /\ FlashCovers(z, x, OpTarget, bad) /\ FlashRepaid(z, x, OpTarget, bad) \in Positions
        /\ Base(FlashRepaid(z, x, OpTarget, bad).debt) < Base(p.debt)
        /\ OpTarget * Base(FlashRepaid(z, x, OpTarget, bad).debt)
             <= Threshold * FlashRepaid(z, x, OpTarget, bad).coll
    <3>1. x = Flash(p, d) /\ RepairTarget > FlashCost
      BY <1>1, <1>8 DEF x
    <3>2. Base(p.debt) >= Crumbs /\ FlashCost * Base(p.debt) <= Threshold * p.coll
      BY <1>6
    <3> QED BY ONLY <1>1, <1>9, <1>10, <1>12, <2>2, <3>1, <3>2, p \in Positions, z \in Positions,
                    bad \in BOOLEAN, FlashSuffices
  <2> HIDE DEF q
  <2> QED BY <2>1, <2>3
<1>13. CASE ~NeedsFlash(p, d)
  <2>1. x = 0
    BY <1>13 DEF Flash
  <2>2. PICK z \in Positions : z = q
    BY <1>11
  <2>3. /\ d > 0 /\ Base(z.debt) \in Nat /\ Base(z.debt) < Base(p.debt)
        /\ OpTarget * Base(z.debt) <= Threshold * z.coll
    <3>1. /\ z.debt = p.debt - d /\ z.coll = p.coll /\ Threshold * p.coll > 0 /\ Base(p.debt) > 0
          /\ Threshold * p.coll < RepairTarget * Base(p.debt)
      BY <1>5, <1>8, <1>11, <2>2
    <3> QED BY ONLY <1>1, <1>10, <1>13, <3>1, p \in Positions, z \in Positions, DirectSuffices
  <2>4. after = z
    BY <2>1, <2>2
  <2> HIDE DEF after, q
  <2> QED BY <2>1, <2>3, <2>4
<1> QED BY <1>12, <1>13

(***************************************************************************)
(* Repairs and exits stay open for every choice of the constants that meets   *)
(* the assumptions: repairHealthFactor succeeds on every ailing account whose *)
(* collateral is worth its debt with the cost of buying it, and no holder's   *)
(* settlement reverts while the health factor is above the floor.             *)
(***************************************************************************)
THEOREM SafetyHolds == HedgeSpec => []SafetyAvailable
<1>1. HedgeTypeOK => SafetyAvailable
  <2> SUFFICES ASSUME HedgeTypeOK PROVE SafetyAvailable
    OBVIOUS
  <2>1. ASSUME Ailing(pos), Base(pos.debt) >= Crumbs, Threshold * pos.coll >= FlashCost * Base(pos.debt),
               NEW bad \in BOOLEAN
        PROVE  Repairs(RepairPlan(bad, TRUE))
    BY <2>1, RepairSucceeds
  <2>2. ASSUME HealthAtLeast(pos, Floor + 1), Base(pos.debt) >= Crumbs,
               NEW s \in Fractions, NEW bad \in BOOLEAN
        PROVE  Settlement(s, FALSE, bad).passes
    <3>1. Base(pos.debt) \in Nat /\ Crumbs \in Nat \ {0}
      <4>1. price \in Prices /\ pos.debt \in Nat
        BY DEF HedgeTypeOK, Positions
      <4> QED BY <4>1, CrumbsPositive, BaseBounds
    <3>2. Base(pos.debt) > 0
      BY <2>2, <3>1
    <3> QED BY <2>2, <3>2, ExitSettles
  <2> QED BY <2>1, <2>2 DEF SafetyAvailable
<1> QED BY <1>1, HedgeTyped, PTL
=============================================================================

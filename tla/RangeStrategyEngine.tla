------------------------- MODULE RangeStrategyEngine -------------------------
(***************************************************************************)
(* When a range is moved (RangeStrategyEngine.sol of the UNI pool, with     *)
(* the calls of RangeManager and SecureBotModule that burn and mint).  A     *)
(* checkpoint, once an epoch, sees the price, runs the out-of-range clock    *)
(* and writes one decision; until the next epoch anybody may execute it, at  *)
(* once or as the beginning of a progressive cycle that mints later.  Which  *)
(* admissible range scores best, and whether its edge suffices, is free.     *)
(* Prices are ticks, a range is named by its centre, and one width is used.  *)
(* Timestamps are kept as ages, which stop at the limit they are compared    *)
(* with.  An oracle that refuses is an action that is not taken.             *)
(***************************************************************************)
EXTENDS Integers

CONSTANTS
    Epoch,         \* epochSeconds, and decisionValiditySeconds
    MaxOut,        \* maxOutOfRangeSeconds
    Cooldown,      \* rebalanceCooldownSeconds
    HalfWidth,
    Spacing,       \* _strategyTickSpacing
    MaxSkew,       \* HalfWidth * maxSkewBps
    MaxDrift,      \* maxExecutionDrift
    ConfirmDepth,  \* _exitConfirmationDepth
    Centers,       \* bound: centres of ranges
    Ticks,         \* bound: prices
    NoRange        \* no position, no plan

ASSUME EngineAssumption ==
    /\ {Epoch, HalfWidth, Spacing} \subseteq Nat \ {0}
    /\ MaxOut \in Nat /\ Epoch <= MaxOut
    /\ {Cooldown, MaxSkew, MaxDrift, ConfirmDepth} \subseteq Nat
    /\ Centers \subseteq Int /\ Ticks \subseteq Int /\ NoRange \notin Centers

VARIABLES
    live,         \* the pool's tick
    range,        \* the centre of the position
    phase,        \* block.timestamp % epochSeconds
    due,          \* the epoch is later than _lastCheckpointEpoch
    outFor,       \* age of _outOfRangeSince, -1 when it is zero
    restFor,      \* age of lastRebalanceTime
    decision,     \* _canonicalDecision, with the age of its checkpoint
    executed,     \* its hash is _lastExecutedDecisionHash
    plan,         \* target of the progressive cycle in progress
    planCurrent,  \* the cycle's hash is the decision's
    rangeAge,     \* history: since this position was minted
    leftFor       \* history: since it was first seen left, and not deep inside since; or -1

clockVars == <<phase, due>>
historyVars == <<rangeAge, leftFor>>
rangeVars == <<range, restFor, rangeAge>>
planVars == <<plan, planCurrent>>
decisionVars == <<decision, executed>>
strategyVars == <<live, rangeVars, clockVars, outFor, decisionVars, planVars, leftFor>>

\* The actions and reasons that something depends on; "wait" is any other.
Moving == {"edge", "persistent", "deep"}
Reasons == Moving \cup {"mint", "wait"}
Ranges == Centers \cup {NoRange}
-----------------------------------------------------------------------------
Abs(x) == IF x < 0 THEN -x ELSE x
Older(age, limit) == IF age \in 0 .. limit - 1 THEN age + 1 ELSE age

(* Strictly between the edges of a range, pulled in by depth. *)
Within(tick, r, depth) == r # NoRange /\ Abs(tick - r) < HalfWidth - depth

InRange == Within(live, range, 0)

OutsideDepth == Abs(live - range) - HalfWidth

(* _rangeSkewWithinBounds *)
Skewed(tick, r) == Abs(tick - r) > MaxSkew + Spacing

(* _evaluateCandidate: the ranges a candidate may have at this price. *)
Admissible == {r \in Centers : Within(live, r, 0) /\ ~Skewed(live, r)}

(* Mutant: every checkpoint that finds the range left starts the clock anew. *)
OutClock_Restarted(twap) ==
    IF range = NoRange THEN -1
    ELSE IF ~InRange THEN 0
    ELSE IF outFor >= 0 /\ Within(live, range, Spacing) /\ Within(twap, range, Spacing) THEN -1
    ELSE outFor

(* _updateOutOfRangeState; twap is the tactical average. *)
OutClock(twap) ==
    IF range = NoRange THEN -1
    ELSE IF ~InRange /\ outFor < 0 THEN 0
    ELSE IF Within(live, range, Spacing) /\ Within(twap, range, Spacing) THEN -1
    ELSE outFor

(* _exitConfirmed, the clock being out. *)
ExitConfirmed(out, twap) ==
    \/ InRange
    \/ live <= range - HalfWidth /\ twap <= range - HalfWidth
    \/ live >= range + HalfWidth /\ twap >= range + HalfWidth
    \/ out >= Epoch
    \/ OutsideDepth >= ConfirmDepth

Persistent(out) == ~InRange /\ out >= MaxOut
Deep == ~InRange /\ OutsideDepth >= HalfWidth

Rested(out) == restFor >= Cooldown \/ Persistent(out) \/ Deep

(* _buildDecision, for the best candidate and whether its edge suffices. *)
Reason(best, edge, out, twap) ==
    IF best = NoRange THEN "wait"
    ELSE IF range = NoRange THEN "mint"
    ELSE IF best = range \/ ~Rested(out) THEN "wait"
    ELSE IF Persistent(out) THEN "persistent"
    ELSE IF Deep THEN "deep"
    ELSE IF edge /\ ExitConfirmed(out, twap) THEN "edge"
    ELSE "wait"

(* A decision to wait is never executed: what else it holds is dropped. *)
Decision(best, reason) ==
    IF reason = "wait"
    THEN [reason |-> "wait", target |-> NoRange, sees |-> NoRange, at |-> 0, age |-> 0]
    ELSE [reason |-> reason, target |-> best, sees |-> range, at |-> live, age |-> 0]

(* _liveDecision: dataFresh, and not executed yet. *)
Fresh ==
    /\ ~due /\ decision.age <= Epoch
    /\ Abs(live - decision.at) <= MaxDrift
    /\ range = decision.sees
    /\ decision.reason \in Moving =>
         Within(live, decision.target, 0) /\ ~Skewed(live, decision.target) /\ ~executed
-----------------------------------------------------------------------------
EngineInit ==
    /\ live \in Ticks /\ range = NoRange
    /\ phase = 0 /\ due = TRUE
    /\ outFor = -1 /\ restFor = Cooldown
    /\ decision = Decision(NoRange, "wait") /\ executed = FALSE
    /\ plan = NoRange /\ planCurrent = FALSE
    /\ rangeAge = Cooldown /\ leftFor = -1

(* The history of the range, by what this checkpoint finds. *)
Seen(twap) ==
    IF range = NoRange THEN -1
    ELSE IF ~InRange THEN (IF leftFor < 0 THEN 0 ELSE leftFor)
    ELSE IF Within(live, range, Spacing) /\ Within(twap, range, Spacing) THEN -1
    ELSE leftFor

CheckpointMarketState(best, edge, twap) ==
    /\ due /\ due' = FALSE
    /\ outFor' = OutClock(twap)
    /\ decision' = Decision(best, Reason(best, edge, OutClock(twap), twap))
    /\ executed' = FALSE /\ planCurrent' = FALSE
    /\ leftFor' = Seen(twap)
    /\ UNCHANGED <<live, rangeVars, phase, plan>>

Checkpoint ==
    \E best \in Admissible \cup {range, NoRange}, edge \in BOOLEAN, twap \in Ticks :
        CheckpointMarketState(best, edge, twap)

(* Mutant: the clock of the range that goes is left to the next one. *)
RecordExecution_KeepsClock == decision.reason \in Moving /\ Fresh /\ executed' = TRUE /\ UNCHANGED outFor

(* validateDecision and recordExecution *)
RecordExecution == decision.reason \in Moving /\ Fresh /\ executed' = TRUE /\ outFor' = -1

(* Mutant: the mint does not start the cooldown. *)
Mint_NoRest(r) ==
    /\ Within(live, r, 0)
    /\ range' = r /\ UNCHANGED restFor
    /\ rangeAge' = 0 /\ leftFor' = -1

(* _mintInternal *)
Mint(r) ==
    /\ Within(live, r, 0)
    /\ range' = r /\ restFor' = 0
    /\ rangeAge' = 0 /\ leftFor' = -1

(* RangeManager.rebalance, in one transaction. *)
Rebalance ==
    /\ range # NoRange /\ RecordExecution /\ Mint(decision.target)
    /\ UNCHANGED <<live, clockVars, decision, planVars>>

(* progressiveRebalance, step 0: the burn. *)
BeginCycle ==
    /\ range # NoRange /\ RecordExecution
    /\ plan' = decision.target /\ planCurrent' = TRUE
    /\ range' = NoRange
    /\ UNCHANGED <<live, restFor, rangeAge, clockVars, decision, leftFor>>

(* refreshProgressiveRebalance: a later decision, made without a position. *)
Retarget ==
    /\ plan # NoRange /\ ~planCurrent
    /\ decision.reason = "mint" /\ Fresh
    /\ plan' = decision.target /\ planCurrent' = TRUE
    /\ UNCHANGED <<live, rangeVars, clockVars, outFor, decisionVars, leftFor>>

(* progressiveRebalance, step 2, after _requireCurrentProgressivePlan. *)
FinishCycle ==
    /\ plan # NoRange /\ range = NoRange
    /\ planCurrent /\ decision.age <= Epoch
    /\ Mint(plan)
    /\ plan' = NoRange /\ planCurrent' = FALSE
    /\ UNCHANGED <<live, clockVars, outFor, decisionVars>>

(* mintInitialPosition, for a deposit while no cycle holds the vault's lock. *)
MintInitialPosition ==
    /\ plan = NoRange /\ range = NoRange
    /\ decision.reason = "mint" /\ Fresh /\ Mint(decision.target)
    /\ UNCHANGED <<live, clockVars, outFor, decisionVars, planVars>>

(* burnPosition or emergencyBurnPosition: the last holder leaves, or the Safe recovers. *)
BurnPosition ==
    /\ range # NoRange /\ range' = NoRange
    /\ UNCHANGED <<live, restFor, rangeAge, clockVars, outFor, decisionVars, planVars, leftFor>>

MoveLive ==
    /\ live' \in Ticks \ {live}
    /\ UNCHANGED <<rangeVars, clockVars, outFor, decisionVars, planVars, leftFor>>

PassTime ==
    /\ phase' = (phase + 1) % Epoch
    /\ due' = (due \/ phase' = 0)
    /\ outFor' = Older(outFor, MaxOut) /\ restFor' = Older(restFor, Cooldown)
    /\ decision' = [decision EXCEPT !.age = IF decision.reason = "wait" THEN 0 ELSE Older(@, Epoch + 1)]
    /\ rangeAge' = Older(rangeAge, Cooldown) /\ leftFor' = Older(leftFor, MaxOut)
    /\ UNCHANGED <<live, range, executed, planVars>>

EngineNext ==
    \/ Checkpoint \/ Rebalance \/ BeginCycle \/ Retarget \/ FinishCycle
    \/ MintInitialPosition \/ BurnPosition \/ MoveLive \/ PassTime

(* Time passes; checkpoints are paid for, and of those that come again and   *)
(* again one finds a range other than the present one; keepers execute.      *)
FindsRange ==
    \E best \in Admissible \ {range}, edge \in BOOLEAN, twap \in Ticks :
        CheckpointMarketState(best, edge, twap)

EngineFairness ==
    /\ WF_strategyVars(PassTime)
    /\ SF_strategyVars(FindsRange)
    /\ SF_strategyVars(Rebalance \/ BeginCycle)

EngineSpec == EngineInit /\ [][EngineNext]_strategyVars /\ EngineFairness
-----------------------------------------------------------------------------
EngineTypeOK ==
    /\ live \in Ticks /\ range \in Ranges /\ plan \in Ranges
    /\ phase \in 0 .. Epoch - 1
    /\ due \in BOOLEAN /\ executed \in BOOLEAN /\ planCurrent \in BOOLEAN
    /\ outFor \in -1 .. MaxOut /\ leftFor \in -1 .. MaxOut
    /\ restFor \in 0 .. Cooldown /\ rangeAge \in 0 .. Cooldown
    /\ decision \in [reason : Reasons, target : Ranges, sees : Ranges, at : Int, age : 0 .. Epoch + 1]

(* A range is moved early only for cause: unless its cooldown has passed     *)
(* since it was minted itself, the checkpoint that decided found the price    *)
(* half a width outside, or this same range had been seen left for MaxOut and *)
(* never seen deep inside since.  No clock is inherited from an earlier range,*)
(* through executions, cycles of several epochs, burns and deposits           *)
(* (recordExecution, _updateOutOfRangeState, _buildDecision).                 *)
MovedForCause ==
    [][(Rebalance \/ BeginCycle) =>
        \/ rangeAge >= Cooldown
        \/ Abs(decision.at - range) >= 2 * HalfWidth
        \/ leftFor >= MaxOut]_strategyVars

(* Why: the contract's clocks never run ahead of the history of the range,   *)
ClocksTrue == outFor <= leftFor /\ restFor = rangeAge

(* a range that is minted starts with the clock stopped, by a cycle or by a   *)
(* deposit,                                                                 *)
MintsStopped ==
    /\ plan # NoRange => range = NoRange /\ outFor = -1
    /\ decision.reason = "mint" => outFor = -1
    /\ planCurrent => executed \/ decision.reason = "mint"

(* and a decision that may still be executed keeps its cause.                *)
CauseHolds ==
    ~executed =>
        /\ decision.reason = "edge" => rangeAge >= Cooldown
        /\ decision.reason = "deep" => Abs(decision.at - decision.sees) >= 2 * HalfWidth
        /\ decision.reason = "persistent" => leftFor >= MaxOut

EngineInv == EngineTypeOK /\ ClocksTrue /\ MintsStopped /\ CauseHolds

(* A range that the price has left for good is replaced, whatever the scores  *)
(* say of it: the clock gets to MaxOut although each decision lasts one epoch *)
(* and may drift before anybody executes it.                                  *)
LeftRangeMoved == []<>(range = NoRange \/ InRange)
=============================================================================

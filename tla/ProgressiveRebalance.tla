------------------------ MODULE ProgressiveRebalance ------------------------
(***************************************************************************)
(* The resumable rebalance of a large vault (SecureBotModule.sol), with    *)
(* the parts of RangeManager, RangeStrategyEngine and MultiUserVault it    *)
(* calls.  Begin burns the position and locks the vault; every swap of at  *)
(* most Cap is a transaction of its own, by any keeper; Finalize mints and *)
(* unlocks.  The Safe may lock the vault itself; once the position is gone *)
(* a refresh turns that lock into a cycle.  Between two transactions       *)
(* anything else may happen: time, the market, a checkpoint of the         *)
(* strategy, holders that recover their funds, the Safe.  The Safe may put *)
(* withdrawals on hold at any moment, so the hold is no variable.          *)
(* Transactions are atomic: the transient states 1 and 3 of                *)
(* progressiveRebalanceStatus are never seen.                              *)
(***************************************************************************)
EXTENDS Integers

CONSTANTS
    Cap,        \* initMultiSwapTvl: the most one swap may move (USD)
    Scale,      \* 10000: the unit of a token0 ratio
    Ratios,     \* bound: ratios that a range may ask for
    RatioTol,   \* ratio tolerance below which no swap is needed
    MarginBps,  \* maxSlippageBps + toleranceBps
    TolBps,     \* toleranceBps
    MaxLoss,    \* bound: most value one swap loses
    MaxSide,    \* bound: most value of one token at a burn
    MaxMoves    \* bound: price moves, recoveries and Safe renewals in a cycle

ASSUME ConstantsAssumption ==
    /\ Cap \in Nat \ {0} /\ Scale \in Nat \ {0} /\ RatioTol \in Nat
    /\ MarginBps \in Nat /\ TolBps \in Nat /\ MaxLoss \in Nat
    /\ MaxSide \in Nat /\ MaxMoves \in Nat /\ Ratios \subseteq 0 .. Scale

VARIABLES
    active,         \* progressiveRebalanceStatus = 2
    planCurrent,    \* progressiveDecisionHash is the hash of the canonical decision
    swapBudget,     \* progressiveSwapBudgetUsdE8
    reverseBudget,  \* progressiveReverseBudgetUsdE8
    cycleBudget,    \* progressiveCycleBudgetUsdE8
    initialDir,     \* progressiveInitialZeroForOne
    locked,         \* _processingRebalance of the vault
    position,       \* the RangeManager owns an NFT
    canon,          \* _canonicalDecision: its reason, and the position it saw
    age,            \* of canon: fresh, due for a checkpoint, past validUntil
    market,         \* the live price against canon and the range of the plan
    v0, v1,         \* USD value of the balances of the RangeManager in a cycle
    ratio,          \* optimal share of token0 in the range of the plan
    exitOnly,       \* new work is closed for good
    moves,          \* bound counter
    safeLock,       \* history: the lock is one the Safe took, not a cycle's
    granted, turnover \* history: assets at the last grant, value swapped since

cycleVars == <<active, planCurrent, swapBudget, reverseBudget, cycleBudget, initialDir>>
vaultVars == <<locked, position, safeLock>>
engineVars == <<canon, age>>
marketVars == <<market, v0, v1, ratio, moves>>
histVars == <<granted, turnover>>
vars == <<cycleVars, vaultVars, engineVars, marketVars, exitOnly, histVars>>

\* "rebalance" is Action.RANGE_REBALANCE, "mint" INITIAL_MINT_REQUIRED, "wait" any other.
Reasons == {"rebalance", "mint", "wait"}
Ages == {"fresh", "due", "expired"}
\* drifted: beyond maxExecutionDrift; outside: out of the range; guarded: ORACLE_GUARD
Markets == {"calm", "drifted", "outside", "guarded"}
-----------------------------------------------------------------------------
Least(a, b) == IF a < b THEN a ELSE b
Greatest(a, b) == IF a > b THEN a ELSE b

(* calculateOptimalSwapParams: the swap from balances worth a and b to r.  *)
Share(a, b) == (a * Scale) \div (a + b)

Excess(a, b, r) == Least(((Share(a, b) - r) * (a + b)) \div Scale, a)
Deficit(a, b, r) == Least(((r - Share(a, b)) * (a + b)) \div Scale, b)

(* Mutant: the excess is measured against nothing but token0's own value. *)
Plan_WholeSide(a, b, r) ==
    IF a + b = 0 THEN [zeroForOne |-> FALSE, amount |-> 0]
    ELSE IF Share(a, b) > r + RatioTol THEN [zeroForOne |-> TRUE, amount |-> a]
    ELSE IF Share(a, b) + RatioTol < r THEN [zeroForOne |-> FALSE, amount |-> b]
    ELSE [zeroForOne |-> FALSE, amount |-> 0]

Plan(a, b, r) ==
    IF a + b = 0 THEN [zeroForOne |-> FALSE, amount |-> 0]
    ELSE IF Share(a, b) > r + RatioTol THEN [zeroForOne |-> TRUE, amount |-> Excess(a, b, r)]
    ELSE IF Share(a, b) + RatioTol < r THEN [zeroForOne |-> FALSE, amount |-> Deficit(a, b, r)]
    ELSE [zeroForOne |-> FALSE, amount |-> 0]

(* _progressivePlanBudget, rounded up and never zero. *)
Margin(amount) == Greatest((amount * MarginBps + 9999) \div 10000, 1)

Tolerance(amount) == Greatest((amount * TolBps) \div 10000, 1)

(* requireSubmittedSwapPlan, the direction being the plan's own. *)
Submitted(a, amount) ==
    IF amount = 0 THEN a = 0
    ELSE a + Tolerance(amount) >= amount /\ a <= amount + Tolerance(amount)

(* previewDecision has dataFresh: none of its guards fires. *)
Fresh == /\ age = "fresh" /\ market = "calm"
         /\ canon.sees = IF position THEN "current" ELSE "none"

(* The decisions checkpointMarketState may write. *)
Checkpoints == [reason : IF position THEN {"rebalance", "wait"} ELSE {"mint", "wait"},
                sees : {IF position THEN "current" ELSE "none"}]

(* A mint: what the canonical decision saw is no longer the position. *)
SeesAfterMint == [canon EXCEPT !.sees = IF @ = "current" THEN "other" ELSE @]
-----------------------------------------------------------------------------
Init ==
    /\ active = FALSE /\ planCurrent = FALSE /\ initialDir = FALSE
    /\ swapBudget = 0 /\ reverseBudget = 0 /\ cycleBudget = 0
    /\ locked = FALSE /\ position = FALSE /\ safeLock = FALSE
    /\ canon = [reason |-> "wait", sees |-> "none"] /\ age = "expired"
    /\ market = "calm" /\ v0 = 0 /\ v1 = 0 /\ ratio = 0 /\ moves = 0
    /\ exitOnly = FALSE
    /\ granted = 0 /\ turnover = 0

(* Mutant: a retarget keeps the hash of the plan it replaces. *)
SetPlan_OldHash(p) ==
    /\ swapBudget' = p.amount + Margin(p.amount)
    /\ reverseBudget' = Margin(p.amount)
    /\ initialDir' = p.zeroForOne
    /\ planCurrent' = (planCurrent \/ ~active)

SetPlan(p) ==
    /\ swapBudget' = p.amount + Margin(p.amount)
    /\ reverseBudget' = Margin(p.amount)
    /\ initialDir' = p.zeroForOne
    /\ planCurrent' = TRUE

(* Every retarget but the Safe's leaves what remains of the cycle budget. *)
Renew == /\ cycleBudget' = v0 + v1
         /\ granted' = v0 + v1 /\ turnover' = 0

ClearCycle == /\ active' = FALSE /\ planCurrent' = FALSE /\ initialDir' = FALSE
              /\ swapBudget' = 0 /\ reverseBudget' = 0 /\ cycleBudget' = 0
              /\ granted' = 0 /\ turnover' = 0

(* Balances are what the burned position returned; a and b stand for any. *)
BeginProgressiveRebalance ==
    /\ ~exitOnly /\ ~active /\ ~locked /\ position
    /\ Fresh /\ canon.reason = "rebalance"
    /\ \E a, b \in 0 .. MaxSide, r \in Ratios :
        LET p == Plan(a, b, r) IN
        /\ p.amount > Cap
        /\ SetPlan(p)
        /\ v0' = a /\ v1' = b /\ ratio' = r
        /\ cycleBudget' = a + b /\ granted' = a + b /\ turnover' = 0
    /\ active' = TRUE /\ locked' = TRUE /\ position' = FALSE /\ moves' = 0
    /\ UNCHANGED <<safeLock, engineVars, market, exitOnly>>

(* _requireCurrentProgressivePlan: a stale or drifted market does not block. *)
PlanUsable == planCurrent /\ age # "expired" /\ market # "guarded"

(* _consumeProgressiveSwapBudget *)
Consume(p, a) ==
    /\ a > 0 /\ a <= swapBudget /\ a <= cycleBudget
    /\ cycleBudget' = cycleBudget - a
    /\ IF p.zeroForOne = initialDir
       THEN reverseBudget' = reverseBudget
       ELSE a <= reverseBudget /\ reverseBudget' = reverseBudget - a
    /\ swapBudget' = swapBudget - a
    /\ turnover' = turnover + a

(* executeValidatedSwap: at most Cap, and a bounded loss. *)
Swap(p, a) ==
    /\ a <= Cap
    /\ \E loss \in 0 .. Least(MaxLoss, a) :
        /\ v0' = IF p.zeroForOne THEN v0 - a ELSE v0 + a - loss
        /\ v1' = IF p.zeroForOne THEN v1 + a - loss ELSE v1 - a

ContinueProgressiveRebalance ==
    /\ ~exitOnly /\ active /\ locked /\ PlanUsable
    /\ LET p == Plan(v0, v1, ratio) IN
        \E a \in 1 .. p.amount : Consume(p, a) /\ Swap(p, a)
    /\ UNCHANGED <<active, planCurrent, initialDir, vaultVars, engineVars, market,
                   ratio, moves, exitOnly, granted>>

(* Mutant: the last swap is not compared with the plan. *)
LastSwap_AnyAmount(p, a) == a <= p.amount /\ a <= Cap /\ a <= swapBudget /\ a <= cycleBudget

(* The last swap of a cycle: the whole remainder, within tolerance. *)
LastSwap(p, a) ==
    /\ a <= p.amount /\ a <= Cap /\ Submitted(a, p.amount)
    /\ a <= swapBudget /\ a <= cycleBudget
    /\ a > 0 /\ p.zeroForOne # initialDir => a <= reverseBudget

(* _mintInternal and endRebalance: some balance, and a price in the range. *)
MintAndUnlock ==
    /\ v0' + v1' > 0 /\ market \in {"calm", "drifted"}
    /\ position' = TRUE /\ locked' = FALSE /\ canon' = SeesAfterMint /\ UNCHANGED safeLock

FinalizeProgressiveRebalance ==
    /\ ~exitOnly /\ active /\ locked /\ ~position /\ PlanUsable
    /\ LET p == Plan(v0, v1, ratio) IN
        \E a \in 0 .. Least(p.amount, Cap) : LastSwap(p, a) /\ Swap(p, a)
    /\ MintAndUnlock /\ ClearCycle
    /\ UNCHANGED <<age, market, ratio, moves, exitOnly>>

(* Mutant: a later epoch renews the turnover cap with the plan. *)
RefreshBudget_Renewed ==
    /\ cycleBudget' = v0' + v1'
    /\ IF active THEN UNCHANGED histVars ELSE granted' = v0' + v1' /\ turnover' = 0

(* All retargets of a cycle share what remains of its budget; a cycle that *)
(* takes over a lock of the Safe is granted what it finds.                 *)
RefreshBudget ==
    IF active THEN UNCHANGED <<cycleBudget, histVars>>
    ELSE cycleBudget' = v0' + v1' /\ granted' = v0' + v1' /\ turnover' = 0

(* Status 2: the open cycle is retargeted, if its plan is an old one.      *)
Retarget == active /\ ~planCurrent /\ UNCHANGED <<v0, v1, moves, safeLock>>

(* Status 0: the locked vault has no position left; a cycle starts on      *)
(* whatever the RangeManager holds.                                        *)
TakeOver == /\ ~active
            /\ v0' \in 0 .. MaxSide /\ v1' \in 0 .. MaxSide
            /\ moves' = 0 /\ safeLock' = FALSE

(* The canonical decision is a fresh initial mint; r is its range's ratio. *)
RefreshProgressiveRebalance ==
    /\ ~exitOnly /\ locked /\ ~position
    /\ Fresh /\ canon.reason = "mint"
    /\ Retarget \/ TakeOver
    /\ \E r \in Ratios : ratio' = r /\ SetPlan(Plan(v0', v1', r))
    /\ RefreshBudget
    /\ active' = TRUE
    /\ UNCHANGED <<locked, position, engineVars, market, exitOnly>>

(* Safe recovery, during a hold: checkpoint if one is due, retarget with a new cycle       *)
(* budget, and mint in the same transaction when no swap is needed.         *)
CancelProgressiveRebalance ==
    /\ active /\ ~exitOnly /\ locked /\ ~position
    /\ moves < MaxMoves
    /\ IF age = "fresh"
       THEN Fresh /\ canon.reason = "mint" /\ UNCHANGED <<age, market>>
            /\ canon' = canon
       ELSE /\ market # "guarded" /\ age' = "fresh" /\ market' = "calm"
            /\ canon' = [reason |-> "mint", sees |-> "none"]
    /\ \E r \in Ratios :
        LET p == Plan(v0, v1, r) IN
        /\ ratio' = r
        /\ \/ /\ p.amount > 0
              /\ SetPlan(p) /\ Renew
              /\ UNCHANGED <<active, vaultVars>>
           \/ /\ p.amount = 0 /\ v0 + v1 > 0
              /\ position' = TRUE /\ locked' = FALSE /\ ClearCycle /\ UNCHANGED safeLock
    /\ moves' = moves + 1
    /\ UNCHANGED <<v0, v1, exitOnly>>

CancelInExitOnly ==
    /\ active /\ exitOnly /\ ~position
    /\ ClearCycle /\ locked' = FALSE
    /\ UNCHANGED <<position, safeLock, engineVars, marketVars, exitOnly>>

(* Mutant: the module does not ask whether a cycle is in progress. *)
MayUnlock_Always == TRUE

(* endRebalance by the Safe, and by the hot bot through the module. *)
MayUnlock == ~active

EndRebalance ==
    /\ MayUnlock /\ locked' = FALSE /\ safeLock' = FALSE
    /\ UNCHANGED <<cycleVars, position, engineVars, marketVars, exitOnly, histVars>>

(* startRebalance by the owner of the vault, the Safe: an executor of the  *)
(* vault's functions, also after the installation.                         *)
StartRebalance ==
    /\ ~locked /\ locked' = TRUE /\ safeLock' = TRUE
    /\ UNCHANGED <<cycleVars, position, engineVars, marketVars, exitOnly, histVars>>
-----------------------------------------------------------------------------
(* The atomic path of RangeManager, for a swap of at most Cap. *)
Rebalance ==
    /\ ~exitOnly /\ ~locked /\ position
    /\ Fresh /\ canon.reason = "rebalance"
    /\ canon' = SeesAfterMint /\ v0' = 0 /\ v1' = 0
    /\ UNCHANGED <<cycleVars, vaultVars, age, market, ratio, moves, exitOnly, histVars>>

(* A deposit processed while there is no position mints one. *)
MintInitialPosition ==
    /\ ~exitOnly /\ ~locked /\ ~position
    /\ Fresh /\ canon.reason = "mint"
    /\ position' = TRUE /\ canon' = SeesAfterMint
    /\ UNCHANGED <<cycleVars, locked, safeLock, age, marketVars, exitOnly, histVars>>

(* The last holder leaves, or the Safe burns the position in an incident. *)
ClosePosition ==
    /\ position
    /\ position' = FALSE /\ v0' = 0 /\ v1' = 0
    /\ UNCHANGED <<cycleVars, locked, safeLock, engineVars, market, ratio, moves, exitOnly,
                   histVars>>

CheckpointMarketState ==
    /\ age # "fresh" /\ market # "guarded"
    /\ canon' \in Checkpoints /\ age' = "fresh" /\ market' = "calm"
    /\ planCurrent' = FALSE
    /\ UNCHANGED <<active, swapBudget, reverseBudget, cycleBudget, initialDir, vaultVars,
                   v0, v1, ratio, moves, exitOnly, histVars>>

(* Time: an epoch begins; the decision of the last one passes validUntil. *)
Tick ==
    /\ age' = IF age = "fresh" THEN "due" ELSE "expired"
    /\ UNCHANGED <<cycleVars, vaultVars, canon, marketVars, exitOnly, histVars>>

MarketGuard ==
    /\ market' \in Markets \ {market}
    /\ UNCHANGED <<cycleVars, vaultVars, engineVars, v0, v1, ratio, moves, exitOnly, histVars>>

(* The price of token0 moves, and with it the ratio of the plan's range. *)
PriceMove ==
    /\ active /\ moves < MaxMoves
    /\ v0' \in {v0, v0 - 1, v0 + 1} \cap Nat
    /\ v0 = 0 => v0' = 0
    /\ ratio' \in Ratios
    /\ moves' = moves + 1
    /\ UNCHANGED <<cycleVars, vaultVars, engineVars, market, v1, exitOnly, histVars>>

(* EmergencyRecoverUser: a holder of half or of all the shares leaves with *)
(* its part of the free balances; the lock does not stop it.               *)
EmergencyRecoverUser ==
    /\ active /\ moves < MaxMoves
    /\ \E n \in {1, 2} :
        v0' = v0 - (v0 * n) \div 2 /\ v1' = v1 - (v1 * n) \div 2
    /\ moves' = moves + 1
    /\ UNCHANGED <<cycleVars, vaultVars, engineVars, market, ratio, exitOnly, histVars>>

ActivateExitOnly ==
    /\ ~exitOnly /\ exitOnly' = TRUE
    /\ UNCHANGED <<cycleVars, vaultVars, engineVars, marketVars, histVars>>

Keepers == \/ BeginProgressiveRebalance \/ ContinueProgressiveRebalance
           \/ FinalizeProgressiveRebalance \/ RefreshProgressiveRebalance
           \/ CheckpointMarketState \/ Rebalance \/ MintInitialPosition

Safe == \/ CancelProgressiveRebalance \/ CancelInExitOnly \/ EndRebalance
        \/ StartRebalance \/ ActivateExitOnly

Environment == Tick \/ MarketGuard \/ PriceMove \/ EmergencyRecoverUser \/ ClosePosition

Next == Keepers \/ Safe \/ Environment

Spec == Init /\ [][Next]_vars
-----------------------------------------------------------------------------
(* The keepers' bots poll all the time, an epoch outlasts many of their    *)
(* transactions, and some epoch has an admissible range; a price that      *)
(* diverged from the oracle comes back.                                    *)
MarketCalms == MarketGuard /\ market' = "calm"

RangeFound == CheckpointMarketState /\ canon'.reason = "mint"

Fairness == /\ WF_vars(Tick) /\ WF_vars(MarketCalms) /\ WF_vars(CancelInExitOnly)
            /\ SF_vars(RangeFound) /\ SF_vars(active /\ RefreshProgressiveRebalance)
            /\ SF_vars(ContinueProgressiveRebalance) /\ SF_vars(FinalizeProgressiveRebalance)

LiveSpec == Spec /\ Fairness
-----------------------------------------------------------------------------
(* Types; budgets never wrap below zero and balances cover every swap. *)
TypeOK ==
    /\ active \in BOOLEAN /\ planCurrent \in BOOLEAN /\ initialDir \in BOOLEAN
    /\ locked \in BOOLEAN /\ position \in BOOLEAN /\ safeLock \in BOOLEAN
    /\ exitOnly \in BOOLEAN
    /\ swapBudget \in Nat /\ reverseBudget \in Nat /\ cycleBudget \in Nat
    /\ granted \in Nat /\ turnover \in Nat
    /\ v0 \in Nat /\ v1 \in Nat /\ ratio \in 0 .. Scale /\ moves \in 0 .. MaxMoves
    /\ canon \in [reason : Reasons, sees : {"none", "current", "other"}]
    /\ age \in Ages /\ market \in Markets

(* A cycle has the vault locked from its burn to its mint, and no lock but *)
(* one that the Safe took outlives a cycle or comes without one: nobody    *)
(* deposits or withdraws against tokens in mid-swap, and what keepers do    *)
(* never leaves holders locked out (endRebalance, startRebalance,          *)
(* refreshProgressiveRebalance, cancelProgressiveRebalance).               *)
LockHeldForCycle ==
    /\ locked <=> active \/ safeLock
    /\ active => ~position /\ ~safeLock

(* "All retargets share this remaining turnover cap; only Safe recovery    *)
(* can renew it": what a cycle swaps never exceeds the assets it was       *)
(* granted, over any number of epochs, refreshes and reversals.            *)
TurnoverCapped == turnover <= granted

(* What makes the two inductive: the cycle budget is exactly what is left  *)
(* of the grant, after every path that spends, renews or clears it.        *)
IInv == TypeOK /\ LockHeldForCycle /\ turnover + cycleBudget = granted

(* The swap that balances worth a and b still need for their range is within  *)
(* the tolerance of the plan and one unit, but for the value that one step of *)
(* the ratio's scale stands for and the share of a loss that the range wanted *)
(* on the other side.                                                        *)
Fits(a, b, r) ==
    LET p == Plan(a, b, r)
        t == a + b + MaxLoss
        bought == IF p.zeroForOne THEN r ELSE Scale - r
    IN  p.amount * Scale < (Tolerance(t) + 1) * Scale + t + bought * MaxLoss

(* A position is minted from balances that fit its range, whatever the        *)
(* market, the budgets and the holders did in between                        *)
(* (progressiveRebalance, step 2).                                           *)
MintsBalanced == ~active /\ position => Fits(v0, v1, ratio)

(* What makes it inductive: between two cycles the balances left fit, unless  *)
(* the Safe closed the cycle in exit-only mode, where nothing is minted.      *)
RestFits == ~active => (exitOnly /\ ~position) \/ Fits(v0, v1, ratio)

(* A swap the module accepts never makes the opposite swap necessary.      *)
NoSwapBack ==
    [][ContinueProgressiveRebalance =>
        LET p == Plan(v0, v1, ratio)
            q == Plan(v0', v1', ratio')
        IN  q.amount > 0 => q.zeroForOne = p.zeroForOne]_vars

(* A cycle ends: minted, or closed in exit-only mode; unless its turnover  *)
(* cap is too small for the range it is now to reach, where the Safe must   *)
(* step in, or the holders have recovered everything there was to mint.    *)
CycleEnds ==
    active ~> (~active \/ cycleBudget < Plan(v0, v1, ratio).amount \/ v0 + v1 = 0)
=============================================================================

---------------------------- MODULE HedgeManager ----------------------------
(***************************************************************************)
(* The Aave hedge of the delta-neutral pool (AaveHedgeManager.sol with its    *)
(* libraries): collateral in token 1, debt in token 0, idle balances of both, *)
(* and the flash loans with which withdrawals, repairs and adjustments buy    *)
(* the token 0 they repay.  The target of the hedge is the token 0 in the LP. *)
(*                                                                         *)
(* An action is one transaction; what it calls in the vault, the range        *)
(* manager and Aave is part of it.  Token 1 is the unit of value; basis       *)
(* points are scaled to percent.  Abstracted: bounties, the setters, the       *)
(* checks of tick, TWAP and cache, and the engine's choice of the action,     *)
(* which may fall on any hedge at any time.                                  *)
(***************************************************************************)
EXTENDS Integers

CONSTANTS
    Prices,         \* prices of Unit of token 0
    Unit,
    Inventories,    \* token 0 a position of any range may hold
    Threshold,      \* Aave's liquidation threshold, percent
    Ltv,            \* Aave's limit for a new borrowing, percent
    Floor,          \* reserveHfTargetBps, percent
    OpTarget,       \* operationalHfTargetBps: Floor and the buffer
    Trigger,        \* hfRepairTriggerBps
    Slippage,       \* swapSlippageBps, percent
    PremiumRate,    \* Aave's flash loan premium, percent
    AdjustDrift,    \* adjustHedgeBps, percent
    CriticalDrift,  \* criticalHedgeBps, percent
    CheckDrift,     \* dnPostCheckMaxDriftBps and DN_REBAL_MAX_DRIFT_BPS, percent
    Dust,           \* donationDustToken0
    SwapCap,        \* initMultiSwapTvl, in token 1
    Supplies,       \* collateral a deposit may bring
    Fractions,      \* shares of the pool that a holder may withdraw, percent
    Gift,           \* what a donation brings
    Interest,       \* debt one accrual adds
    Crumbs,         \* debts of less value may be lost in rounding
    MaxEvents       \* bound: steps of the market, the vault and donors

ASSUME HedgeAssumption ==
    /\ Prices \subseteq Nat \ {0} /\ Unit \in Nat \ {0} /\ Inventories \subseteq Nat
    /\ {Threshold, Floor, OpTarget, Trigger, AdjustDrift, CriticalDrift} \subseteq Nat \ {0}
    /\ Ltv \in 1 .. Threshold /\ Threshold < 100 /\ 100 < Trigger /\ Trigger < Floor /\ Floor <= OpTarget
    /\ AdjustDrift < CriticalDrift /\ CheckDrift < AdjustDrift
    /\ Slippage \in 0 .. 99
    /\ {PremiumRate, CheckDrift, Dust, SwapCap, Crumbs, Gift, Interest, MaxEvents} \subseteq Nat
    /\ Supplies \subseteq Nat \ {0} /\ Fractions \subseteq 1 .. 99

VARIABLES
    pos,        \* debt, collateral, idle balances of the manager, free token 0 of the range manager
    lp0,        \* token 0 in the LP position
    price,
    pending,    \* inventoryNormalizationPending
    cooling,    \* block.timestamp < lastHedgeAdjustAt + hedgeAdjustCooldown
    stopped,    \* paused(): hedge openings are stopped
    pauseMode,  \* of the PauseController: open, held (withdrawals), or exit-only
    hasPosition,\* the range manager has a position
    events      \* history: counts the bounded steps

hedgeVars == <<pos, lp0, price, pending, cooling, stopped, pauseMode, hasPosition, events>>

Positions == [debt : Nat, coll : Nat, idle0 : Nat, idle1 : Nat, rm0 : Nat]

HedgeTypeOK ==
    /\ pos \in Positions /\ lp0 \in Nat /\ price \in Prices
    /\ {pending, cooling, stopped, hasPosition} \subseteq BOOLEAN
    /\ pauseMode \in {"open", "held", "exit"} /\ events \in 0 .. MaxEvents

-----------------------------------------------------------------------------
(* Arithmetic of the libraries.                                             *)
Least(a, b) == IF a < b THEN a ELSE b
Excess(a, b) == IF a > b THEN a - b ELSE 0
Distance(a, b) == IF a > b THEN a - b ELSE b - a
CeilDiv(a, b) == (a + b - 1) \div b
Part(x, s) == (x * s) \div 100

(* Aave's valuation and health factor, in hundredths of a percent.          *)
Base(x) == (x * price) \div Unit
Unlimited == 1000000
Health(p) == IF Base(p.debt) = 0 THEN Unlimited ELSE (p.coll * Threshold * 100) \div Base(p.debt)
HealthAtLeast(p, percent) == Health(p) >= percent * 100

(* Oracle bounds of a purchase and of a sale of x token 0; a trade is made at *)
(* the oracle's price or, when it is bad, at the bound.                      *)
OracleMax(x) == CeilDiv(CeilDiv(x * price, Unit) * (100 + Slippage), 100)
OracleMin(x) == (Base(x) * (100 - Slippage)) \div 100
Cost(x, bad) == IF bad THEN OracleMax(x) ELSE CeilDiv(x * price, Unit)
Proceeds(x, bad) == IF bad THEN OracleMin(x) ELSE Base(x)
Owed(x) == x + (x * PremiumRate + 50) \div 100

Net(x) == Excess(x, Dust)
Short(p) == p.debt - Net(p.idle0) - Net(p.rm0)
DriftOf(gap, target) == IF target = 0 THEN Unlimited ELSE (gap * 100) \div target

-----------------------------------------------------------------------------
(* aaveHfSafeSwapBudget: collateral that may be drawn for a purchase of at    *)
(* most max while the health factor stays at the target.                     *)
Drawable(p, target) ==
    IF Base(p.debt) = 0 THEN p.coll
    ELSE Excess(p.coll, CeilDiv(Base(p.debt) * target, Threshold))

Budget(p, max, target) ==
    LET draw == Least(Excess(max, p.idle1), Drawable(p, target))
    IN  [draw |-> draw, cap |-> Least(max, p.idle1 + draw)]

(* executeOperation without a recipient, and completeFlashRepayment: x is     *)
(* repaid from the loan, then what is owed is bought with idle token 1 and    *)
(* with collateral that the debt no longer needs.                            *)
FlashBudget(p, x, target) == Budget([p EXCEPT !.debt = @ - x], OracleMax(Owed(x)), target)

FlashCovers(p, x, target, bad) ==
    LET budget == FlashBudget(p, x, target)
    IN  budget.cap > 0 /\ Cost(Owed(x), bad) <= budget.cap

FlashRepaid(p, x, target, bad) ==
    LET draw == FlashBudget(p, x, target).draw
    IN  [p EXCEPT !.debt = @ - x, !.coll = @ - draw,
                  !.idle1 = @ + draw - Cost(Owed(x), bad)]

(* Aave lets the debt grow while the collateral carries it.                  *)
Carries(coll, debt) == coll * Ltv >= Base(debt) * 100

(* increaseEffectiveShort: borrow, sell all of it, supply all token 1.       *)
Borrowed(p, x, bad) ==
    [p EXCEPT !.debt = @ + x, !.coll = @ + p.idle1 + Proceeds(x, bad), !.idle1 = 0]

(* _rebuildReserve: collateral beyond the operational target becomes idle.    *)
ReserveRebuilt(p) ==
    LET free == IF Base(p.debt) = 0 THEN 0 ELSE Drawable(p, OpTarget)
    IN  [p EXCEPT !.coll = @ - free, !.idle1 = @ + free]

-----------------------------------------------------------------------------
(* Mutant: a recorded continuation may also change the debt. *)
InventoryOnly_Fresh(target, continued, capped) == target = 0 \/ capped

(* A step of the inventory leaves the debt alone: above the range, to finish  *)
(* a recorded correction, or when the cap does not allow all of it.           *)
InventoryOnly(target, continued, capped) == target = 0 \/ continued \/ capped

(* prepareHedgeInventory: what an adjustment towards the target does with the *)
(* free token 0 before it touches the debt.  An under-hedged pool sells it;   *)
(* above the range it repays debt.  strict: with thresholds and cooldown.     *)
Inventory(p, target, strict) ==
    LET short == Short(p)
        repay == target = 0 /\ short >= 0
        continued == strict /\ pending /\ short < target /\ p.debt > short
        gap == IF repay THEN p.debt ELSE Distance(short, target)
        stock == IF repay THEN Net(p.idle0)
                 ELSE IF short < target THEN p.debt - short ELSE 0
        needed == Least(gap, stock)
        amount == Least(needed, (SwapCap * Unit) \div price)
    IN  [repay |-> repay, continued |-> continued, stock |-> stock, amount |-> amount,
         drift |-> DriftOf(gap, target),
         only |-> stock > 0 /\ InventoryOnly(target, continued, amount < needed)]

Admitted(plan, target, strict) ==
    /\ target = 0 => strict
    /\ \/ ~strict \/ plan.continued
       \/ /\ plan.drift >= AdjustDrift
          /\ cooling => plan.drift >= CriticalDrift
    /\ plan.repay => plan.stock > 0
    /\ plan.stock > 0 => plan.amount > 0
    /\ plan.stock > 0 /\ ~plan.repay => OracleMin(plan.amount) > 0

InventoryUsed(p, plan, bad) ==
    LET pulled == Excess(plan.amount, Net(p.idle0))
    IN  IF plan.amount = 0 THEN p
        ELSE IF plan.repay THEN [p EXCEPT !.debt = @ - plan.amount, !.idle0 = @ - plan.amount]
        ELSE [p EXCEPT !.idle0 = @ + pulled - plan.amount, !.rm0 = @ - pulled,
                       !.coll = @ + p.idle1 + Proceeds(plan.amount, bad), !.idle1 = 0]

(* executeHedgeAdjustment: use the inventory, then borrow or repay what is    *)
(* still missing, unless this was a step of the inventory only.              *)
ExecuteHedgeAdjustment(p, target, strict, bad) ==
    LET plan == Inventory(p, target, strict)
        q == InventoryUsed(p, plan, bad)
        missing == IF plan.only THEN 0 ELSE target - Short(q)
        adjusted == CASE missing > 0 -> Borrowed(q, missing, bad)
                      [] missing < 0 -> FlashRepaid(q, -missing, Floor, bad)
                      [] OTHER -> q
        idle == missing = 0 /\ plan.amount = 0
    IN  /\ Admitted(plan, target, strict)
        /\ missing > 0 => ~stopped /\ OracleMin(missing) > 0 /\ Carries(q.coll + q.idle1, q.debt + missing)
        /\ missing < 0 => FlashCovers(q, -missing, Floor, bad)
        /\ pos' = IF idle THEN p ELSE ReserveRebuilt(adjusted)
        /\ HealthAtLeast(pos', Floor)
        /\ pending' = (plan.only /\ target # 0 /\ Short(q) < target /\ q.debt > Short(q))
        /\ cooling' = IF idle \/ plan.only THEN cooling ELSE TRUE

(* adjustHedge, when the engine's decision is HEDGE_ONLY.                    *)
AdjustHedge(bad) ==
    /\ hasPosition
    /\ ExecuteHedgeAdjustment(pos, lp0, TRUE, bad)
    /\ UNCHANGED <<lp0, price, stopped, pauseMode, hasPosition, events>>

-----------------------------------------------------------------------------
(* aaveHfRepairAmounts: what to repay from idle token 0, and through a flash  *)
(* loan, to bring the health factor to the operational target; one percent   *)
(* stands for the ten basis points above it and for the five of the cost.    *)
RepairTarget == OpTarget + 1
FlashCost == CeilDiv(Threshold * (100 + Slippage + PremiumRate + 1), 100)

Direct(p) ==
    LET required == RepairTarget * Base(p.debt)
        short == CeilDiv(p.debt * (required - Threshold * p.coll), required)
        buffer == p.debt \div Base(p.debt) + 1
        needed == IF p.debt - short < buffer THEN p.debt ELSE short + buffer
    IN  Least(p.idle0, needed)

(* What the direct repayment leaves of the debt, and whether a flash loan is   *)
(* needed for it.                                                           *)
RestBase(p, direct) == Base(p.debt) - (Base(p.debt) * direct) \div p.debt

NeedsFlash(p, direct) ==
    LET secured == Threshold * p.coll
    IN  RepairTarget * RestBase(p, direct) > secured /\ RestBase(p, direct) # 0 /\ secured # 0

Repaid(p, direct, cost) ==
    CeilDiv(RepairTarget * RestBase(p, direct) - Threshold * p.coll, RepairTarget - cost)

(* Mutant: the premium and the slippage of the purchase are forgotten. *)
Flash_NoCost(p, direct) ==
    IF ~NeedsFlash(p, direct) THEN 0
    ELSE Least(p.debt - direct,
               CeilDiv((p.debt - direct) * Repaid(p, direct, Threshold), RestBase(p, direct)))

Flash(p, direct) ==
    IF ~NeedsFlash(p, direct) THEN 0
    ELSE Least(p.debt - direct,
               CeilDiv((p.debt - direct) * Repaid(p, direct, FlashCost), RestBase(p, direct)))

Ailing(p) == Base(p.debt) > 0 /\ ~HealthAtLeast(p, Trigger)

(* repairHealthFactor, and adjustHedge when the decision is HF_REPAIR.  If    *)
(* the flash loan fails, for want of a market or of budget, what was repaid   *)
(* directly stays, provided it helped.                                      *)
RepairPlan(bad, market) ==
    LET direct == Direct(pos)
        flash == Flash(pos, direct)
        q == [pos EXCEPT !.debt = @ - direct, !.idle0 = @ - direct]
        flashed == flash > 0 /\ market /\ FlashCovers(q, flash, OpTarget, bad)
    IN  [direct |-> direct, flash |-> flash, deferred |-> flash > 0 /\ ~flashed,
         pos |-> IF flashed THEN FlashRepaid(q, flash, OpTarget, bad) ELSE q]

Repairs(plan) ==
    /\ NeedsFlash(pos, plan.direct) => RepairTarget > FlashCost
    /\ RepairTarget * Base(pos.debt) > Threshold * pos.coll
    /\ plan.direct > 0 \/ plan.flash > 0
    /\ plan.deferred => plan.direct > 0
    /\ plan.deferred \/ Health(pos) = 0 \/ HealthAtLeast(plan.pos, Floor)
    /\ Base(plan.pos.debt) < Base(pos.debt)
    /\ Health(pos) = 0 \/ Health(plan.pos) > Health(pos)

RepairHealthFactor(bad, market) ==
    /\ Ailing(pos)
    /\ LET plan == RepairPlan(bad, market)
       IN  Repairs(plan) /\ pos' = plan.pos
    /\ UNCHANGED <<lp0, price, pending, cooling, stopped, pauseMode, hasPosition, events>>

-----------------------------------------------------------------------------
(* Mutant: the idle token 0 of all pays the debt of the one who leaves. *)
IdleShare_All(s, full) == pos.idle0

IdleShare(s, full) == IF full THEN pos.idle0 ELSE Part(pos.idle0, s)

(* _settleProportional, which withdrawals and emergency recoveries call.  The *)
(* leaver's token 0 from the LP and from the idle balance pays the leaver's   *)
(* share of the debt; a flash loan, repaid from the leaver's collateral, pays *)
(* what it falls short.  full: nobody is left.                               *)
Leaving(s, full) ==
    LET of(x) == IF full THEN x ELSE Part(x, s)
        idle == IdleShare(s, full)
        brought == IF full THEN lp0 + pos.rm0 ELSE Part(lp0, s) + Part(pos.rm0, s)
    IN  [debt |-> of(pos.debt), coll |-> of(pos.coll), idle0 |-> idle, idle1 |-> of(pos.idle1),
         rm0 |-> of(pos.rm0), lp0 |-> of(lp0),
         shortfall |-> IF pos.debt = 0 THEN 0 ELSE Excess(of(pos.debt), brought + idle)]

(* Token 1 that the purchase may cost: what the leaver's collateral yields;   *)
(* when nobody stays also the reserve.                                      *)
Purse(gone, full) == IF full THEN gone.coll + pos.idle1 ELSE gone.coll

(* aavePostSettlement: a partial settlement may leave the health factor below *)
(* the floor only if it was there, is at least one, and fell by no more than  *)
(* rounding explains.                                                       *)
RoundingAllowance(p) ==
    LET base == Base(p.debt)
        debtUnit == CeilDiv(base, p.debt) + 1
    IN  CeilDiv(Health(pos) * debtUnit, base) + CeilDiv(10000 * 3, base) + 1

Settled(p, full) ==
    IF full THEN p.debt = 0 /\ p.coll = 0
    ELSE \/ HealthAtLeast(p, Floor)
         \/ /\ ~HealthAtLeast(pos, Floor) /\ HealthAtLeast(p, 100) /\ Base(p.debt) > 0
            /\ \/ Health(p) >= Health(pos)
               \/ p.coll > 0 /\ Health(pos) - Health(p) <= RoundingAllowance(p)

(* Mutant: the collateral is withdrawn before the debt is repaid. *)
Released_First(left, gone) ==
    gone.coll = 0 \/ left.debt = 0 \/ HealthAtLeast([left EXCEPT !.debt = @ + gone.debt], 100)

(* Aave releases collateral while the health factor stays above one; the debt *)
(* was repaid before.                                                       *)
Released(left, gone) == gone.coll = 0 \/ left.debt = 0 \/ HealthAtLeast(left, 100)

Settlement(s, full, bad) ==
    LET gone == Leaving(s, full)
        purchase == IF gone.shortfall = 0 THEN 0 ELSE Cost(Owed(gone.shortfall), bad)
        left == [debt |-> pos.debt - gone.debt, coll |-> pos.coll - gone.coll,
                 idle0 |-> pos.idle0 - gone.idle0,
                 idle1 |-> IF full THEN 0
                           ELSE pos.idle1 - gone.idle1 + gone.coll - purchase - Excess(gone.coll, purchase),
                 rm0 |-> pos.rm0 - gone.rm0]
    IN  [left |-> left,
         passes |-> /\ purchase <= Purse(gone, full)
                    /\ gone.shortfall > 0 => Purse(gone, full) > 0
                    /\ full /\ pos.debt > 0 => pos.coll > 0
                    /\ Released(left, gone)
                    /\ Settled(left, full)]

Settle(s, full, bad) ==
    /\ Settlement(s, full, bad).passes
    /\ pos' = Settlement(s, full, bad).left
    /\ lp0' = lp0 - Leaving(s, full).lp0
    /\ hasPosition' = (hasPosition /\ ~full)
    /\ UNCHANGED <<price, pending, cooling, stopped, pauseMode>>

-----------------------------------------------------------------------------
(* openDepositHedge with supplyAndBorrow and sweepWethAmount, for a deposit   *)
(* whose computed collateral is c; the token 0 borrowed joins the position.   *)
(* The deposit is processed while the drift is below the threshold of an      *)
(* adjustment and must not exceed its limit (postCheckDepositHedge), counted  *)
(* with or without dust.                                                    *)
Drift(p, target) == DriftOf(Distance(Short(p), target), target)
PlainDrift(p, target) == DriftOf(Distance(p.debt - p.idle0 - p.rm0, target), target)

OpenHedge(c) ==
    LET ltv == (Threshold * 100) \div OpTarget
        b == (((c * ltv) \div 100) * Unit) \div price
        p == [pos EXCEPT !.coll = @ + c, !.debt = @ + b]
        q == IF hasPosition THEN p ELSE [p EXCEPT !.rm0 = 0]
        minted == lp0 + b + pos.rm0 - q.rm0
        inherited == Drift(pos, lp0)
        allowed == Least(CriticalDrift, IF inherited > CheckDrift
                                        THEN Least(inherited + 1, AdjustDrift - 1) ELSE CheckDrift)
    IN  /\ ~stopped /\ pauseMode = "open"
        /\ hasPosition => Short(pos) >= 0 /\ inherited < AdjustDrift
        /\ b > 0 /\ Carries(p.coll, p.debt) /\ HealthAtLeast(p, Floor)
        /\ Drift(q, minted) <= allowed \/ PlainDrift(q, minted) <= allowed
        /\ pos' = q /\ lp0' = minted /\ hasPosition' = TRUE
        /\ UNCHANGED <<price, pending, cooling, stopped, pauseMode>>

(* RangeManager's rebalance mints a range that holds target token 0, with all *)
(* its free token 0, synchronizes the hedge (syncAfterRangeChange) and checks  *)
(* the drift (postCheckRebalanceHedge).                                     *)
ChangeRange(target, bad) ==
    /\ hasPosition /\ pauseMode # "exit"
    /\ ExecuteHedgeAdjustment([pos EXCEPT !.rm0 = 0], target, FALSE, bad)
    /\ Drift(pos', target) <= CheckDrift
    /\ lp0' = target
    /\ UNCHANGED <<price, stopped, pauseMode, hasPosition>>

-----------------------------------------------------------------------------
(* In an emergency the Safe may close the hedge towards the range manager,    *)
(* repay debt from idle token 0 and sweep it, and burn the position.          *)
CloseAll(bad) ==
    LET missing == Excess(pos.debt, pos.idle0)
        purchase == IF missing = 0 THEN 0 ELSE Cost(Owed(missing), bad)
    IN  /\ pauseMode # "open"
        /\ purchase <= pos.coll + pos.idle1 /\ (missing > 0 => pos.coll > 0)
        /\ pos' = [debt |-> 0, coll |-> 0, idle0 |-> 0, idle1 |-> 0,
                   rm0 |-> pos.rm0 + Excess(pos.idle0, pos.debt)]
        /\ UNCHANGED <<lp0, price, pending, cooling, stopped, pauseMode, hasPosition, events>>

RepayDebt(x) ==
    /\ pauseMode # "open" /\ x > 0 /\ pos.debt > 0 /\ x <= pos.idle0
    /\ pos' = [pos EXCEPT !.debt = @ - Least(x, pos.debt), !.idle0 = @ - Least(x, pos.debt)]
    /\ UNCHANGED <<lp0, price, pending, cooling, stopped, pauseMode, hasPosition, events>>

SweepWethAmount(x) ==
    /\ pauseMode # "open" /\ x > 0 /\ x <= pos.idle0
    /\ pos' = [pos EXCEPT !.idle0 = @ - x, !.rm0 = @ + x]
    /\ UNCHANGED <<lp0, price, pending, cooling, stopped, pauseMode, hasPosition, events>>

EmergencyBurnHedgedPosition ==
    /\ pauseMode # "open" /\ hasPosition
    /\ pos' = [pos EXCEPT !.rm0 = @ + lp0] /\ lp0' = 0 /\ hasPosition' = FALSE
    /\ UNCHANGED <<price, pending, cooling, stopped, pauseMode>>

SetPaused ==
    /\ stopped' = ~stopped
    /\ UNCHANGED <<pos, lp0, price, pending, cooling, pauseMode, hasPosition>>

SetMode(m) ==
    /\ m # pauseMode /\ pauseMode # "exit"
    /\ pauseMode' = m
    /\ UNCHANGED <<pos, lp0, price, pending, cooling, stopped, hasPosition>>

-----------------------------------------------------------------------------
(* The market: a rise leaves the position less token 0, a fall more; above    *)
(* its range it has none.                                                   *)
Move(to, held) ==
    /\ to # price
    /\ IF hasPosition THEN (to > price => held <= lp0) /\ (to < price => held >= lp0) ELSE held = 0
    /\ price' = to /\ lp0' = held
    /\ UNCHANGED <<pos, pending, cooling, stopped, pauseMode, hasPosition>>

Accrue ==
    /\ pos.debt > 0
    /\ pos' = [pos EXCEPT !.debt = @ + Interest]
    /\ UNCHANGED <<lp0, price, pending, cooling, stopped, pauseMode, hasPosition>>

Donate(where) ==
    /\ pos' = [pos EXCEPT ![where] = @ + Gift]
    /\ UNCHANGED <<lp0, price, pending, cooling, stopped, pauseMode, hasPosition>>

CooldownEnds ==
    /\ cooling /\ cooling' = FALSE
    /\ UNCHANGED <<pos, lp0, price, pending, stopped, pauseMode, hasPosition, events>>

(* A pool after its first deposits: debt equal to the token 0 in the LP, the  *)
(* health factor at the operational target.                                 *)
HedgeInit ==
    /\ price \in Prices /\ \A x \in Prices : price <= x
    /\ lp0 \in Inventories \ {0}
    /\ pos = [debt |-> lp0, coll |-> CeilDiv(Base(lp0) * OpTarget, Threshold),
              idle0 |-> 0, idle1 |-> 0, rm0 |-> 0]
    /\ pending = FALSE /\ cooling = FALSE /\ stopped = FALSE
    /\ pauseMode = "open" /\ hasPosition = TRUE /\ events = 0

Event ==
    /\ events < MaxEvents /\ events' = events + 1
    /\ \/ \E s \in Fractions, bad \in BOOLEAN : Settle(s, FALSE, bad)
       \/ \E bad \in BOOLEAN : Settle(100, TRUE, bad)
       \/ \E c \in Supplies : OpenHedge(c)
       \/ \E target \in Inventories \ {0}, bad \in BOOLEAN : ChangeRange(target, bad)
       \/ EmergencyBurnHedgedPosition
       \/ SetPaused
       \/ \E m \in {"open", "held", "exit"} : SetMode(m)
       \/ \E to \in Prices, held \in Inventories \cup {lp0} : Move(to, held)
       \/ Accrue
       \/ \E where \in {"idle0", "idle1", "rm0"} : Donate(where)

HedgeNext ==
    \/ Event
    \/ \E bad \in BOOLEAN : AdjustHedge(bad)
    \/ \E bad, market \in BOOLEAN : RepairHealthFactor(bad, market)
    \/ \E bad \in BOOLEAN : CloseAll(bad)
    \/ RepayDebt(pos.idle0)
    \/ SweepWethAmount(pos.idle0)
    \/ CooldownEnds

HedgeSpec == HedgeInit /\ [][HedgeNext]_hedgeVars

-----------------------------------------------------------------------------
(***************************************************************************)
(* A holder who leaves takes or pays the own share of every balance and not   *)
(* more: what the others keep of idle tokens and collateral is at least their *)
(* part of it, and they owe no more than theirs, whichever way the debt was   *)
(* repaid and whatever the purchase cost.  The last to leave leaves nothing.  *)
(***************************************************************************)
OwnShareOnly == [][
    /\ \A s \in Fractions, bad \in BOOLEAN : Settle(s, FALSE, bad) =>
         /\ \A a \in {"coll", "idle0", "idle1", "rm0"} : pos'[a] * 100 >= pos[a] * (100 - s)
         /\ pos'.debt * 100 < pos.debt * (100 - s) + 100
    /\ \A bad \in BOOLEAN : Settle(100, TRUE, bad) =>
         \A a \in DOMAIN pos : pos'[a] = 0]_hedgeVars

(***************************************************************************)
(* Debts from Crumbs on are large against what rounding may add: the rounding *)
(* of a purchase, in parts of 10000 Unit, against the one percent by which a   *)
(* flash loan is estimated higher and against the reserve of one who leaves;   *)
(* and the rounding of the shares against the one percent above the floor.     *)
(* Every Crumbs from some value on is such.  The code has five basis points    *)
(* for the former, and 18 decimals.                                          *)
(***************************************************************************)
PurchaseRounding(x) == (50 * x + 100 * Unit) * (100 + Slippage) + 9900 * Unit

RepairRounding(x) ==
    (Unit + x) * ((100 + PremiumRate) * (100 + Slippage)) + PurchaseRounding(x) + 10000 * Unit

ASSUME RoundingAssumption ==
    /\ 100 * OpTarget <= Unlimited /\ FlashCost <= Floor /\ PremiumRate * Slippage < 100
    /\ \A x \in Prices :
         /\ RepairTarget * RepairRounding(x) <= FlashCost * Crumbs * (Unit * (100 - PremiumRate * Slippage))
         /\ \A s \in Fractions :
              /\ Threshold * (PurchaseRounding(x) + 9900 * Unit)
                   <= 100 * (Unit * s) * ((Floor + 1) * Crumbs - FlashCost * (Crumbs + 1))
              /\ Floor * ((100 - s) * Unit + 99 * x) <= Crumbs * ((100 - s) * Unit)

(***************************************************************************)
(* An urgent repair goes through whenever the health factor is below the      *)
(* trigger and the collateral is worth the debt and the cost of buying it:    *)
(* the amounts computed from the account always fit the budget that the       *)
(* callback computes after the direct repayment, and reach the floor.  And    *)
(* every holder can settle while the health factor is above the floor by more *)
(* than the rounding of the shares explains: neither the purchase, nor Aave,  *)
(* nor the check at the end reverts.                                         *)
(***************************************************************************)
SafetyAvailable ==
    /\ Ailing(pos) /\ Base(pos.debt) >= Crumbs /\ Threshold * pos.coll >= FlashCost * Base(pos.debt) =>
         \A bad \in BOOLEAN : Repairs(RepairPlan(bad, TRUE))
    /\ HealthAtLeast(pos, Floor + 1) /\ Base(pos.debt) >= Crumbs =>
         \A s \in Fractions, bad \in BOOLEAN : Settlement(s, FALSE, bad).passes

(***************************************************************************)
(* A hedge adjustment moves the short towards the token 0 in the LP, never    *)
(* beyond it, and unless it was a step of a recorded inventory correction,    *)
(* exactly to it.  While it cools down, only a critical drift changes the     *)
(* debt; above the range nothing is ever borrowed, and finishing a recorded   *)
(* correction never changes the debt, not even with a critical drift.         *)
(***************************************************************************)
AdjustmentSound == [][
    (\E bad \in BOOLEAN : AdjustHedge(bad)) =>
        LET before == Short(pos)
            after == Short(pos')
        IN  /\ Distance(after, lp0) <= Distance(before, lp0)
            /\ (before <= lp0 => after <= lp0) /\ (before >= lp0 => after >= lp0)
            /\ ~pending' /\ lp0 > 0 => after = lp0 \/ pending
            /\ pos'.debt > pos.debt => lp0 > 0
            /\ cooling /\ lp0 > 0 /\ Drift(pos, lp0) < CriticalDrift => pos'.debt = pos.debt
            /\ pending /\ before < lp0 /\ pos.debt > before => pos'.debt = pos.debt]_hedgeVars

(***************************************************************************)
(* The comment of the contract's own pause: it "blocks supplyAndBorrow()      *)
(* only.  Settlement, adjustHedge, ... remain available so the active position *)
(* can be maintained".  So a hedge that can be adjusted can still be adjusted  *)
(* once the Safe has stopped openings.  It cannot if the short has to grow:    *)
(* _increaseEffectiveShort reverts while stopped.                           *)
(***************************************************************************)
Adjustable == ENABLED (\E bad \in BOOLEAN : AdjustHedge(bad))
PauseStopsOpeningsOnly == [][SetPaused /\ Adjustable => Adjustable']_hedgeVars
=============================================================================

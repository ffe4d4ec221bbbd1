--------------------- MODULE ProgressiveRebalanceProofs ---------------------
(* Type correctness, the lock, the turnover cap and the direction of the      *)
(* swaps of the progressive rebalance, for every cap, margin, loss, ratio,    *)
(* precision and bound.                                                      *)
EXTENDS ProgressiveRebalance, TLAPS

(* Quotients of natural numbers, which the solver needs one at a time.       *)
LEMMA Quotient ==
    ASSUME NEW p \in Nat, NEW q \in Nat \ {0}
    PROVE  p \div q \in Nat
OBVIOUS

LEMMA Product ==
    ASSUME NEW p \in Nat, NEW q \in Nat
    PROVE  p * q \in Nat
OBVIOUS

(* A quotient, times its divisor, is the dividend less a remainder.          *)
LEMMA QuotientBounds ==
    ASSUME NEW p \in Nat, NEW q \in Nat \ {0}
    PROVE  /\ (p \div q) * q <= p
           /\ p < (p \div q) * q + q
OBVIOUS

LEMMA Monotone ==
    ASSUME NEW a \in Nat, NEW b \in Nat, NEW c \in Nat, a <= b
    PROVE  a * c <= b * c
<1>1. PICK d \in Nat : b = a + d
  BY b - a \in Nat
<1>2. b * c = a * c + d * c
  BY <1>1
<1>3. a * c \in Nat /\ d * c \in Nat
  BY <1>1, Product
<1> QED BY <1>2, <1>3

(* A plan never asks for more than the side it sells holds.                  *)
LEMMA PlanBounded ==
    ASSUME NEW a \in Nat, NEW b \in Nat, NEW r \in 0 .. Scale
    PROVE  /\ Plan(a, b, r).zeroForOne \in BOOLEAN
           /\ Plan(a, b, r).amount \in Nat
           /\ Plan(a, b, r).amount <= IF Plan(a, b, r).zeroForOne THEN a ELSE b
<1>1. r \in Nat /\ Scale \in Nat \ {0} /\ RatioTol \in Nat
  BY ConstantsAssumption DEF ConstantsAssumption
<1>2. CASE a + b = 0
  BY <1>2 DEF Plan
<1>3. CASE a + b # 0
  <2> DEFINE s == Share(a, b)
             t == a + b
  <2>1. s \in Nat /\ t \in Nat
    <3>1. a * Scale \in Nat
      BY <1>1, Product
    <3>2. a + b \in Nat \ {0}
      BY <1>3
    <3> QED BY <3>1, <3>2, Quotient DEF Share
  <2> HIDE DEF s
  <2>2. ASSUME s > r
        PROVE  Excess(a, b, r) \in Nat /\ Excess(a, b, r) <= a
    <3> DEFINE x == ((s - r) * t) \div Scale
    <3>1. x \in Nat
      <4>1. s - r \in Nat
        BY <1>1, <2>1, <2>2
      <4>2. (s - r) * t \in Nat
        BY <4>1, <2>1, Product
      <4> QED BY <4>2, <1>1, Quotient
    <3>2. Excess(a, b, r) = Least(x, a)
      BY DEF Excess, s
    <3> HIDE DEF x
    <3> QED BY <3>1, <3>2 DEF Least
  <2>3. ASSUME s < r
        PROVE  Deficit(a, b, r) \in Nat /\ Deficit(a, b, r) <= b
    <3> DEFINE y == ((r - s) * t) \div Scale
    <3>1. y \in Nat
      <4>1. r - s \in Nat
        BY <1>1, <2>1, <2>3
      <4>2. (r - s) * t \in Nat
        BY <4>1, <2>1, Product
      <4> QED BY <4>2, <1>1, Quotient
    <3>2. Deficit(a, b, r) = Least(y, b)
      BY DEF Deficit, s
    <3> HIDE DEF y
    <3> QED BY <3>1, <3>2 DEF Least
  <2>4. Plan(a, b, r) = IF s > r + RatioTol
                        THEN [zeroForOne |-> TRUE, amount |-> Excess(a, b, r)]
                        ELSE IF s + RatioTol < r
                        THEN [zeroForOne |-> FALSE, amount |-> Deficit(a, b, r)]
                        ELSE [zeroForOne |-> FALSE, amount |-> 0]
    BY <1>3 DEF Plan, s
  <2>5. CASE s > r + RatioTol
    BY <1>1, <2>1, <2>2, <2>4, <2>5
  <2>6. CASE s + RatioTol < r
    BY <1>1, <2>1, <2>3, <2>4, <2>6
  <2>7. CASE ~(s > r + RatioTol) /\ ~(s + RatioTol < r)
    BY <1>1, <2>1, <2>4, <2>7
  <2> QED BY <2>5, <2>6, <2>7
<1> QED BY <1>2, <1>3

(* The margin of a plan is a positive number.                                *)
LEMMA MarginPositive ==
    ASSUME NEW amount \in Nat
    PROVE  Margin(amount) \in Nat \ {0}
<1>1. MarginBps \in Nat
  BY ConstantsAssumption DEF ConstantsAssumption
<1>2. amount * MarginBps \in Nat
  BY <1>1
<1>3. (amount * MarginBps + 9999) \div 10000 \in Int
  BY <1>2
<1> QED BY <1>3 DEF Margin, Greatest

(* A new plan leaves natural budgets.                                        *)
LEMMA SetPlanTypes ==
    ASSUME NEW a \in Nat, NEW b \in Nat, NEW r \in 0 .. Scale, SetPlan(Plan(a, b, r))
    PROVE  /\ swapBudget' \in Nat /\ reverseBudget' \in Nat
           /\ initialDir' \in BOOLEAN /\ planCurrent' = TRUE
<1> DEFINE p == Plan(a, b, r)
<1>1. p.amount \in Nat /\ p.zeroForOne \in BOOLEAN
  BY PlanBounded
<1>2. Margin(p.amount) \in Nat
  BY <1>1, MarginPositive
<1> HIDE DEF p
<1>3. SetPlan(p)
  BY DEF p
<1> QED BY <1>1, <1>2, <1>3 DEF SetPlan

(* A swap within the plan takes no more than its side holds.                 *)
LEMMA SwapTypes ==
    ASSUME v0 \in Nat, v1 \in Nat, ratio \in 0 .. Scale,
           NEW a \in Nat, a <= Plan(v0, v1, ratio).amount,
           Swap(Plan(v0, v1, ratio), a)
    PROVE  v0' \in Nat /\ v1' \in Nat
<1> DEFINE p == Plan(v0, v1, ratio)
<1>1. /\ p.zeroForOne \in BOOLEAN /\ p.amount \in Nat
      /\ p.amount <= IF p.zeroForOne THEN v0 ELSE v1
  BY PlanBounded
<1>2. a <= p.amount /\ Swap(p, a)
  OBVIOUS
<1> HIDE DEF p
<1>3. MaxLoss \in Nat
  BY ConstantsAssumption DEF ConstantsAssumption
<1>4. PICK loss \in 0 .. Least(MaxLoss, a) :
        /\ v0' = IF p.zeroForOne THEN v0 - a ELSE v0 + a - loss
        /\ v1' = IF p.zeroForOne THEN v1 + a - loss ELSE v1 - a
  BY <1>2 DEF Swap
<1>5. loss \in Nat /\ loss <= a
  BY <1>3, <1>4 DEF Least
<1>6. CASE p.zeroForOne
  BY <1>1, <1>2, <1>4, <1>5, <1>6
<1>7. CASE ~p.zeroForOne
  BY <1>1, <1>2, <1>4, <1>5, <1>7
<1> QED BY <1>6, <1>7

(* A swap is charged to every budget it must fit in.                         *)
LEMMA ConsumeTypes ==
    ASSUME TypeOK, turnover + cycleBudget = granted,
           NEW p, NEW a \in Nat, Consume(p, a)
    PROVE  /\ swapBudget' \in Nat /\ reverseBudget' \in Nat /\ cycleBudget' \in Nat
           /\ turnover' \in Nat /\ turnover' + cycleBudget' = granted
BY DEF TypeOK, Consume

(* Decisions a mint or a checkpoint leaves are typed.                        *)
LEMMA CanonTypes ==
    ASSUME TypeOK
    PROVE  /\ SeesAfterMint \in [reason : Reasons, sees : {"none", "current", "other"}]
           /\ Checkpoints \subseteq [reason : Reasons, sees : {"none", "current", "other"}]
BY DEF TypeOK, SeesAfterMint, Checkpoints, Reasons

LEMMA InitIInv == Init => IInv
<1>1. Scale \in Nat /\ MaxMoves \in Nat
  BY ConstantsAssumption DEF ConstantsAssumption
<1> SUFFICES ASSUME Init PROVE IInv
  OBVIOUS
<1>2. canon \in [reason : Reasons, sees : {"none", "current", "other"}]
  BY DEF Init, Reasons
<1>3. TypeOK
  <2>1. /\ active \in BOOLEAN /\ planCurrent \in BOOLEAN /\ initialDir \in BOOLEAN
        /\ locked \in BOOLEAN /\ position \in BOOLEAN /\ safeLock \in BOOLEAN
        /\ exitOnly \in BOOLEAN
    BY DEF Init
  <2>2. /\ swapBudget \in Nat /\ reverseBudget \in Nat /\ cycleBudget \in Nat
        /\ granted \in Nat /\ turnover \in Nat
        /\ v0 \in Nat /\ v1 \in Nat /\ ratio \in 0 .. Scale /\ moves \in 0 .. MaxMoves
    BY <1>1 DEF Init
  <2>3. age \in Ages /\ market \in Markets
    BY DEF Init, Ages, Markets
  <2> QED BY <1>2, <2>1, <2>2, <2>3 DEF TypeOK
<1>4. LockHeldForCycle /\ turnover + cycleBudget = granted
  BY DEF Init, LockHeldForCycle
<1> QED BY <1>3, <1>4 DEF IInv

LEMMA NextIInv == IInv /\ [Next]_vars => IInv'
<1> SUFFICES ASSUME IInv, [Next]_vars PROVE IInv'
  OBVIOUS
<1>0. /\ TypeOK /\ LockHeldForCycle /\ turnover + cycleBudget = granted
      /\ Scale \in Nat /\ Cap \in Nat /\ MaxSide \in Nat /\ MaxMoves \in Nat
      /\ Ratios \subseteq 0 .. Scale
  BY ConstantsAssumption DEF IInv, ConstantsAssumption
<1>1. CASE BeginProgressiveRebalance
  <2>1. PICK a \in 0 .. MaxSide, b \in 0 .. MaxSide, r \in Ratios :
          /\ SetPlan(Plan(a, b, r))
          /\ v0' = a /\ v1' = b /\ ratio' = r
          /\ cycleBudget' = a + b /\ granted' = a + b /\ turnover' = 0
    BY <1>1 DEF BeginProgressiveRebalance
  <2>2. /\ a \in Nat /\ b \in Nat /\ r \in 0 .. Scale
    BY <1>0, <2>1
  <2>3. /\ swapBudget' \in Nat /\ reverseBudget' \in Nat
        /\ initialDir' \in BOOLEAN /\ planCurrent' = TRUE
    BY <2>1, <2>2, SetPlanTypes
  <2>4. TypeOK'
    <3>1. /\ active' = TRUE /\ locked' = TRUE /\ position' = FALSE /\ moves' = 0
          /\ safeLock' = safeLock
          /\ canon' = canon /\ age' = age /\ market' = market /\ exitOnly' = exitOnly
      BY <1>1 DEF BeginProgressiveRebalance, engineVars
    <3>2. /\ cycleBudget' \in Nat /\ granted' \in Nat /\ turnover' \in Nat
          /\ v0' \in Nat /\ v1' \in Nat /\ ratio' \in 0 .. Scale /\ moves' \in 0 .. MaxMoves
      BY <1>0, <2>1, <2>2, <3>1
    <3> QED BY <1>0, <2>3, <3>1, <3>2 DEF TypeOK
  <2>5. LockHeldForCycle'
    BY <1>0, <1>1 DEF BeginProgressiveRebalance, LockHeldForCycle
  <2> QED BY <2>1, <2>2, <2>4, <2>5 DEF IInv
<1>2. CASE ContinueProgressiveRebalance
  <2> DEFINE p == Plan(v0, v1, ratio)
  <2>1. PICK a \in 1 .. p.amount : Consume(p, a) /\ Swap(p, a)
    BY <1>2 DEF ContinueProgressiveRebalance
  <2>2. v0 \in Nat /\ v1 \in Nat /\ ratio \in 0 .. Scale
    BY <1>0 DEF TypeOK
  <2>3. p.amount \in Nat
    BY <2>2, PlanBounded
  <2>4. a \in Nat /\ a <= p.amount
    <3> HIDE DEF p
    <3> QED BY <2>3
  <2>5. v0' \in Nat /\ v1' \in Nat
    BY <2>1, <2>2, <2>4, SwapTypes
  <2> HIDE DEF p
  <2>6. /\ swapBudget' \in Nat /\ reverseBudget' \in Nat /\ cycleBudget' \in Nat
        /\ turnover' \in Nat /\ turnover' + cycleBudget' = granted
    BY <1>0, <2>1, <2>4, ConsumeTypes
  <2>7. TypeOK'
    BY <1>0, <1>2, <2>5, <2>6
       DEF ContinueProgressiveRebalance, TypeOK, vaultVars, engineVars
  <2>8. LockHeldForCycle'
    BY <1>0, <1>2 DEF ContinueProgressiveRebalance, LockHeldForCycle, vaultVars
  <2> QED BY <1>2, <2>6, <2>7, <2>8 DEF ContinueProgressiveRebalance, IInv
<1>3. CASE FinalizeProgressiveRebalance
  <2> DEFINE p == Plan(v0, v1, ratio)
  <2>1. PICK a \in 0 .. Least(p.amount, Cap) : LastSwap(p, a) /\ Swap(p, a)
    BY <1>3 DEF FinalizeProgressiveRebalance
  <2>2. v0 \in Nat /\ v1 \in Nat /\ ratio \in 0 .. Scale
    BY <1>0 DEF TypeOK
  <2>3. p.amount \in Nat
    BY <2>2, PlanBounded
  <2>4. a \in Nat /\ a <= p.amount
    <3> HIDE DEF p
    <3> QED BY <1>0, <2>1, <2>3 DEF LastSwap, Least
  <2>5. v0' \in Nat /\ v1' \in Nat
    BY <2>1, <2>2, <2>4, SwapTypes
  <2> HIDE DEF p
  <2>6. canon' \in [reason : Reasons, sees : {"none", "current", "other"}]
    BY <1>0, <1>3, CanonTypes DEF FinalizeProgressiveRebalance, MintAndUnlock
  <2>7. TypeOK'
    BY <1>0, <1>3, <2>5, <2>6
       DEF FinalizeProgressiveRebalance, MintAndUnlock, ClearCycle, TypeOK
  <2>8. LockHeldForCycle'
    BY <1>0, <1>3 DEF FinalizeProgressiveRebalance, MintAndUnlock, ClearCycle, LockHeldForCycle
  <2> QED BY <1>3, <2>7, <2>8 DEF FinalizeProgressiveRebalance, ClearCycle, IInv
<1>4. CASE RefreshProgressiveRebalance
  <2>1. PICK r \in Ratios : ratio' = r /\ SetPlan(Plan(v0', v1', r))
    BY <1>4 DEF RefreshProgressiveRebalance
  <2>2. v0' \in Nat /\ v1' \in Nat /\ moves' \in 0 .. MaxMoves /\ r \in 0 .. Scale
    BY <1>0, <1>4, <2>1 DEF RefreshProgressiveRebalance, Retarget, TakeOver, TypeOK
  <2>3. /\ swapBudget' \in Nat /\ reverseBudget' \in Nat
        /\ initialDir' \in BOOLEAN /\ planCurrent' = TRUE
    BY <2>1, <2>2, SetPlanTypes
  <2>4. /\ cycleBudget' \in Nat /\ granted' \in Nat /\ turnover' \in Nat
        /\ turnover' + cycleBudget' = granted'
    BY <1>0, <1>4, <2>2 DEF RefreshProgressiveRebalance, RefreshBudget, TypeOK, histVars
  <2>5. LockHeldForCycle'
    BY <1>0, <1>4 DEF RefreshProgressiveRebalance, Retarget, TakeOver, LockHeldForCycle
  <2>6. TypeOK'
    <3>1. safeLock' \in BOOLEAN
      BY <1>0, <1>4 DEF RefreshProgressiveRebalance, Retarget, TakeOver, TypeOK
    <3> QED BY <1>0, <1>4, <2>1, <2>2, <2>3, <2>4, <3>1
            DEF RefreshProgressiveRebalance, TypeOK, engineVars
  <2> QED BY <2>4, <2>5, <2>6 DEF IInv
<1>5. CASE CancelProgressiveRebalance
  <2>1. PICK r \in Ratios :
          /\ ratio' = r
          /\ \/ /\ SetPlan(Plan(v0, v1, r)) /\ Renew
                /\ UNCHANGED <<active, vaultVars>>
             \/ position' = TRUE /\ locked' = FALSE /\ ClearCycle /\ UNCHANGED safeLock
    BY <1>5 DEF CancelProgressiveRebalance
  <2>2. v0 \in Nat /\ v1 \in Nat /\ r \in 0 .. Scale
    BY <1>0 DEF TypeOK
  <2>3. /\ canon' \in [reason : Reasons, sees : {"none", "current", "other"}]
        /\ age' \in Ages /\ market' \in Markets
    BY <1>0, <1>5 DEF CancelProgressiveRebalance, TypeOK, Reasons, Ages, Markets
  <2>4. /\ v0' = v0 /\ v1' = v1 /\ exitOnly' = exitOnly
        /\ moves' \in 0 .. MaxMoves
    BY <1>0, <1>5 DEF CancelProgressiveRebalance, TypeOK
  <2>5. CASE SetPlan(Plan(v0, v1, r)) /\ Renew /\ UNCHANGED <<active, vaultVars>>
    <3>1. /\ swapBudget' \in Nat /\ reverseBudget' \in Nat
          /\ initialDir' \in BOOLEAN /\ planCurrent' = TRUE
      BY <2>2, <2>5, SetPlanTypes
    <3>2. TypeOK'
      BY <1>0, <2>1, <2>2, <2>3, <2>4, <2>5, <3>1 DEF TypeOK, Renew, vaultVars
    <3>3. LockHeldForCycle'
      BY <1>0, <2>5 DEF LockHeldForCycle, vaultVars
    <3>4. (turnover + cycleBudget = granted)'
      BY <2>2, <2>5 DEF Renew
    <3> QED BY <3>2, <3>3, <3>4 DEF IInv
  <2>6. CASE position' = TRUE /\ locked' = FALSE /\ ClearCycle /\ UNCHANGED safeLock
    <3>1. TypeOK'
      BY <1>0, <2>1, <2>2, <2>3, <2>4, <2>6 DEF TypeOK, ClearCycle
    <3>2. LockHeldForCycle'
      BY <1>0, <1>5, <2>6 DEF CancelProgressiveRebalance, LockHeldForCycle, ClearCycle
    <3> QED BY <2>6, <3>1, <3>2 DEF IInv, ClearCycle
  <2> QED BY <2>1, <2>5, <2>6
<1>6. CASE CancelInExitOnly
  <2>1. TypeOK'
    BY <1>0, <1>6 DEF CancelInExitOnly, ClearCycle, TypeOK, engineVars, marketVars
  <2>2. LockHeldForCycle'
    BY <1>0, <1>6 DEF CancelInExitOnly, ClearCycle, LockHeldForCycle
  <2> QED BY <1>6, <2>1, <2>2 DEF CancelInExitOnly, ClearCycle, IInv
<1>7. CASE EndRebalance
  <2>1. TypeOK'
    BY <1>0, <1>7 DEF EndRebalance, TypeOK, cycleVars, engineVars, marketVars, histVars
  <2>2. LockHeldForCycle'
    BY <1>0, <1>7 DEF EndRebalance, MayUnlock, LockHeldForCycle, cycleVars
  <2> QED BY <1>0, <1>7, <2>1, <2>2 DEF EndRebalance, IInv, cycleVars, histVars
<1>8. CASE Rebalance
  <2>1. canon' \in [reason : Reasons, sees : {"none", "current", "other"}]
    BY <1>0, <1>8, CanonTypes DEF Rebalance
  <2>2. TypeOK'
    BY <1>0, <1>8, <2>1 DEF Rebalance, TypeOK, cycleVars, vaultVars, histVars
  <2>3. LockHeldForCycle'
    BY <1>0, <1>8 DEF Rebalance, LockHeldForCycle, cycleVars, vaultVars
  <2> QED BY <1>0, <1>8, <2>2, <2>3 DEF Rebalance, IInv, cycleVars, histVars
<1>9. CASE MintInitialPosition
  <2>1. canon' \in [reason : Reasons, sees : {"none", "current", "other"}]
    BY <1>0, <1>9, CanonTypes DEF MintInitialPosition
  <2>2. TypeOK'
    BY <1>0, <1>9, <2>1 DEF MintInitialPosition, TypeOK, cycleVars, marketVars, histVars
  <2>3. LockHeldForCycle'
    BY <1>0, <1>9 DEF MintInitialPosition, LockHeldForCycle, cycleVars
  <2> QED BY <1>0, <1>9, <2>2, <2>3 DEF MintInitialPosition, IInv, cycleVars, histVars
<1>10. CASE ClosePosition
  <2>1. TypeOK'
    BY <1>0, <1>10 DEF ClosePosition, TypeOK, cycleVars, engineVars, histVars
  <2>2. LockHeldForCycle'
    BY <1>0, <1>10 DEF ClosePosition, LockHeldForCycle, cycleVars
  <2> QED BY <1>0, <1>10, <2>1, <2>2 DEF ClosePosition, IInv, cycleVars, histVars
<1>11. CASE CheckpointMarketState
  <2>1. canon' \in [reason : Reasons, sees : {"none", "current", "other"}]
    BY <1>0, <1>11, CanonTypes DEF CheckpointMarketState
  <2>2. TypeOK'
    BY <1>0, <1>11, <2>1 DEF CheckpointMarketState, TypeOK, Ages, Markets, vaultVars, histVars
  <2>3. LockHeldForCycle'
    BY <1>0, <1>11 DEF CheckpointMarketState, LockHeldForCycle, vaultVars
  <2> QED BY <1>0, <1>11, <2>2, <2>3 DEF CheckpointMarketState, IInv, histVars
<1>12. CASE Tick \/ MarketGuard
  <2>1. TypeOK'
    BY <1>0, <1>12 DEF Tick, MarketGuard, TypeOK, Ages, cycleVars, vaultVars, engineVars,
                      marketVars, histVars
  <2>2. LockHeldForCycle'
    BY <1>0, <1>12 DEF Tick, MarketGuard, LockHeldForCycle, cycleVars, vaultVars
  <2> QED BY <1>0, <1>12, <2>1, <2>2 DEF Tick, MarketGuard, IInv, cycleVars, histVars
<1>13. CASE PriceMove
  <2>1. TypeOK'
    BY <1>0, <1>13 DEF PriceMove, TypeOK, cycleVars, vaultVars, engineVars, histVars
  <2>2. LockHeldForCycle'
    BY <1>0, <1>13 DEF PriceMove, LockHeldForCycle, cycleVars, vaultVars
  <2> QED BY <1>0, <1>13, <2>1, <2>2 DEF PriceMove, IInv, cycleVars, histVars
<1>14. CASE EmergencyRecoverUser
  <2>1. v0 \in Nat /\ v1 \in Nat
    BY <1>0 DEF TypeOK
  <2>2. PICK n \in {1, 2} : v0' = v0 - (v0 * n) \div 2 /\ v1' = v1 - (v1 * n) \div 2
    BY <1>14 DEF EmergencyRecoverUser
  <2>3. v0' \in Nat /\ v1' \in Nat
    <3>1. CASE n = 1
      BY <2>1, <2>2, <3>1
    <3>2. CASE n = 2
      BY <2>1, <2>2, <3>2
    <3> QED BY <3>1, <3>2
  <2>4. TypeOK'
    BY <1>0, <1>14, <2>3 DEF EmergencyRecoverUser, TypeOK, cycleVars, vaultVars, engineVars,
                             histVars
  <2>5. LockHeldForCycle'
    BY <1>0, <1>14 DEF EmergencyRecoverUser, LockHeldForCycle, cycleVars, vaultVars
  <2> QED BY <1>0, <1>14, <2>4, <2>5 DEF EmergencyRecoverUser, IInv, cycleVars, histVars
<1>15. CASE ActivateExitOnly
  <2>1. TypeOK'
    BY <1>0, <1>15 DEF ActivateExitOnly, TypeOK, cycleVars, vaultVars, engineVars, marketVars,
                       histVars
  <2>2. LockHeldForCycle'
    BY <1>0, <1>15 DEF ActivateExitOnly, LockHeldForCycle, cycleVars, vaultVars
  <2> QED BY <1>0, <1>15, <2>1, <2>2 DEF ActivateExitOnly, IInv, cycleVars, histVars
<1>16. CASE StartRebalance
  <2>1. TypeOK'
    BY <1>0, <1>16 DEF StartRebalance, TypeOK, cycleVars, engineVars, marketVars, histVars
  <2>2. LockHeldForCycle'
    BY <1>0, <1>16 DEF StartRebalance, LockHeldForCycle, cycleVars
  <2> QED BY <1>0, <1>16, <2>1, <2>2 DEF StartRebalance, IInv, cycleVars, histVars
<1>17. CASE UNCHANGED vars
  <2>1. TypeOK'
    BY <1>0, <1>17 DEF vars, TypeOK, cycleVars, vaultVars, engineVars, marketVars, histVars
  <2>2. LockHeldForCycle'
    BY <1>0, <1>17 DEF vars, LockHeldForCycle, cycleVars, vaultVars
  <2> QED BY <1>0, <1>17, <2>1, <2>2 DEF vars, IInv, cycleVars, histVars
<1> QED
  BY <1>1, <1>2, <1>3, <1>4, <1>5, <1>6, <1>7, <1>8, <1>9, <1>10, <1>11, <1>12, <1>13, <1>14,
     <1>15, <1>16, <1>17 DEF Next, Keepers, Safe, Environment

(* The types, the lock and the account of the turnover cap hold forever.     *)
THEOREM InductiveInvariant == Spec => []IInv
<1>1. Init => IInv
  BY InitIInv
<1>2. IInv /\ [Next]_vars => IInv'
  BY NextIInv
<1> QED BY <1>1, <1>2, PTL DEF Spec

(* A cycle has the vault locked from burn to mint, and no lock is without a   *)
(* cycle but one the Safe took.                                              *)
THEOREM LockFollowsCycle == Spec => []LockHeldForCycle
<1>1. IInv => LockHeldForCycle
  BY DEF IInv
<1> QED BY <1>1, InductiveInvariant, PTL

(* No run of epochs, retargets and reversals swaps more than was granted.    *)
THEOREM TurnoverBounded == Spec => []TurnoverCapped
<1>1. IInv => TurnoverCapped
  BY DEF IInv, TypeOK, TurnoverCapped
<1> QED BY <1>1, InductiveInvariant, PTL
-----------------------------------------------------------------------------
(* The direction of the swaps.  A share is rounded down, by less than one     *)
(* unit of its scale.                                                        *)
LEMMA ShareBounds ==
    ASSUME NEW a \in Nat, NEW b \in Nat, a + b # 0
    PROVE  /\ Share(a, b) \in Nat
           /\ Share(a, b) * (a + b) <= a * Scale
           /\ a * Scale < (Share(a, b) + 1) * (a + b)
<1>1. a * Scale \in Nat /\ a + b \in Nat \ {0}
  BY Product, ConstantsAssumption DEF ConstantsAssumption
<1> DEFINE p == a * Scale
           q == a + b
           s == p \div q
<1>2. s = Share(a, b)
  BY DEF Share
<1>3. p \in Nat /\ q \in Nat \ {0}
  BY <1>1
<1> HIDE DEF p, q
<1>4. s \in Nat /\ s * q <= p /\ p < s * q + q
  BY <1>3, Quotient, QuotientBounds
<1> HIDE DEF s
<1>5. s * q + q = (s + 1) * q
  BY <1>3, <1>4
<1> QED BY <1>2, <1>4, <1>5 DEF p, q

(* What a plan asks for, and what it leaves out for want of a need.           *)
LEMMA PlanCases ==
    ASSUME NEW a \in Nat, NEW b \in Nat, a + b # 0, NEW r \in 0 .. Scale
    PROVE  /\ Plan(a, b, r).amount > 0 /\ Plan(a, b, r).zeroForOne =>
                /\ Share(a, b) > r
                /\ Plan(a, b, r).amount * Scale <= (Share(a, b) - r) * (a + b)
           /\ Plan(a, b, r).amount > 0 /\ ~Plan(a, b, r).zeroForOne =>
                /\ Share(a, b) < r
                /\ Plan(a, b, r).amount * Scale <= (r - Share(a, b)) * (a + b)
<1> DEFINE s == Share(a, b)
           t == a + b
<1>1. r \in Nat /\ Scale \in Nat \ {0} /\ RatioTol \in Nat
  BY ConstantsAssumption DEF ConstantsAssumption
<1>2. s \in Nat /\ t \in Nat
  BY ShareBounds
<1>3. Plan(a, b, r) = IF s > r + RatioTol
                      THEN [zeroForOne |-> TRUE, amount |-> Least(((s - r) * t) \div Scale, a)]
                      ELSE IF s + RatioTol < r
                      THEN [zeroForOne |-> FALSE, amount |-> Least(((r - s) * t) \div Scale, b)]
                      ELSE [zeroForOne |-> FALSE, amount |-> 0]
  BY DEF Plan, Excess, Deficit
<1> HIDE DEF s, t
<1>4. ASSUME NEW d \in Nat, NEW m \in Nat
      PROVE  /\ Least((d * t) \div Scale, m) \in Nat
             /\ Least((d * t) \div Scale, m) * Scale <= d * t
  <2> DEFINE x == (d * t) \div Scale
  <2>1. d * t \in Nat
    BY <1>2, Product
  <2>2. x \in Nat /\ x * Scale <= d * t
    BY <1>1, <2>1, Quotient, QuotientBounds
  <2> HIDE DEF x
  <2>3. Least(x, m) \in Nat /\ Least(x, m) <= x
    BY <2>2 DEF Least
  <2>4. Least(x, m) * Scale <= x * Scale
    BY <1>1, <2>2, <2>3
  <2>5. Least(x, m) * Scale <= d * t
    BY <1>1, <2>1, <2>2, <2>3, <2>4
  <2> QED BY <2>3, <2>5 DEF x
<1>5. CASE s > r + RatioTol
  <2>1. s - r \in Nat /\ s > r
    BY <1>1, <1>2, <1>5
  <2>2. Plan(a, b, r) = [zeroForOne |-> TRUE, amount |-> Least(((s - r) * t) \div Scale, a)]
    BY <1>3, <1>5
  <2>3. Plan(a, b, r).zeroForOne /\ Plan(a, b, r).amount * Scale <= (s - r) * t
    BY <1>4, <2>1, <2>2
  <2> QED BY <2>1, <2>3 DEF s, t
<1>6. CASE ~(s > r + RatioTol) /\ s + RatioTol < r
  <2>1. r - s \in Nat /\ s < r
    BY <1>1, <1>2, <1>6
  <2>2. Plan(a, b, r) = [zeroForOne |-> FALSE, amount |-> Least(((r - s) * t) \div Scale, b)]
    BY <1>3, <1>6
  <2>3. ~Plan(a, b, r).zeroForOne /\ Plan(a, b, r).amount * Scale <= (r - s) * t
    BY <1>4, <2>1, <2>2
  <2> QED BY <2>1, <2>3 DEF s, t
<1>7. CASE ~(s > r + RatioTol) /\ ~(s + RatioTol < r)
  BY <1>3, <1>7
<1> QED BY <1>5, <1>6, <1>7

(* A plan of nothing sells nothing.                                          *)
LEMMA EmptyPlan ==
    ASSUME NEW a \in Nat, NEW b \in Nat, NEW r, a + b = 0
    PROVE  Plan(a, b, r).amount = 0
BY DEF Plan

(* Selling token0, as much as planned or less and at any loss, leaves at      *)
(* least the share of it that the range asks for.                            *)
LEMMA SaleStays ==
    ASSUME NEW a \in Nat, NEW b \in Nat, NEW r \in 0 .. Scale,
           NEW x \in Nat, x > 0, x <= Plan(a, b, r).amount, Plan(a, b, r).zeroForOne,
           NEW loss \in Nat, loss <= x,
           Plan(a - x, b + x - loss, r).amount > 0
    PROVE  Plan(a - x, b + x - loss, r).zeroForOne
<1>1. r \in Nat /\ Scale \in Nat \ {0}
  BY ConstantsAssumption DEF ConstantsAssumption
<1>2. Plan(a, b, r).amount \in Nat /\ Plan(a, b, r).amount <= a
  BY PlanBounded
<1>3. x <= a /\ a - x \in Nat /\ b + x - loss \in Nat
  BY <1>2
<1> DEFINE y == Plan(a, b, r).amount
           s == Share(a, b)
           t == a + b
           c == a - x
           d == b + x - loss
           u == Share(c, d)
           q == Plan(c, d, r)
<1>4. t # 0 /\ t \in Nat /\ c + d <= t /\ c + d \in Nat
  BY <1>3
<1>5. c + d # 0 /\ c \in Nat /\ d \in Nat
  BY <1>3, EmptyPlan
<1>6. s \in Nat /\ s * t <= a * Scale
  BY <1>4, ShareBounds
<1>7. s > r /\ y * Scale <= (s - r) * t
  BY <1>2, <1>4, PlanCases
<1>8. u \in Nat /\ c * Scale < (u + 1) * (c + d)
  BY <1>5, ShareBounds
<1>9. SUFFICES ASSUME ~q.zeroForOne PROVE FALSE
  BY PlanBounded, <1>5
<1>10. u < r
  BY <1>5, <1>9, PlanCases
<1>11. x <= y /\ y \in Nat
  BY <1>2
<1> HIDE DEF y, s, t, u, q
<1>12. (s - r) * t = s * t - r * t
  BY <1>1, <1>4, <1>6
<1>13. c * Scale = a * Scale - x * Scale
  BY <1>1, <1>3
<1>14. x * Scale <= y * Scale
  BY <1>1, <1>11
<1>15. s * t \in Nat /\ r * t \in Nat /\ a * Scale \in Nat /\ x * Scale \in Nat /\ y * Scale \in Nat
  BY <1>1, <1>4, <1>6, <1>11, Product
<1>16. r * t <= c * Scale
  BY ONLY <1>6, <1>7, <1>12, <1>13, <1>14, <1>15
<1> HIDE DEF c, d
<1>17. r * (c + d) <= r * t
  BY ONLY <1>1, <1>4
<1>18. (u + 1) * (c + d) <= r * (c + d)
  BY ONLY <1>1, <1>4, <1>8, <1>10
<1>19. /\ (u + 1) * (c + d) \in Nat /\ r * (c + d) \in Nat /\ c * Scale \in Nat
  BY ONLY <1>1, <1>4, <1>5, <1>8, Product
<1> QED BY ONLY <1>8, <1>15, <1>16, <1>17, <1>18, <1>19

(* Buying token0 leaves at most the share of it that the range asks for.      *)
LEMMA PurchaseStays ==
    ASSUME NEW a \in Nat, NEW b \in Nat, NEW r \in 0 .. Scale,
           NEW x \in Nat, x > 0, x <= Plan(a, b, r).amount, ~Plan(a, b, r).zeroForOne,
           NEW loss \in Nat, loss <= x,
           Plan(a + x - loss, b - x, r).amount > 0
    PROVE  ~Plan(a + x - loss, b - x, r).zeroForOne
<1>1. r \in Nat /\ Scale \in Nat \ {0} /\ r <= Scale
  BY ConstantsAssumption DEF ConstantsAssumption
<1>2. Plan(a, b, r).amount \in Nat /\ Plan(a, b, r).amount <= b
  BY PlanBounded
<1>3. x <= b /\ b - x \in Nat /\ a + x - loss \in Nat
  BY <1>2
<1> DEFINE y == Plan(a, b, r).amount
           s == Share(a, b)
           t == a + b
           c == a + x - loss
           d == b - x
           u == Share(c, d)
           q == Plan(c, d, r)
<1>4. t # 0 /\ t \in Nat /\ c + d = t - loss /\ c + d \in Nat
  BY <1>3
<1>5. c + d # 0 /\ c \in Nat /\ d \in Nat
  BY <1>3, EmptyPlan
<1>6. s \in Nat /\ a * Scale < (s + 1) * t
  BY <1>4, ShareBounds
<1>7. s < r /\ y * Scale <= (r - s) * t
  BY <1>2, <1>4, PlanCases
<1>8. u \in Nat /\ u * (c + d) <= c * Scale
  BY <1>5, ShareBounds
<1>9. SUFFICES ASSUME q.zeroForOne PROVE FALSE
  OBVIOUS
<1>10. u > r
  BY <1>5, <1>9, PlanCases
<1>11. x <= y /\ y \in Nat
  BY <1>2
<1> HIDE DEF y, s, t, u, q
<1>12. (r + 1) * (c + d) <= u * (c + d)
  BY ONLY <1>1, <1>4, <1>8, <1>10
<1>13. CASE r = Scale
  <2>1. c * Scale <= (c + d) * Scale
    BY <1>1, <1>5
  <2>2. (r + 1) * (c + d) = (c + d) * Scale + (c + d)
    BY <1>1, <1>4, <1>13
  <2>3. /\ u * (c + d) \in Nat /\ (c + d) * Scale \in Nat /\ c * Scale \in Nat
    BY <1>1, <1>4, <1>5, <1>8, Product
  <2> HIDE DEF c, d
  <2> QED BY ONLY <1>4, <1>5, <1>8, <1>12, <2>1, <2>2, <2>3
<1>14. CASE r # Scale
  <2>1. r + 1 <= Scale
    BY <1>1, <1>14
  <2>2. c * Scale = a * Scale + x * Scale - loss * Scale
    BY <1>1
  <2>3. x * Scale <= y * Scale
    BY <1>1, <1>11
  <2>4. (s + 1) * t + (r - s) * t = (r + 1) * t
    BY <1>1, <1>4, <1>6
  <2>5. (r + 1) * (c + d) = (r + 1) * t - (r + 1) * loss
    BY ONLY <1>1, <1>4, loss \in Nat
  <2>6. (r + 1) * loss <= loss * Scale
    BY <1>1, <2>1
  <2>7. /\ a * Scale \in Nat /\ x * Scale \in Nat /\ y * Scale \in Nat /\ loss * Scale \in Nat
        /\ (s + 1) * t \in Nat /\ (r - s) * t \in Int /\ (r + 1) * t \in Nat
        /\ (r + 1) * loss \in Nat /\ u * (c + d) \in Nat
    BY <1>1, <1>4, <1>6, <1>8, <1>11, Product
  <2>8. c * Scale < (r + 1) * t - loss * Scale
    BY ONLY <1>6, <1>7, <2>2, <2>3, <2>4, <2>7
  <2> HIDE DEF c, d
  <2>9. c * Scale \in Nat
    BY <1>1, <1>5, Product
  <2> QED BY ONLY <1>8, <1>12, <2>5, <2>6, <2>7, <2>8, <2>9
<1> QED BY <1>13, <1>14

(* A swap the module accepts never makes the opposite swap necessary, although*)
(* the ratios are rounded and every swap loses some of what it moves.         *)
THEOREM DirectionKept == Spec => NoSwapBack
<1>1. IInv /\ [Next]_vars =>
        [ContinueProgressiveRebalance =>
            LET p == Plan(v0, v1, ratio)
                q == Plan(v0', v1', ratio')
            IN  q.amount > 0 => q.zeroForOne = p.zeroForOne]_vars
  <2> DEFINE p == Plan(v0, v1, ratio)
             q == Plan(v0', v1', ratio')
  <2> SUFFICES ASSUME IInv, ContinueProgressiveRebalance, q.amount > 0
               PROVE  q.zeroForOne = p.zeroForOne
    OBVIOUS
  <2>1. v0 \in Nat /\ v1 \in Nat /\ ratio \in 0 .. Scale /\ ratio' = ratio
    BY DEF IInv, TypeOK, ContinueProgressiveRebalance
  <2>2. p.amount \in Nat /\ p.zeroForOne \in BOOLEAN
    BY <2>1, PlanBounded
  <2>3. PICK x \in 1 .. p.amount : Swap(p, x)
    BY DEF ContinueProgressiveRebalance
  <2>4. MaxLoss \in Nat
    BY ConstantsAssumption DEF ConstantsAssumption
  <2>5. PICK loss \in 0 .. Least(MaxLoss, x) :
          /\ v0' = IF p.zeroForOne THEN v0 - x ELSE v0 + x - loss
          /\ v1' = IF p.zeroForOne THEN v1 + x - loss ELSE v1 - x
    BY <2>3 DEF Swap
  <2>6. x \in Nat /\ x > 0 /\ x <= p.amount
    <3> HIDE DEF p
    <3> QED BY <2>2, <2>3
  <2>7. loss \in Nat /\ loss <= x
    BY <2>4, <2>5, <2>6 DEF Least
  <2>8. v0' \in Nat /\ v1' \in Nat
    BY <2>1, <2>3, <2>6, SwapTypes
  <2>9. CASE p.zeroForOne
    <3>1. v0' = v0 - x /\ v1' = v1 + x - loss
      BY <2>5, <2>9
    <3>2. q = Plan(v0 - x, v1 + x - loss, ratio)
      BY <2>1, <3>1
    <3> QED BY <2>1, <2>6, <2>7, <2>8, <2>9, <3>1, <3>2, SaleStays, PlanBounded
  <2>10. CASE ~p.zeroForOne
    <3>1. v0' = v0 + x - loss /\ v1' = v1 - x
      BY <2>5, <2>10
    <3>2. q = Plan(v0 + x - loss, v1 - x, ratio)
      BY <2>1, <3>1
    <3>3. q.zeroForOne \in BOOLEAN
      BY <2>1, <2>8, PlanBounded
    <3>4. ~q.zeroForOne
      BY <2>1, <2>6, <2>7, <2>10, <3>2, PurchaseStays
    <3> QED BY <2>2, <2>10, <3>3, <3>4
  <2> QED BY <2>9, <2>10
<1> QED BY <1>1, InductiveInvariant, PTL DEF Spec, NoSwapBack
-----------------------------------------------------------------------------
(* What is left to swap.  A plan asks for what the range needs, but for less  *)
(* than a unit, or for all there is to sell.                                 *)
LEMMA PlanExact ==
    ASSUME NEW a \in Nat, NEW b \in Nat, a + b # 0, NEW r \in 0 .. Scale,
           Plan(a, b, r).amount > 0
    PROVE  /\ Plan(a, b, r).zeroForOne =>
                \/ Plan(a, b, r).amount = a
                \/ (Share(a, b) - r) * (a + b) < Plan(a, b, r).amount * Scale + Scale
           /\ ~Plan(a, b, r).zeroForOne =>
                \/ Plan(a, b, r).amount = b
                \/ (r - Share(a, b)) * (a + b) < Plan(a, b, r).amount * Scale + Scale
<1> DEFINE s == Share(a, b)
           t == a + b
<1>1. r \in Nat /\ Scale \in Nat \ {0} /\ RatioTol \in Nat
  BY ConstantsAssumption DEF ConstantsAssumption
<1>2. s \in Nat /\ t \in Nat
  BY ShareBounds
<1>3. Plan(a, b, r) = IF s > r + RatioTol
                      THEN [zeroForOne |-> TRUE, amount |-> Least(((s - r) * t) \div Scale, a)]
                      ELSE IF s + RatioTol < r
                      THEN [zeroForOne |-> FALSE, amount |-> Least(((r - s) * t) \div Scale, b)]
                      ELSE [zeroForOne |-> FALSE, amount |-> 0]
  BY DEF Plan, Excess, Deficit
<1> HIDE DEF s, t
<1>4. ASSUME NEW d \in Nat, NEW m \in Nat
      PROVE  \/ Least((d * t) \div Scale, m) = m
             \/ d * t < Least((d * t) \div Scale, m) * Scale + Scale
  <2> DEFINE x == (d * t) \div Scale
  <2>1. d * t \in Nat
    BY <1>2, Product
  <2>2. x \in Nat /\ d * t < x * Scale + Scale
    BY <1>1, <2>1, Quotient, QuotientBounds
  <2> HIDE DEF x
  <2>3. Least(x, m) = m \/ Least(x, m) = x
    BY DEF Least
  <2> QED BY <2>2, <2>3 DEF x
<1>5. CASE s > r + RatioTol
  <2>1. s - r \in Nat
    BY <1>1, <1>2, <1>5
  <2>2. Plan(a, b, r) = [zeroForOne |-> TRUE, amount |-> Least(((s - r) * t) \div Scale, a)]
    BY <1>3, <1>5
  <2>3. Plan(a, b, r).zeroForOne
    BY <2>2
  <2>4. Plan(a, b, r).amount = a \/ (s - r) * t < Plan(a, b, r).amount * Scale + Scale
    BY <1>4, <2>1, <2>2
  <2> QED BY <2>3, <2>4 DEF s, t
<1>6. CASE ~(s > r + RatioTol) /\ s + RatioTol < r
  <2>1. r - s \in Nat
    BY <1>1, <1>2, <1>6
  <2>2. Plan(a, b, r) = [zeroForOne |-> FALSE, amount |-> Least(((r - s) * t) \div Scale, b)]
    BY <1>3, <1>6
  <2>3. ~Plan(a, b, r).zeroForOne
    BY <2>2
  <2>4. Plan(a, b, r).amount = b \/ (r - s) * t < Plan(a, b, r).amount * Scale + Scale
    BY <1>4, <2>1, <2>2
  <2> QED BY <2>3, <2>4 DEF s, t
<1>7. CASE ~(s > r + RatioTol) /\ ~(s + RatioTol < r)
  BY <1>3, <1>7
<1> QED BY <1>5, <1>6, <1>7

(* A larger plan tolerates no less.                                          *)
LEMMA ToleranceGrows ==
    ASSUME NEW a \in Nat, NEW b \in Nat, a <= b
    PROVE  Tolerance(a) \in Nat \ {0} /\ Tolerance(b) \in Nat \ {0} /\ Tolerance(a) <= Tolerance(b)
<1> DEFINE x == a * TolBps
           y == b * TolBps
<1>1. TolBps \in Nat
  BY ConstantsAssumption DEF ConstantsAssumption
<1>2. x \in Nat /\ y \in Nat /\ x <= y
  BY <1>1, Product, Monotone
<1>3. Tolerance(a) = Greatest(x \div 10000, 1) /\ Tolerance(b) = Greatest(y \div 10000, 1)
  BY DEF Tolerance
<1> HIDE DEF x, y
<1>4. x \div 10000 \in Nat /\ y \div 10000 \in Nat /\ x \div 10000 <= y \div 10000
  BY <1>2
<1> QED BY <1>3, <1>4 DEF Greatest

(* What is within the tolerance fits, with what else a misfit may be.         *)
LEMMA FitsWithin ==
    ASSUME NEW a \in Nat, NEW b \in Nat, NEW r \in 0 .. Scale,
           Plan(a, b, r).amount <= Tolerance(a + b + MaxLoss)
    PROVE  Fits(a, b, r)
<1> DEFINE p == Plan(a, b, r)
           t == a + b + MaxLoss
           tol == Tolerance(t)
           bought == IF p.zeroForOne THEN r ELSE Scale - r
<1>1. r \in Nat /\ Scale \in Nat \ {0} /\ MaxLoss \in Nat /\ Scale - r \in Nat
  BY ConstantsAssumption DEF ConstantsAssumption
<1>2. p.amount \in Nat
  BY PlanBounded
<1>3. t \in Nat /\ tol \in Nat
  BY <1>1, ToleranceGrows
<1>4. bought \in Nat
  BY <1>1
<1>5. SUFFICES p.amount * Scale < (tol + 1) * Scale + t + bought * MaxLoss
  BY DEF Fits
<1>6. p.amount <= tol
  OBVIOUS
<1> HIDE DEF p, t, tol, bought
<1>7. p.amount * Scale <= tol * Scale
  BY <1>1, <1>2, <1>3, <1>6, Monotone
<1>8. (tol + 1) * Scale = tol * Scale + Scale
  BY <1>1, <1>3
<1>9. /\ p.amount * Scale \in Nat /\ tol * Scale \in Nat /\ bought * MaxLoss \in Nat
  BY <1>1, <1>2, <1>3, <1>4, Product
<1> QED BY <1>1, <1>3, <1>7, <1>8, <1>9

(* After a last swap of token0 within the tolerance of the plan, what is left *)
(* of the plan fits.                                                         *)
LEMMA SaleFits ==
    ASSUME NEW a \in Nat, NEW b \in Nat, NEW r \in 0 .. Scale,
           NEW x \in Nat, x > 0, x <= Plan(a, b, r).amount, Plan(a, b, r).zeroForOne,
           Plan(a, b, r).amount <= x + Tolerance(Plan(a, b, r).amount),
           NEW loss \in Nat, loss <= x, loss <= MaxLoss
    PROVE  Fits(a - x, b + x - loss, r)
<1>1. r \in Nat /\ Scale \in Nat \ {0} /\ MaxLoss \in Nat
  BY ConstantsAssumption DEF ConstantsAssumption
<1>2. Plan(a, b, r).amount \in Nat /\ Plan(a, b, r).amount <= a
  BY PlanBounded
<1>3. x <= a /\ a - x \in Nat /\ b + x - loss \in Nat
  BY <1>2
<1> DEFINE y == Plan(a, b, r).amount
           s == Share(a, b)
           t == a + b
           c == a - x
           d == b + x - loss
           u == Share(c, d)
           q == Plan(c, d, r)
           z == q.amount
           e == c + d + MaxLoss
           tol == Tolerance(e)
<1>4. t # 0 /\ t \in Nat /\ c + d = t - loss /\ c + d \in Nat /\ c \in Nat /\ d \in Nat
  BY <1>3
<1>5. y \in Nat /\ e \in Nat /\ y <= e /\ t <= e
  BY <1>1, <1>2, <1>4
<1>6. Tolerance(y) \in Nat /\ tol \in Nat /\ Tolerance(y) <= tol
  BY <1>5, ToleranceGrows
<1>7. z \in Nat /\ (z > 0 /\ q.zeroForOne => z <= c)
  BY <1>4, PlanBounded
<1>8. y <= x + Tolerance(y)
  OBVIOUS
<1>9. CASE z = 0 \/ y = a
  <2>1. z > 0 => q.zeroForOne
    BY SaleStays
  <2> HIDE DEF y, q
  <2>2. z <= tol
    BY <1>3, <1>6, <1>7, <1>8, <1>9, <2>1
  <2> QED BY <1>4, <2>2, FitsWithin DEF q
<1>10. CASE z > 0 /\ y # a
  <2>1. q.zeroForOne
    BY <1>10, SaleStays
  <2>2. c + d # 0
    BY <1>4, <1>10, EmptyPlan
  <2>3. s \in Nat /\ a * Scale < (s + 1) * t
    BY <1>4, ShareBounds
  <2>4. (s - r) * t < y * Scale + Scale
    BY <1>2, <1>4, <1>10, PlanExact
  <2>5. u \in Nat /\ u * (c + d) <= c * Scale
    BY <1>4, <2>2, ShareBounds
  <2>6. z * Scale <= (u - r) * (c + d)
    BY <1>4, <1>10, <2>1, <2>2, PlanCases
  <2>7. SUFFICES z * Scale < (tol + 1) * Scale + e + r * MaxLoss
    BY <2>1 DEF Fits
  <2>8. x \in Nat /\ x <= y /\ y \in Nat
    BY <1>2
  <2> HIDE DEF y, s, t, u, q, z, tol
  <2>9. (u - r) * (c + d) = u * (c + d) - r * (c + d)
    BY ONLY <1>1, <1>4, <2>5
  <2>10. r * (c + d) = r * t - r * loss
    BY ONLY <1>1, <1>4, loss \in Nat
  <2>11. c * Scale = a * Scale - x * Scale
    BY ONLY <1>1, a \in Nat, x \in Nat
  <2>12. (s + 1) * t = s * t + t /\ (s - r) * t = s * t - r * t
    BY ONLY <1>1, <1>4, <2>3
  <2>13. y * Scale <= x * Scale + Tolerance(y) * Scale
    <3>1. y * Scale <= (x + Tolerance(y)) * Scale
      BY <1>1, <1>6, <1>8, <2>8, Monotone
    <3>2. (x + Tolerance(y)) * Scale = x * Scale + Tolerance(y) * Scale
      BY <1>1, <1>6, <2>8
    <3> QED BY <3>1, <3>2
  <2>14. Tolerance(y) * Scale <= tol * Scale
    BY <1>1, <1>6, Monotone
  <2>15. r * loss <= r * MaxLoss
    <3>1. loss * r <= MaxLoss * r
      BY <1>1, Monotone
    <3>2. loss * r = r * loss /\ MaxLoss * r = r * MaxLoss
      BY <1>1
    <3> QED BY <3>1, <3>2
  <2>16. (tol + 1) * Scale = tol * Scale + Scale
    BY <1>1, <1>6
  <2>17. /\ u * (c + d) \in Nat /\ r * (c + d) \in Nat /\ r * t \in Nat /\ r * loss \in Nat
         /\ a * Scale \in Nat /\ x * Scale \in Nat /\ s * t \in Nat /\ y * Scale \in Nat
         /\ Tolerance(y) * Scale \in Nat /\ tol * Scale \in Nat /\ r * MaxLoss \in Nat
         /\ z * Scale \in Nat
    BY <1>1, <1>4, <1>6, <1>7, <2>3, <2>5, <2>8, Product
  <2> HIDE DEF c, d, e
  <2> QED BY ONLY <1>1, <1>4, <1>5, <2>3, <2>4, <2>5, <2>6, <2>9, <2>10, <2>11, <2>12, <2>13,
                  <2>14, <2>15, <2>16, <2>17
<1> QED BY <1>7, <1>9, <1>10

(* After a last purchase of token0 within the tolerance of the plan, what is  *)
(* left of the plan fits.                                                    *)
LEMMA PurchaseFits ==
    ASSUME NEW a \in Nat, NEW b \in Nat, NEW r \in 0 .. Scale,
           NEW x \in Nat, x > 0, x <= Plan(a, b, r).amount, ~Plan(a, b, r).zeroForOne,
           Plan(a, b, r).amount <= x + Tolerance(Plan(a, b, r).amount),
           NEW loss \in Nat, loss <= x, loss <= MaxLoss
    PROVE  Fits(a + x - loss, b - x, r)
<1>1. r \in Nat /\ Scale \in Nat \ {0} /\ MaxLoss \in Nat /\ Scale - r \in Nat
  BY ConstantsAssumption DEF ConstantsAssumption
<1>2. Plan(a, b, r).amount \in Nat /\ Plan(a, b, r).amount <= b
  BY PlanBounded
<1>3. x <= b /\ b - x \in Nat /\ a + x - loss \in Nat
  BY <1>2
<1> DEFINE y == Plan(a, b, r).amount
           s == Share(a, b)
           t == a + b
           c == a + x - loss
           d == b - x
           u == Share(c, d)
           q == Plan(c, d, r)
           z == q.amount
           e == c + d + MaxLoss
           tol == Tolerance(e)
<1>4. t # 0 /\ t \in Nat /\ c + d = t - loss /\ c + d \in Nat /\ c \in Nat /\ d \in Nat
  BY <1>3
<1>5. y \in Nat /\ e \in Nat /\ y <= e /\ t <= e
  BY <1>1, <1>2, <1>4
<1>6. Tolerance(y) \in Nat /\ tol \in Nat /\ Tolerance(y) <= tol
  BY <1>5, ToleranceGrows
<1>7. z \in Nat /\ (z > 0 /\ ~q.zeroForOne => z <= d)
  BY <1>4, PlanBounded
<1>8. y <= x + Tolerance(y)
  OBVIOUS
<1>9. CASE z = 0 \/ y = b
  <2>1. z > 0 => ~q.zeroForOne
    BY PurchaseStays
  <2> HIDE DEF y, q
  <2>2. z <= tol
    BY <1>3, <1>6, <1>7, <1>8, <1>9, <2>1
  <2> QED BY <1>4, <2>2, FitsWithin DEF q
<1>10. CASE z > 0 /\ y # b
  <2>1. ~q.zeroForOne
    BY <1>10, PurchaseStays
  <2>2. c + d # 0
    BY <1>4, <1>10, EmptyPlan
  <2>3. s \in Nat /\ s * t <= a * Scale
    BY <1>4, ShareBounds
  <2>4. (r - s) * t < y * Scale + Scale
    BY <1>2, <1>4, <1>10, PlanExact
  <2>5. u \in Nat /\ c * Scale < (u + 1) * (c + d)
    BY <1>4, <2>2, ShareBounds
  <2>6. z * Scale <= (r - u) * (c + d)
    BY <1>4, <1>10, <2>1, <2>2, PlanCases
  <2>7. SUFFICES z * Scale < (tol + 1) * Scale + e + (Scale - r) * MaxLoss
    BY <2>1 DEF Fits
  <2>8. x \in Nat /\ x <= y /\ y \in Nat
    BY <1>2
  <2> HIDE DEF y, s, t, u, q, z, tol
  <2>9. (r - u) * (c + d) = r * (c + d) - u * (c + d) /\ (u + 1) * (c + d) = u * (c + d) + (c + d)
    BY ONLY <1>1, <1>4, <2>5
  <2>10. r * (c + d) = r * t - r * loss
    BY ONLY <1>1, <1>4, loss \in Nat
  <2>11. c * Scale = a * Scale + x * Scale - loss * Scale
    BY ONLY <1>1, a \in Nat, x \in Nat, loss \in Nat
  <2>12. (r - s) * t = r * t - s * t
    BY ONLY <1>1, <1>4, <2>3
  <2>13. y * Scale <= x * Scale + Tolerance(y) * Scale
    <3>1. y * Scale <= (x + Tolerance(y)) * Scale
      BY <1>1, <1>6, <1>8, <2>8, Monotone
    <3>2. (x + Tolerance(y)) * Scale = x * Scale + Tolerance(y) * Scale
      BY <1>1, <1>6, <2>8
    <3> QED BY <3>1, <3>2
  <2>14. Tolerance(y) * Scale <= tol * Scale
    BY <1>1, <1>6, Monotone
  <2>15. loss * Scale - r * loss <= (Scale - r) * MaxLoss
    <3>1. loss * (Scale - r) <= MaxLoss * (Scale - r)
      BY <1>1, Monotone
    <3>2. /\ loss * (Scale - r) = loss * Scale - r * loss
          /\ MaxLoss * (Scale - r) = (Scale - r) * MaxLoss
      BY <1>1
    <3> QED BY <3>1, <3>2
  <2>16. (tol + 1) * Scale = tol * Scale + Scale
    BY <1>1, <1>6
  <2>17. /\ u * (c + d) \in Nat /\ r * (c + d) \in Nat /\ r * t \in Nat /\ r * loss \in Nat
         /\ a * Scale \in Nat /\ x * Scale \in Nat /\ s * t \in Nat /\ y * Scale \in Nat
         /\ Tolerance(y) * Scale \in Nat /\ tol * Scale \in Nat /\ loss * Scale \in Nat
         /\ (Scale - r) * MaxLoss \in Nat /\ z * Scale \in Nat
    BY <1>1, <1>4, <1>6, <1>7, <2>3, <2>5, <2>8, Product
  <2> HIDE DEF c, d, e
  <2> QED BY ONLY <1>1, <1>4, <1>5, <2>3, <2>4, <2>5, <2>6, <2>9, <2>10, <2>11, <2>12, <2>13,
                  <2>14, <2>15, <2>16, <2>17
<1> QED BY <1>7, <1>9, <1>10

(* The last swap of a cycle leaves balances that fit.                        *)
LEMMA LastSwapFits ==
    ASSUME v0 \in Nat, v1 \in Nat, ratio \in 0 .. Scale,
           NEW x \in Nat, LastSwap(Plan(v0, v1, ratio), x), Swap(Plan(v0, v1, ratio), x)
    PROVE  Fits(v0', v1', ratio)
<1> DEFINE p == Plan(v0, v1, ratio)
<1>1. MaxLoss \in Nat
  BY ConstantsAssumption DEF ConstantsAssumption
<1>2. p.amount \in Nat /\ p.zeroForOne \in BOOLEAN
  BY PlanBounded
<1>3. PICK loss \in 0 .. Least(MaxLoss, x) :
        /\ v0' = IF p.zeroForOne THEN v0 - x ELSE v0 + x - loss
        /\ v1' = IF p.zeroForOne THEN v1 + x - loss ELSE v1 - x
  BY DEF Swap
<1>4. loss \in Nat /\ loss <= x /\ loss <= MaxLoss
  BY <1>1, <1>3 DEF Least
<1>5. x <= p.amount /\ Submitted(x, p.amount)
  BY DEF LastSwap
<1>6. v0 + v1 + MaxLoss \in Nat /\ p.amount <= v0 + v1 + MaxLoss
  <2>1. p.amount <= IF p.zeroForOne THEN v0 ELSE v1
    BY PlanBounded
  <2> HIDE DEF p
  <2> QED BY <1>1, <1>2, <2>1
<1>7. CASE x = 0
  <2>1. v0' = v0 /\ v1' = v1
    BY <1>2, <1>3, <1>4, <1>7
  <2> HIDE DEF p
  <2>2. p.amount = 0 \/ p.amount <= Tolerance(p.amount)
    BY <1>2, <1>5, <1>6, <1>7, ToleranceGrows DEF Submitted
  <2>3. p.amount <= Tolerance(v0 + v1 + MaxLoss)
    BY <1>2, <1>6, <2>2, ToleranceGrows
  <2> QED BY <2>1, <2>3, FitsWithin DEF p
<1>8. CASE x > 0
  <2>1. p.amount <= x + Tolerance(p.amount)
    <3> HIDE DEF p
    <3> QED BY <1>2, <1>5, <1>6, <1>8, ToleranceGrows DEF Submitted
  <2>2. CASE p.zeroForOne
    <3>1. v0' = v0 - x /\ v1' = v1 + x - loss
      BY <1>3, <2>2
    <3> QED BY <1>4, <1>5, <1>8, <2>1, <2>2, <3>1, SaleFits
  <2>3. CASE ~p.zeroForOne
    <3>1. v0' = v0 + x - loss /\ v1' = v1 - x
      BY <1>3, <2>3
    <3> QED BY <1>4, <1>5, <1>8, <2>1, <2>3, <3>1, PurchaseFits
  <2> QED BY <2>2, <2>3
<1> QED BY <1>7, <1>8

(* Balances that need no swap fit; so do none at all.                        *)
LEMMA NoSwapFits ==
    ASSUME NEW a \in Nat, NEW b \in Nat, NEW r \in 0 .. Scale,
           a + b = 0 \/ Plan(a, b, r).amount = 0
    PROVE  Fits(a, b, r)
<1>1. a + b + MaxLoss \in Nat
  BY ConstantsAssumption DEF ConstantsAssumption
<1>2. Plan(a, b, r).amount <= Tolerance(a + b + MaxLoss)
  BY <1>1, EmptyPlan, ToleranceGrows
<1> QED BY <1>2, FitsWithin

LEMMA RestFitsStep == IInv /\ RestFits /\ [Next]_vars => RestFits'
<1> SUFFICES ASSUME IInv, RestFits, [Next]_vars PROVE RestFits'
  OBVIOUS
<1>0. /\ v0 \in Nat /\ v1 \in Nat /\ ratio \in 0 .. Scale
      /\ LockHeldForCycle /\ Ratios \subseteq 0 .. Scale /\ Cap \in Nat
  BY ConstantsAssumption DEF IInv, TypeOK, ConstantsAssumption
<1>1. CASE BeginProgressiveRebalance
  BY <1>1 DEF BeginProgressiveRebalance, RestFits
<1>2. CASE ContinueProgressiveRebalance \/ RefreshProgressiveRebalance
  BY <1>2 DEF ContinueProgressiveRebalance, RefreshProgressiveRebalance, RestFits
<1>3. CASE FinalizeProgressiveRebalance
  <2> DEFINE p == Plan(v0, v1, ratio)
  <2>1. PICK x \in 0 .. Least(p.amount, Cap) : LastSwap(p, x) /\ Swap(p, x)
    BY <1>3 DEF FinalizeProgressiveRebalance
  <2>2. p.amount \in Nat
    BY <1>0, PlanBounded
  <2>3. x \in Nat
    <3> HIDE DEF p
    <3> QED BY <1>0, <2>1, <2>2 DEF Least
  <2>4. Fits(v0', v1', ratio)
    BY <1>0, <2>1, <2>3, LastSwapFits
  <2>5. ratio' = ratio
    BY <1>3 DEF FinalizeProgressiveRebalance
  <2> QED BY <2>4, <2>5 DEF RestFits
<1>4. CASE CancelProgressiveRebalance
  <2>1. PICK r \in Ratios :
          /\ ratio' = r
          /\ active' = active \/ Plan(v0, v1, r).amount = 0
    BY <1>4 DEF CancelProgressiveRebalance
  <2>2. active /\ v0' = v0 /\ v1' = v1
    BY <1>4 DEF CancelProgressiveRebalance
  <2>3. Plan(v0, v1, r).amount = 0 => Fits(v0, v1, r)
    BY <1>0, <2>1, NoSwapFits
  <2> QED BY <2>1, <2>2, <2>3 DEF RestFits
<1>5. CASE CancelInExitOnly
  BY <1>5 DEF CancelInExitOnly, RestFits
<1>6. CASE MintInitialPosition
  <2>1. ~active /\ ~exitOnly
    BY <1>0, <1>6 DEF MintInitialPosition, LockHeldForCycle
  <2> QED BY <1>6, <2>1 DEF MintInitialPosition, RestFits, marketVars
<1>7. CASE Rebalance \/ ClosePosition
  <2>1. v0' = 0 /\ v1' = 0 /\ ratio' = ratio
    BY <1>7 DEF Rebalance, ClosePosition
  <2> QED BY <1>0, <2>1, NoSwapFits DEF RestFits
<1>8. CASE PriceMove \/ EmergencyRecoverUser
  BY <1>8 DEF PriceMove, EmergencyRecoverUser, RestFits, cycleVars
<1>9. CASE ActivateExitOnly
  BY <1>9 DEF ActivateExitOnly, RestFits, cycleVars, marketVars, vaultVars
<1>10. CASE EndRebalance \/ StartRebalance \/ CheckpointMarketState \/ Tick \/ MarketGuard \/ UNCHANGED vars
  BY <1>10 DEF EndRebalance, StartRebalance, CheckpointMarketState, Tick, MarketGuard, vars,
               RestFits, cycleVars, vaultVars, marketVars
<1> QED BY <1>1, <1>2, <1>3, <1>4, <1>5, <1>6, <1>7, <1>8, <1>9, <1>10
        DEF Next, Keepers, Safe, Environment

(* What a cycle mints fits its range, for every precision of the ratio, every *)
(* tolerance and loss, and whatever happened since the burn.                 *)
THEOREM MintsFit == Spec => []MintsBalanced
<1>1. Init => RestFits
  <2> SUFFICES ASSUME Init PROVE Fits(v0, v1, ratio)
    BY DEF RestFits
  <2>1. v0 = 0 /\ v1 = 0 /\ ratio \in 0 .. Scale
    BY InitIInv DEF Init, IInv, TypeOK
  <2> QED BY <2>1, NoSwapFits
<1>2. IInv /\ RestFits /\ [Next]_vars => RestFits'
  BY RestFitsStep
<1>3. RestFits => MintsBalanced
  BY DEF RestFits, MintsBalanced
<1> QED BY <1>1, <1>2, <1>3, InductiveInvariant, PTL DEF Spec
=============================================================================

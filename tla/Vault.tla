-------------------------------- MODULE Vault --------------------------------
(***************************************************************************)
(* The share accounting and the custody of MultiUserVault over the          *)
(* RangeManager it drives: deposits become shares once they are liquidity,   *)
(* withdrawals and recoveries turn shares back into tokens, LP fees are      *)
(* credited through a per-share accumulator, and every action of another      *)
(* user, the pause controller, the rebalancing module or the market may come  *)
(* in between.                                                               *)
(*                                                                           *)
(* One asset of price 1 stands for the two tokens: a token amount and its     *)
(* dollar value are one number. The queue of requests is DepositBook, which    *)
(* DepositQueue implements; which request the head of the queue is, and when   *)
(* one may be refunded, are left open here.                                   *)
(***************************************************************************)
EXTENDS Naturals, FiniteSets, Functions

CONSTANTS
  User,
  Amount,      \* sizes of a deposit
  Endowment,   \* tokens a user starts with
  Scale,       \* shares minted per dollar by the first deposit (1e10)
  DeadShares,  \* DEAD_SHARES
  FeeUnit,     \* precision of accFeePerShare (1e36)
  PctUnit,     \* precision of a withdrawn fraction (1e18)
  MaxSlip,     \* most a withdrawal loses in the rounding of its liquidity
  Gain,        \* size of a collected fee, and of a market gain
  MaxYield,    \* bound on the fees and market gains of a behaviour
  Modes        \* the states of PauseController that are explored

ASSUME VaultAssumption ==
  /\ IsFiniteSet(User)
  /\ Amount \subseteq Nat \ {0}
  /\ Endowment \in Nat
  /\ Scale \in Nat \ {0}
  /\ DeadShares \in Nat \ {0}
  /\ FeeUnit \in Nat \ {0}
  /\ PctUnit \in Nat \ {0}
  /\ MaxSlip \in Nat
  /\ Gain \in Nat
  /\ MaxYield \in Nat
  /\ "open" \in Modes
  /\ Modes \subseteq {"open", "paused", "held", "exit", "exitHeld"}

VARIABLES
  request,      \* queued amount of each user
  wallet,       \* tokens each user holds
  held,         \* tokens the vault contract holds
  assets,       \* value of the RangeManager: LP principal and idle tokens
  position,     \* the RangeManager owns a position
  shares,       \* userInfo.shares
  totalShares,
  since,        \* how long ago each user's last deposit was processed
  accFee,       \* accFeePerShare
  feeDebt,      \* userFeeDebtToken
  feesEarned,   \* userInfo.totalFeesEarnedToken
  distributed,  \* net fees ever given to _distributeFees
  yield,        \* fees and market gains so far, for MaxYield
  locked,       \* _processingRebalance
  mode          \* what PauseController allows

queued == <<request, wallet, held>>
fees   == <<accFee, feeDebt, feesEarned, distributed>>
vaultVars == <<request, wallet, held, assets, position, shares, totalShares, since,
               accFee, feeDebt, feesEarned, distributed, yield, locked, mode>>

Book == INSTANCE DepositBook

(***************************************************************************)
(* PauseController: inflows active, inflows paused, withdrawals held, and     *)
(* exit-only without or with a hold. Holds stop inflows, exit-only is final.   *)
(***************************************************************************)
InflowsActive     == mode = "open"
WithdrawalsActive == mode \in {"open", "paused", "exit"}
ExitOnly          == mode \in {"exit", "exitHeld"}

Min2(a, b) == IF a < b THEN a ELSE b

Pending == SumFunctionOnSet(request, User)

VaultInit ==
  /\ request = [u \in User |-> 0]
  /\ wallet = [u \in User |-> Endowment]
  /\ held = 0
  /\ assets = 0
  /\ position = FALSE
  /\ shares = [u \in User |-> 0]
  /\ totalShares = 0
  /\ since = [u \in User |-> "rested"]
  /\ accFee = 0
  /\ feeDebt = [u \in User |-> 0]
  /\ feesEarned = [u \in User |-> 0]
  /\ distributed = 0
  /\ yield = 0
  /\ locked = FALSE
  /\ mode = "open"

-----------------------------------------------------------------------------
(* Fees the position has earned since they were last collected. *)
Collectable == IF position /\ yield + Gain <= MaxYield THEN {0, Gain} ELSE {0}

(* collectFeesForVault: fees f join the idle tokens and are distributed over *)
(* all shares. Commission is left out: f is net.                             *)
AccAfter(f) == IF totalShares = 0 THEN accFee ELSE accFee + (f * FeeUnit) \div totalShares

Collect(f) ==
  /\ accFee' = AccAfter(f)
  /\ distributed' = IF totalShares = 0 THEN distributed ELSE distributed + f
  /\ yield' = yield + f

(* _updateUserFees, for an accumulator acc: what u has earned. The checked   *)
(* subtraction reverts when the debt exceeds what the shares accrued.         *)
DebtCovered(u, acc) == shares[u] = 0 \/ feeDebt[u] <= shares[u] * acc

(* Mutant: the debt is forgotten. *)
Credit_NoDebt(u, acc) == (shares[u] * acc) \div FeeUnit

Credit(u, acc) == IF shares[u] = 0 THEN 0 ELSE (shares[u] * acc - feeDebt[u]) \div FeeUnit

(* Mutant: the debt stays what _updateUserFees made it, for the shares before. *)
FeeCheckpoint_OldShares(u, kept, acc) == feeDebt' = [feeDebt EXCEPT ![u] = shares[u] * acc]

(* The debt of u starts over from the shares kept. *)
FeeCheckpoint(u, kept, acc) == feeDebt' = [feeDebt EXCEPT ![u] = kept * acc]

-----------------------------------------------------------------------------
(* deposit *)
Deposit(u, a) ==
  /\ InflowsActive
  /\ Book!Request(u, a)
  /\ UNCHANGED <<assets, position, shares, totalShares, since, fees, yield, locked, mode>>

(* refundStaleHeadDeposit and refundStaleDeposit *)
RefundStaleDeposit(u) ==
  /\ Book!Return(u)
  /\ UNCHANGED <<assets, position, shares, totalShares, since, fees, yield, locked, mode>>

(* Mutant: the shares are rounded up. *)
SharesFor_RoundUp(c, nav) ==
  IF totalShares <= DeadShares THEN (c + nav) * Scale - DeadShares
  ELSE (c * totalShares + nav - 1) \div nav

(***************************************************************************)
(* _finalizeProcessedDeposit: the shares for a credited value c over a value  *)
(* nav before it. When only dead shares are left the share base starts over,   *)
(* and what the RangeManager still holds goes into it.                        *)
(***************************************************************************)
SharesFor(c, nav) ==
  IF totalShares <= DeadShares THEN (c + nav) * Scale - DeadShares
  ELSE (c * totalShares) \div nav

(* Mutant: dead shares are minted again without starting over. *)
BaseShares_NotReset ==
  IF totalShares <= DeadShares THEN totalShares + DeadShares ELSE totalShares

BaseShares == IF totalShares <= DeadShares THEN DeadShares ELSE totalShares

(***************************************************************************)
(* processDepositPermissionless for the request of u: fees f are collected,   *)
(* the tokens go to the RangeManager, swaps and liquidity turn them into a     *)
(* value c that slippage may make smaller, and u gets shares for c.           *)
(***************************************************************************)
ProcessDepositPermissionless(u) ==
  \E f \in Collectable : \E c \in 1 .. request[u] :
    LET nav    == assets + f
        minted == SharesFor(c, nav)
        acc    == AccAfter(f)
    IN
    /\ ~locked
    /\ InflowsActive
    /\ totalShares > DeadShares => nav > 0
    /\ totalShares <= DeadShares => (c + nav) * Scale > DeadShares
    /\ minted > 0
    /\ DebtCovered(u, acc)
    /\ Book!Forward(u)
    /\ assets' = nav + c
    /\ position' = TRUE
    /\ Collect(f)
    /\ feesEarned' = [feesEarned EXCEPT ![u] = @ + Credit(u, acc)]
    /\ shares' = [shares EXCEPT ![u] = @ + minted]
    /\ FeeCheckpoint(u, shares[u] + minted, acc)
    /\ totalShares' = BaseShares + minted
    /\ since' = [since EXCEPT ![u] = "fresh"]
    /\ UNCHANGED <<locked, mode>>

(* requireWithdrawalsActiveAfter, and the ban on leaving in the same block *)
WithdrawalAllowed(u) ==
  /\ WithdrawalsActive
  /\ since[u] # "fresh"
  /\ ExitOnly \/ since[u] = "rested"

(* The earned fees u keeps after giving up s shares, in proportion. *)
KeptFees(u, s, earned) ==
  IF s = shares[u] THEN 0
  ELSE (earned * (PctUnit - (s * PctUnit) \div shares[u])) \div PctUnit

(* Mutant: the vault's whole balance goes along. *)
SendDelta_Sweep(u, out) ==
  /\ wallet' = [wallet EXCEPT ![u] = @ + held + out]
  /\ held' = 0

(* What came from the RangeManager for this withdrawal, and nothing else of   *)
(* the vault's balance, goes to the user.                                    *)
SendDelta(u, out) ==
  /\ wallet' = [wallet EXCEPT ![u] = @ + out]
  /\ UNCHANGED held

(* The checks of a withdrawal, the subtraction of _updateUserFees among them. *)
WithdrawalPasses(u, s) ==
  /\ ~locked
  /\ s \in 1 .. shares[u]
  /\ WithdrawalAllowed(u)
  /\ DebtCovered(u, accFee)

(* What s shares may take of the value all: their part, short of rounding      *)
(* while it is in a position, or everything when only dead shares stay.       *)
Withdrawn(s, all) ==
  LET part == (all * s) \div totalShares
  IN  IF totalShares - s <= DeadShares THEN {all}
      ELSE IF position THEN {x \in 0 .. part : x + MaxSlip >= part} ELSE {part}

(***************************************************************************)
(* withdraw: fees are settled before and after their collection, the share   *)
(* of s in the RangeManager's balances is paid out, and whoever leaves only    *)
(* dead shares behind closes the position.                                   *)
(***************************************************************************)
Withdraw(u, s) ==
  \E f \in Collectable : \E out \in Withdrawn(s, assets + f) :
    LET full   == totalShares - s <= DeadShares
        earned == feesEarned[u] + Credit(u, accFee)
                    + (shares[u] * (AccAfter(f) - accFee)) \div FeeUnit
    IN
      /\ WithdrawalPasses(u, s)
      /\ Collect(f)
      /\ feesEarned' = [feesEarned EXCEPT ![u] = KeptFees(u, s, earned)]
      /\ shares' = [shares EXCEPT ![u] = @ - s]
      /\ FeeCheckpoint(u, shares[u] - s, AccAfter(f))
      /\ totalShares' = totalShares - s
      /\ assets' = (assets + f) - out
      /\ SendDelta(u, out)
      /\ position' = (position /\ ~full)
      /\ UNCHANGED <<request, since, locked, mode>>

(* Tokens of the vault that are nobody's request. *)
FreeTokens == held - Pending

(* The share of u in the free tokens of the vault and the RangeManager's, and  *)
(* what the RangeManager has to add to it.                                   *)
RecoverPart(u) ==
  IF shares[u] = 0 THEN 0 ELSE ((FreeTokens + assets) * shares[u]) \div totalShares

RecoverRange(u) ==
  IF RecoverPart(u) > FreeTokens THEN Min2(RecoverPart(u) - FreeTokens, assets) ELSE 0

(* The checks of a recovery: the reserve for the queue and what is due to u.   *)
RecoveryPasses(u) ==
  /\ shares[u] > 0 \/ request[u] > 0
  /\ shares[u] > 0 => ~position /\ held >= Pending
  /\ held + RecoverRange(u) >= Pending - request[u] + (RecoverPart(u) + request[u])

(***************************************************************************)
(* EmergencyRecoverUser, by the user: with no position, the share of u in     *)
(* the vault's own tokens and the RangeManager's, taken from the vault first,  *)
(* and the request of u if there is one. Neither the lock nor a hold stops it. *)
(***************************************************************************)
EmergencyRecoverUser(u) ==
  LET range == RecoverRange(u)
      due   == RecoverPart(u) + request[u]
  IN
  /\ RecoveryPasses(u)
  /\ request' = [request EXCEPT ![u] = 0]
  /\ held' = held + range - due
  /\ assets' = assets - range
  /\ wallet' = [wallet EXCEPT ![u] = @ + due]
  /\ totalShares' = totalShares - shares[u]
  /\ shares' = [shares EXCEPT ![u] = 0]
  /\ feeDebt' = [feeDebt EXCEPT ![u] = 0]
  /\ IF shares[u] > 0
     THEN /\ feesEarned' = [feesEarned EXCEPT ![u] = 0]
          /\ since' = [since EXCEPT ![u] = "rested"]
     ELSE UNCHANGED <<feesEarned, since>>
  /\ UNCHANGED <<position, accFee, distributed, yield, locked, mode>>

(* Removing the position: fees are collected, the principal stays in the     *)
(* RangeManager.                                                             *)
BurnTracked(f) ==
  /\ position
  /\ f \in Collectable
  /\ Collect(f)
  /\ assets' = assets + f
  /\ position' = FALSE
  /\ UNCHANGED <<queued, shares, totalShares, since, feeDebt, feesEarned, locked, mode>>

(* EmergencyBurnPositions, by the Safe during a hold or in exit-only mode *)
EmergencyBurnPositions == mode \in {"held", "exit", "exitHeld"} /\ \E f \in {0, Gain} : BurnTracked(f)

(* startRebalance, by the module or for it *)
StartRebalance ==
  /\ ~locked
  /\ locked' = TRUE
  /\ UNCHANGED <<queued, assets, position, shares, totalShares, since, fees, yield, mode>>

(* Under the lock the rebalance burns the position, trades at a loss of at   *)
(* most its slippage, and mints again.                                       *)
RebalanceBurn == locked /\ \E f \in {0, Gain} : BurnTracked(f)

RebalanceSwap ==
  /\ locked /\ ~position /\ assets > 0
  /\ assets' = assets - 1
  /\ UNCHANGED <<queued, position, shares, totalShares, since, fees, yield, locked, mode>>

RebalanceMint ==
  /\ locked /\ ~position /\ assets > 0
  /\ position' = TRUE
  /\ UNCHANGED <<queued, assets, shares, totalShares, since, fees, yield, locked, mode>>

(* endRebalance *)
EndRebalance ==
  /\ locked
  /\ locked' = FALSE
  /\ UNCHANGED <<queued, assets, position, shares, totalShares, since, fees, yield, mode>>

-----------------------------------------------------------------------------
(* The market moves the value of a position. *)
Market ==
  /\ position
  /\ \/ yield + Gain <= MaxYield /\ assets' = assets + Gain /\ yield' = yield + Gain
     \/ assets > 0 /\ assets' = assets - 1 /\ UNCHANGED yield
  /\ UNCHANGED <<queued, position, shares, totalShares, since, fees, locked, mode>>

(* Pool tokens sent to the vault, or to the RangeManager, by no handler. *)
DonateToVault(u) ==
  /\ Book!Gift(u)
  /\ UNCHANGED <<assets, position, shares, totalShares, since, fees, yield, locked, mode>>

DonateToRange(u) ==
  /\ wallet[u] >= 1
  /\ wallet' = [wallet EXCEPT ![u] = @ - 1]
  /\ assets' = assets + 1
  /\ UNCHANGED <<request, held, position, shares, totalShares, since, fees, yield, locked, mode>>

(* A new block, and the end of a user's cooldown. *)
NextBlock ==
  /\ \E u \in User : since[u] = "fresh"
  /\ since' = [u \in User |-> IF since[u] = "fresh" THEN "cooling" ELSE since[u]]
  /\ UNCHANGED <<queued, assets, position, shares, totalShares, fees, yield, locked, mode>>

CooldownOver(u) ==
  /\ since[u] = "cooling"
  /\ since' = [since EXCEPT ![u] = "rested"]
  /\ UNCHANGED <<queued, assets, position, shares, totalShares, fees, yield, locked, mode>>

(* The Safe, or time, changes what the pause controller allows. *)
ChangeMode(m) ==
  /\ m # mode
  /\ ExitOnly => m \in {"exit", "exitHeld"}
  /\ mode' = m
  /\ UNCHANGED <<queued, assets, position, shares, totalShares, since, fees, yield, locked>>

VaultNext ==
  \/ \E u \in User :
       \/ \E a \in Amount : Deposit(u, a)
       \/ RefundStaleDeposit(u)
       \/ ProcessDepositPermissionless(u)
       \/ \E s \in 1 .. shares[u] : Withdraw(u, s)
       \/ EmergencyRecoverUser(u)
       \/ DonateToVault(u)
       \/ DonateToRange(u)
       \/ CooldownOver(u)
  \/ EmergencyBurnPositions
  \/ StartRebalance
  \/ RebalanceBurn
  \/ RebalanceSwap
  \/ RebalanceMint
  \/ EndRebalance
  \/ Market
  \/ NextBlock
  \/ \E m \in Modes : ChangeMode(m)

VaultSpec == VaultInit /\ [][VaultNext]_vaultVars

-----------------------------------------------------------------------------
(* The variables have their types. *)
VaultTypeOK ==
  /\ request \in [User -> Nat]
  /\ wallet \in [User -> Nat]
  /\ held \in Nat
  /\ assets \in Nat
  /\ position \in BOOLEAN
  /\ shares \in [User -> Nat]
  /\ totalShares \in Nat
  /\ since \in [User -> {"fresh", "cooling", "rested"}]
  /\ accFee \in Nat
  /\ feeDebt \in [User -> Nat]
  /\ feesEarned \in [User -> Nat]
  /\ distributed \in Nat
  /\ yield \in 0 .. MaxYield
  /\ locked \in BOOLEAN
  /\ mode \in Modes

(***************************************************************************)
(* Fees credited and still creditable never exceed the fees distributed, and  *)
(* no debt exceeds what the shares accrued, so that settling never reverts.   *)
(***************************************************************************)
FeesCovered ==
  /\ \A u \in User : DebtCovered(u, accFee)
  /\ SumFunctionOnSet([u \in User |-> feesEarned[u] + Credit(u, accFee)], User) <= distributed

(***************************************************************************)
(* totalShares is the users' shares and, from the first mint on, the dead     *)
(* ones: also when the base starts over after everybody left. A withdrawal    *)
(* leaving at most DEAD_SHARES is therefore the last one.  And the vault      *)
(* always holds the queued tokens of everybody, whatever passes through its   *)
(* balance in withdrawals and recoveries; and no fees are promised twice.     *)
(***************************************************************************)
UserShares == SumFunctionOnSet(shares, User)

SharesAdd == totalShares = UserShares + DeadShares \/ (totalShares = 0 /\ UserShares = 0)

CustodyBacked == SharesAdd /\ held >= Pending /\ FeesCovered

(***************************************************************************)
(* The invariant that CustodyBacked rests on. The claims of the users are    *)
(* counted before any rounding, in units of which a token has FeeUnit.        *)
(***************************************************************************)
Claim(u, acc) == feesEarned[u] * FeeUnit + (shares[u] * acc - feeDebt[u])

Claims(acc) == SumFunctionOnSet([u \in User |-> Claim(u, acc)], User)

FeesSound ==
  /\ \A u \in User : feeDebt[u] <= shares[u] * accFee
  /\ Claims(accFee) <= distributed * FeeUnit

VaultInv == VaultTypeOK /\ SharesAdd /\ held >= Pending /\ FeesSound

(***************************************************************************)
(* Nobody's deposit, withdrawal, refund or recovery lowers the value of a     *)
(* share somebody else keeps: slippage and rounding fall on the one who acts,  *)
(* and only the last to leave takes everything.                              *)
(***************************************************************************)
NoDilution == [][
  <<queued, shares>>' # <<queued, shares>> =>
     \A v \in User : shares[v] > 0 /\ shares'[v] = shares[v] =>
        assets' * totalShares >= assets * totalShares']_vaultVars

(***************************************************************************)
(* A holder past the cooldown can withdraw all shares whenever withdrawals    *)
(* are active and no rebalance is under way: whatever fees are collected, no   *)
(* arithmetic of the handler reverts and no more is paid out than is there,    *)
(* after any history of fees, losses, recoveries and restarts. And once the    *)
(* position is burned everybody who has shares or a request can recover:      *)
(* neither PendingReserveDeficit nor EmergencyLiquidityShortfall.             *)
(***************************************************************************)
ExitNeverBlocked == \A u \in User :
  /\ shares[u] > 0 /\ ~locked /\ WithdrawalAllowed(u) =>
       /\ WithdrawalPasses(u, shares[u]) /\ totalShares > 0
       /\ \A f \in Collectable :
            /\ Withdrawn(shares[u], assets + f) # {}
            /\ Withdrawn(shares[u], assets + f) \subseteq 0 .. assets + f
  /\ ~position /\ (shares[u] > 0 \/ request[u] > 0) =>
       RecoveryPasses(u) /\ RecoverRange(u) <= assets
==============================================================================

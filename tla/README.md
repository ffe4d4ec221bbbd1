# LiquidHub in TLA+

Models of the LiquidHub contracts and keepers, the TLC runs that check them and the theorems that TLAPS proves about them.
Sources are named by their path under `src/`; "the UNI pool" is `src/pools/UNI-ARB-WETH-USDC`, "the DN pool" is
`src/pools/UNI-ARB-WETH-USDC-DN`. `PROJECT.json` maps every definition to its lines.

## 1. The system

LiquidHub runs Uniswap V3 liquidity vaults. Users deposit two tokens into a vault; a range manager holds them as one LP
position; a strategy engine decides once an epoch whether the range should move; anybody may execute that decision and is
paid a bounty from a Treasury that keeps a part of the protocol's commissions for it. A Safe may pause, hold withdrawals for
a bounded time and close a pool for good, but never takes funds. Off-chain keepers call the contracts through several RPC
endpoints with one signer.

```
 users ----> MultiUserVault ----> RangeManager ----> Uniswap position
               |  ^   ^               ^   ^
   asks        |  |   | locks         |   | decisions
               v  |   |               |   |
        PauseController  SecureBotModule  RangeStrategyEngine <--- checkpoints --- keepers
               ^              ^                                                      |
              Safe          keepers ----- signed transactions (lock, journal) -------+
                                                                                     |
 MultiUserVault, RangeManager, engine ---- commissions, bounties ----> Treasury <----+
                                                                          |
                                                          bridge keeper --+--> terminal treasury
```

### Inventory

| Component | State it keeps | Operations | What is hard about it | What makes it correct |
| --- | --- | --- | --- | --- |
| PauseController | two deadlines, the time from which a hold may be used again, exit-only | pause and resume inflows, hold and resume withdrawals, exit-only | sequences of holds, early resumes and expiries over hours; equality with `block.timestamp` | a hold is bounded, is followed by an open window, and stops inflows |
| Deposit queue of MultiUserVault | an array with a moving head, an index by user, running totals | deposit, process the head, refund a matured head, recover from the middle | storage slots that are cleared, swapped and reused | index and array agree, everybody ends with the own amount, nobody is put back, nobody waits for ever |
| Shares and custody of MultiUserVault | shares, total, fee accumulator and debts, the lock | process a deposit, withdraw, recover, distribute fees, start and end a rebalance | other users, the rebalance and the Safe act between two calls of a user; rounding | shares are backed, the queue's tokens stay reserved, nobody dilutes anybody, exits never revert |
| Progressive rebalance (SecureBotModule, RangeManager, engine) | status, decision hash, three budgets, direction; the vault's lock; the canonical decision | begin, continue, refresh, finalize, cancel, checkpoint | one cycle takes many transactions of many callers, epochs and price moves | lock follows cycle, turnover is capped, the mint fits its range, the cycle ends |
| Treasury and AutonomousRevenueLib | counted balances, pending fees by source, reserves with carried fractions, daily sums, windows, pause | receive, count, convert, withdraw, forward, bridge, pay bounties | one USDC balance for all pools; receipts nobody announced | no reserve is spent for another, daily caps, conversion volume |
| Signer lock (`signer-file-lock.js`) | hard links in a directory | acquire, reclaim a dead owner's lock, release | processes crash between any two file-system calls; races by path | one owner, no living owner is robbed, a dead one does not block |
| Transaction journal (`bridge-keeper/src/keeper.js`, RpcPool) | one persisted transaction | reconcile, sign, persist, broadcast, replace, clear | lost answers, lagging and wrong endpoints, crashes, replaced transactions | nothing in flight is forgotten, nothing is reported that was not mined |
| RPC layer of the pool keepers (`rpc.js`) | health flags, chain flags and the current index; the same journal with their own quorums | reads with retries, public reads, critical reads; send, replace a fee, preempt for a repair | flags are of earlier failures; endpoints of another chain; two transactions at one nonce | nothing is read from a wrong chain, an endpoint that works is found, no repair is displaced |
| Fee and snapshot consensus (DN `rpc-fee-consensus.js`, `rpc-snapshot-consensus.js`) | the answers of one read | estimate gas, quote fees, read a value at a block | the chain reorganises between two answers; one endpoint lies while another is down; emergencies accept less | a repair is never left out for a false value, its price is bounded |
| Deposit refund recovery (`deposit-refund-recovery.js`) | head key, first and last revert, their number, in memory and in the alert file | attempt, count a revert, refund | a count that races the queue, restarts and lost answers | only a head that reverted three times over ten minutes is refunded, and no head blocks for ever |
| Pool keeper loops (`keeper.js`, `rebalancer.js`) | what was last read, retries of a run | repair first, settle the journal, continue a run, refund, act on the decision | decisions on data that is old when the transaction is mined; a repair due in the middle of a run | repair before trade, fresh plans, the loop neither hangs nor forgets a repair |
| Bridge keeper loop and revenue maintenance | failures and alerts by treasury, and their file | convert, forward or bridge, report | a bridge that timed out and is mined later; a file that cannot be written | the amount is the current one, incidents are reported, once |
| RangeStrategyEngine | canonical decision, epoch, out-of-range clock, forecast | checkpoint, preview, record an execution | two clocks that outlive the positions they are of; decisions of one epoch; prices that drift before the execution | a range is moved early only for cause, one that is left for good is moved |
| Delta-neutral hedge (AaveHedgeManager, DnDepositLib, ProtocolSafetyLib) | debt and collateral at Aave, idle balances, cooldown, a pending inventory correction, pause | adjust, repair, settle, open, synchronise, close | amounts are computed before the first leg and checked after the second; a flash loan is repaid from a balance shared with others; corrections in several capped steps | a repair and an exit go through, a leaver takes the own share, adjustments never overshoot |
| SwapTreasury | the library's state for one source | the Treasury's without pools | as above | as above |
| LiquidHubVaultRegistry and adapter | an append-only list with active flags | register, update, activate | pages read while the list grows | indexes are stable |
| SequencerCheckedAggregator | none | a read that may refuse | grace period after an outage | refuses while the sequencer was down |
| ProtocolSafetyLib, ProtocolAccountingLib, AutonomousPoolLib | none | checks and arithmetic of the above | numeric | numeric |

The hazards this leads to are listed in `PROJECT.json` under `hazards`, each at the line where it bites and with the properties
that would catch it.

## 2. The modules

| Module | Models | Uses |
| --- | --- | --- |
| `PauseController` | the circuit breaker of a pool | |
| `HedgeManager` | the Aave hedge of the DN pool | |
| `RangeStrategyEngine` | when a range is moved: checkpoints, clocks, decisions and their execution | |
| `DepositBook` | abstract: a ledger of requests, each returned or forwarded once | |
| `DepositQueue` | the array with a moving head | refines `DepositBook` |
| `Vault` | shares, fees, custody, lock | takes its queue from `DepositBook` |
| `ProgressiveRebalance` | a cycle over module, manager, engine and vault lock | |
| `RevenueBook` | AutonomousRevenueLib as operators on a book | |
| `Treasury` | the Treasury over its book | `RevenueBook` |
| `SignerMutex` | abstract: each attempt waits, holds, ends; one holds | |
| `SignerFileLock` | the hard-link protocol | refines `SignerMutex` |
| `SignerJournal` | the signed-transaction journal of pool and bridge keepers | uses the lock as the mutex it is proved to be |
| `RpcPool` | how a keeper chooses and trusts endpoints | |
| `SnapshotRead` | a value that two endpoints must give at one block | |
| `FeeConsensus` | gas and fees of a repair from quotes of which one may be wrong | |
| `DepositRecovery` | when a keeper gives a deposit up | |
| `KeeperCycle` | the loop of the DN pool keeper | |
| `BridgeCycle` | the loop of the bridge keeper | |
| `MC...` | instances for TLC | |
| `SumProofs` | lemmas on numbers, finite sets and sums over them | |
| `PoolProofs` | theorems about `PauseController`, `RangeStrategyEngine`, `Vault` and `HedgeManager` | `SumProofs` |
| `DepositQueueProofs`, `ProgressiveRebalanceProofs`, `TreasuryProofs`, `SignerJournalProofs` | theorems about the module of that name | the first and the third: `SumProofs` |
| `KeeperUtilsProofs` | theorems about `SignerFileLock`, `RpcPool`, `FeeConsensus` and `SnapshotRead` | |
| `KeeperProofs` | theorems about `KeeperCycle`, `BridgeCycle` and `DepositRecovery` | |

`MCPool` (pause, engine and hedge), `MCDeposits` (queue and refund recovery), `MCKeeperIO` (the signer's lock and the three ways of reading) and
`MCKeepers` (the pool's and the bridge's loop) hold modules that share no state: a behaviour chooses one of them at the start and the others stand still, so the states add up instead of multiplying.
The contracts a keeper calls are not in its module: what it reads is a choice, because others act between any two steps.

In every module an action is one transaction, or for the keepers one call that another process can observe. A revert is an action
that is not enabled. Definitions whose comment begins with "Mutant" are not part of the models; each is a plausible slip in the code
that a run must notice.

### PauseController

Time is a counter in hours; `Tick` is the passing of one. `heldFor`, `openFor` and `everHeld` are history variables that count how
long withdrawals have been held or open without a break, which the contract itself never stores: the properties speak about them and
the contract only has deadlines. `MaxTime` bounds the run.

### HedgeManager

Token 1 is the unit of value, `price` the value of `Unit` of token 0, and basis points are percent. `pos` is what Aave and the two
contracts hold; `lp0`, the token 0 in the position, is the target. An action is one transaction with its flash loan and callback;
where the code computes a bound from the oracle, the trade is made at the oracle's price or, when `bad`, at the bound. `Settle` is
`settleProportional` and `emergencySettleForVault`, which the vault's withdrawal and recovery call with what left the range manager.
`RepairPlan` has both legs; `market` says whether the flash loan can be had. The amounts of the repair are computed, as in the code, from
the account before the first leg, the budget of the second after it. Left out: bounties, setters, the checks of tick, TWAP and
price cache, the minimum value of a withdrawal, and which action the engine chooses. The pause may be set at any time and for as
long as it takes. It stops openings and, as the code has it, each adjustment that borrows.

### RangeStrategyEngine

Timestamps are ages that stop at the limit they are compared with, prices are ticks, all ranges have one width, and any admissible range may
score best, with any edge. `decision` is the canonical decision with the position and the price it saw; `Fresh` are the
guards of `_liveDecision`. A decision is executed at once (`Rebalance`) or opens a cycle (`BeginCycle`, `Retarget`,
`FinishCycle`), whose swaps and budgets are those of `ProgressiveRebalance` and left out here. `rangeAge` and `leftFor` are history: how long
this position exists and how long it has been seen left, which the contract approximates with two timestamps that are not bound to a
position. The tactical average is any price. Left out: the learning, the oracle guard and the delay of the main bot, which are actions not taken,
a configuration that changes (it is fixed by construction), and the hedge decisions of the DN engine.

### DepositBook and DepositQueue

`slots`, `length`, `head`, `indexPlusOne` and `hasPending` are the contract's storage; slots behind the head keep what the code leaves
in them. `RemovePending` is `_removePending` with its two branches and the reset of an emptied array, and is part of each action that
removes. One asset stands for the two tokens. Size, oracle and strategy conditions of a deposit only decide whether an action happens and
are left to chance. The refinement maps the index and the array to one amount for each user; that the amounts returned are the own ones is
what `DepositBook` adds.

### Vault

One asset of price one stands for the two tokens, so that a token amount and its value are a number. `assets` is what the RangeManager
owns, in or out of the position. `Collectable` are the fees a position may have earned at any moment, so fees arrive in the middle of
a deposit or a withdrawal as they do in the code. The rebalance's burn, swap and mint are separate actions under the lock.
`EmergencyRecoverUser` is the user's own call, stopped neither by the lock nor by a hold. Left out: commission, the users' cost basis, the
installation and its setters, the rescue of foreign tokens.

### ProgressiveRebalance

`active` is status 2; statuses 1 and 3 exist only inside one transaction. Balances and budgets are dollar values, a range is the share
of token 0 it asks for, and which range the strategy chooses is any of `Ratios`. `canon` is the canonical decision, `age` its freshness and
`market` the relation of the live price to it. `granted` and `turnover` are history: what the cycle's budget was set to, and what has
been swapped since. The minute in which community keepers go first is ignored: whoever calls is the same to the model. The Safe
owns the vault and may lock it without a cycle (`StartRebalance`) or unlock it (`EndRebalance`); `safeLock` is history and says that the lock is such a one.
`Refresh` has both of its paths: it retargets an open cycle (`Retarget`) or, from status 0, starts one under a lock of the Safe when no position is
left (`TakeOver`), on whatever the manager holds. The decision is valid for an epoch, as deployed.

### RevenueBook and Treasury

A book is a record with the fields of `AutonomousRevenueLib.State`; each operator returns the book after one library call. A
Treasury action applies several, in the handler's order, with the transfers between them. The book's `funded` and `paid`, and the
Treasury's `today` and `sold`, are history. The configuration is the sealed one and therefore constant. A conversion returns
the oracle's price or the slippage floor. A bounty is the constant of the role; the argument checks of the callers are the choice of caller.
External calls that fail revert and are not steps. `Genesis` is later than every cooldown because block time is.

### SignerFileLock and SignerMutex

A lock file is an inode named by the attempt that wrote it; the directory is `file` (what the lock path names), `published` and
`claim` (the temporary hard links). The link count is computed from these three. Every file-system call of `acquireSignerFileLock`,
`clearDeadLinks`, `reclaimDeadLock` and `release` is a step of its own, `pc` says which is next, and `Crash` stops a process, with all
its attempts, between any two. Abstractions: a lock of the first format, and an owner whose start time cannot be read, count as
alive, which only makes others wait; a read that finds the file gone is a retry; two attempts of one process interleave freely
although JavaScript would run some of these calls without a break, so the model has more behaviours than the code.

### SignerJournal

Pool keepers (`Pool`) and bridge keepers share a signer, a journal file and the lock. A call is in a `mode`: it recovers the journalled
transaction, preempts it for an urgent repair of the health factor, sends a new action, or replaces a fee; the pool keepers' own
quorums, their precheck before signing and the recheck of the nonce after a timeout are steps of their own. The chain is a
sequence of mined transactions; `released` are those some endpoint accepted, which may be mined at any later time or never; `view`
is how far each endpoint follows the chain. The answers of one poll are one step, since the endpoints advance at times of their own
anyway. The endpoint in `Faulty` says anything. A crash loses `mem` and keeps the file. A transaction is marked `exempt` when no fee cap
limits it, and `repair` when it is the exact repair call. Abstractions: the status of a receipt, log output, the migration of older
journal formats, and the market for fees: a replacement pays one unit more, an ordinary one up to `FeeCap`, a repair up to `MaxFee`.
Whatever is released is mined in the end when fairness is assumed. A block that a quorum confirmed is not reorganised.

### RpcPool

Endpoints go down and come back between two attempts; those in `Wrong` are of another chain, the one in `Lying` answers a read
wrongly. `healthy`, `auth` and `current` are the keeper's fields, written by the startup check, the lazy authentication, the failure
of an attempt and the reset when no endpoint is left. A read is an ordinary one with retries, a public one, or a critical one
that needs two equal answers.

### SnapshotRead and FeeConsensus

`SnapshotRead` has the chain itself: blocks are added and the last one replaced while the reader asks each endpoint for the header,
the value and the header again. A block stands for its hash and value. Both emergency rules, which accept a single positive value,
are modelled. `FeeConsensus` is the fees and then the gas limit, with its attempts and the fallback on a common fresh block; quotes
are small numbers, of which an honest one lies in a range and a crooked one anywhere. Every block has a base fee; an endpoint quotes the legacy gas
price all the same, and where the maximal and the priority fee are not both corroborated and the legacy price is, that price is returned
before the common block is looked for, and the transaction is of type 0 (rpc.js:933).

### DepositRecovery

`stage` follows one call of `processDepositWithRecovery` through its reads, its attempt, the guard, the simulation and the refund.
The queue is reduced to numbered requests (a number stands for the key by which the keeper tells them apart); others process, refund and
request between any two steps. `evidence` is the keeper's memory and `file` what was last written; `proof` is history: the reverts
that really happened to this head while admission was open.

### KeeperCycle

`pc` is the place in the loop; the health-factor lane and a repair are entered from several places and `ret` is where they return to. `required`
is the one fact the keeper must not miss; others may change it and the cycle's status at any step. `known` is what the keeper last
read of it, `fresh` that nothing of its own was mined since it read what it signs. A transaction that timed out stays in `pend` and may
be mined during any later step. The loop of the UNI keeper is the same without the lane, and is not instantiated.

### BridgeCycle

The treasuries in turn: conversions, the amount, then a forward or a bridge. `actions` is the record of failures by treasury and
`saved` its file, which is written before a report and after it and may fail each time. The journal and the lock are shared with the pool keepers of the
same signer: `OthersSend` puts a transaction of theirs into the journal (`journalled = "other"`), `OthersSettle` takes whatever is settled
out of it, also the bridge's own that timed out; `elsewhere` is history and says that the bridge was settled so after its treasury was read.
`revived` is history too: a restart read back an alert of a streak that a success had ended.


## 3. The runs

Figures are from two workers on four cores.

| Run | Instance | Properties | Distinct states |
| --- | --- | --- | --- |
| `pool` | 12 hours, pauses of 1 to 4, holds of 1 to 3, gap 2; three prices, one position, three events of the market; three ranges, five prices, epochs of 2, a limit of 5 outside, a cooldown of 4 | `HoldIsBounded` `ReuseGap`; `SafetyAvailable` `OwnShareOnly` `AdjustmentSound`; `MovedForCause` `LeftRangeMoved` | 123 thousand |
| `pause_extension` | the pause alone | `NoActiveInflowExtension`, violated | |
| `hedge_pause` | the hedge alone | `PauseStopsOpeningsOnly`, violated | |
| `keeper_io` | three processes with one attempt each, any of them may crash; three endpoints, one of another chain, one that lies; chains of three blocks with one fork | `ImplementsMutex` `RecoversFromCrashes`; `TrustedSource` `ReadRecovers` `NotNeededIsTrue` `FeeBounded` | 404 thousand |
| `journal` | a DN keeper and a bridge keeper, three endpoints of which one lies, two intents, one crash, fees 1 to 3 | `UnresolvedIsJournalled` `ReceiptIsMined` `JournalKept` `JournalSettles` | 322 thousand |
| `deposit_queue` | three users, amounts 1 and 2, six slots; a keeper, two requests, two faults | `QueueSound` `ReserveCovered` `PlaceNeverWorsens` `ImplementsBook` `EveryRequestLeaves`; `RefundJustified` `HeadLeaves` | 164 thousand |
| `deposit_order` | four users, amount 1 | `OldestFirst`, violated | |
| `vault` | two users, one gain, one fee, slippage 1, open or exit-only | `CustodyBacked` `ExitNeverBlocked` `NoDilution` | 312 thousand |
| `progressive` | sides up to 3, chunks of 1, two ratios, a loss of 1 for each swap, one move | `LockHeldForCycle` `TurnoverCapped` `MintsBalanced` `NoSwapBack` `CycleEnds` | 284 thousand |
| `treasury` | two pools, three actors, two inflows, four ticks of time | `IInv` `DailyCapHolds` `ConversionVolume` | 286 thousand |
| `fee_outlier` | three endpoints, one that lies | `LoneOutlierRejected`, violated | |
| `keepers` | a run of two chunks, one crash; two treasuries, one restart | `SafetyFirst` `LoopServes`; `AmountIsCurrent` `IncidentReported` | 282 thousand |

What the properties say:

* `HoldIsBounded`, `ReuseGap`: however the Safe chains holds, resumes and expiries, withdrawals are never held longer than one maximal
  hold without a break, and stay open for a recovery window between two.
* `OwnShareOnly`: whoever leaves takes no idle token that belongs to those who stay, although the flash loan is repaid from the same balances.
  `SafetyAvailable`: a repair goes through whenever the health factor is below the trigger and the collateral can pay for it, at the
  oracle's price or at the bound, and an exit from a position above the floor settles.
  `AdjustmentSound`: an adjustment moves the short towards the position's token 0 and not past it, borrows nothing when the position has no
  token 0, and changes the debt in the cooldown only in a critical drift; finishing a recorded inventory correction never changes the debt.
* `MovedForCause`: within the cooldown of its own mint a range is moved only when it was found half a width outside or has been seen left
  for the limit itself; no clock of an earlier range counts against it, however that range ended. `LeftRangeMoved`: a range that the
  price has left for good is replaced although its score never suffices.
* `ImplementsMutex`: any two attempts exclude each other, and each ends. Two recuperators that judged the same dead owner do not remove a
  lock that a third has taken since; the run needs three attempts for that, so three is the least bound that shows it.
  `RecoversFromCrashes`: what dead processes left in the directory does not keep the last attempt from the lock.
* `UnresolvedIsJournalled`: what may still be mined is in the journal, so a restarted keeper never signs a second action beside it; two
  intents are needed for a second action and a crash for a restart. `ReceiptIsMined`: one wrong endpoint cannot make a keeper
  report an action that was not executed. `JournalKept`: the journal is emptied only when its nonce is used. `JournalSettles`: it is
  always emptied in the end, whichever keeper left it, once its nonce is the next one or earlier.
* `QueueSound`: the index finds every record and every slot out of use is clear, which a comment in the code's assembly relies on.
  `EveryRequestLeaves`: only a vault that is locked again and again, or for good, keeps a request waiting.
  `PlaceNeverWorsens`: the swap that fills a hole lets the last request overtake but puts nobody back. Six slots are enough for three users
  to meet the moved head, the hole in the middle and the reset in any order.
* `CustodyBacked`: shares sum to the total, and the queue's tokens are there whatever the vault spends. `NoDilution`: nobody's deposit,
  withdrawal, refund or recovery lowers the value of a share somebody else keeps. `ExitNeverBlocked`: for anybody entitled to
  a withdrawal or a recovery every check passes, no arithmetic reverts and no more is paid than is there. Part of
  `CustodyBacked` is `FeesCovered`: no more fees are credited than were distributed, and no fee debt exceeds what its shares accrued.
* `LockHeldForCycle`: the vault is locked, and has no position, from a cycle's burn to its mint, and every other lock is one the Safe took itself: no order of
  chunks, refreshes, cancellations and unlocks leaves holders locked out or lets them in between swaps.
  `TurnoverCapped`: chunks, retargets and reversals together swap no more than the assets granted. `MintsBalanced`: whatever happened
  in between, what is minted fits its range to within the tolerance, one unit of a ratio's precision and the loss of the last swap. `NoSwapBack`: a chunk never makes the opposite swap necessary,
  although ratios are rounded. `CycleEnds`: a cycle ends, or its cap or its assets are used up (`v0 + v1 = 0`,
  RangeManager.sol:501), in which case the Safe must step in.
* Treasury's `IInv`: a pool's budget is exactly four fifths of five percent of all it brought in, plus gifts, less what its own actors
  were paid; a part of it is that totals are the sums over sources, on which withdrawals rely. `ConversionVolume`: in any period as long as the
  window a source sells no more than two windows hold; the run reaches more than one, so the factor two is needed.
* `TrustedSource`: nothing is read from another chain, although flags are of earlier attempts, and a critical read has an honest source.
  `ReadRecovers`: a flag left by an old failure hides an endpoint that works from one call, never from two in a row.
  `NotNeededIsTrue`: that a repair is not needed is believed only if two sources say so of a recent block of an honest chain, whatever
  one endpoint says and however the chain reorganises. `FeeBounded`: when a quorum quotes, one crooked quote does not move the gas limit,
  the maximal fee or the legacy price, whichever decides, more than a quarter above what honest endpoints quote for the same, nor the fee taken from a common block
  beyond five base fees. The fallback of the finding and a sole survivor, of which the
  code asks less on purpose, are outside of it.
* `RefundJustified`: a keeper gives up only the head that reverted three times over ten minutes while admission was open, whatever others do
  to the queue in between, and restarts and unanswered calls count for nothing. `HeadLeaves`: a head that nobody can process does not stay.
* `SafetyFirst`: no chunk or decision is signed while a repair is known to be due, and none on a plan older than the keeper's own last
  transaction. `LoopServes`: a repair that stays due is tried, in the middle of a run as well, and no run keeps the loop for ever.
* `AmountIsCurrent`: what is bridged or forwarded is the balance after the conversions of that pass and after all the bridge keeper sent before. The exception is part
  of the property: if a pool keeper of the signer settled the earlier bridge while this call waited for the lock, the journal is empty and the old amount is
  prepared; what refuses it is the estimate inside the lock, and the Treasury. `IncidentReported`: failures that go on are really sent as a report, at most once more
  for each restart, and whatever files could not be written; the exception is a streak after a restart that read back the alert of an older one.

### Bounds

The bounds are constants of the modules and their comments call them so. `MaxTime`, `Horizon`: the clock. `MaxIntents`, `MaxInflows`,
`Requests`, `Chunks`, `Conversions`: work to do. `MaxCrashes`, `MaxRestarts`, `MaxFaults`, `MaxForks`, `MaxEvents`, `MaxMoves`: what may go
wrong or change. `MaxFee`, `MaxHeight`, `MaxLength`, `MaxSide`, `MaxYield`, `MaxSlip`, `MaxLoss`, `Ratios`, `HonestGas`, `HonestTips`, `HonestPrices`, `AnyQuotes`, `Endowment`, `MinPolls`, `MaxPolls`:
ranges of values. `FeeCap`, `MaxAge`, `MaxStale`, `MaxHf`, `MaxShrinks`, `AlertAfter` are limits of the code itself with smaller values: the code
allows 2 stale plans, 2 repairs and 256 smaller chunks in a run, and reports after 3 failures by default. Precisions are scaled down (`Scale`,
`FeeUnit`, `PctUnit`, `Unit`), so that rounding happens in small numbers.

* A longer clock than twelve hours shows no new order of the four deadlines of PauseController, since the longest of them is six.
* The hedge has a position of 1500 token 0, worth 1200 to 1800 at the three prices, an exit of a third, interest that leaves crumbs and a
  gift to a balance: each by itself is where a formula of the code may slip. Three events let the position drift beyond each threshold and back.
  `SafetyAvailable` asks a little more than the code's floor of an exit (`Floor + 1`, and a debt worth `Crumbs`): with the default operational
  buffer of zero a partial exit rebuilds the reserve to exactly the floor, and the rounding of shares may make it revert until the next try.
  `Crumbs` is 1100 of those 1200 to 1800, close to the least that `RoundingAssumption` admits with these prices and so few digits.
* The engine has three ranges of which neighbours overlap, and five prices: deep inside a range, near its edge, just outside, far enough to
  confirm an exit, and half a width away. The limit outside (`MaxOut`) is longer than two epochs and than the cooldown, so a clock crosses
  several decisions and cycles; `Centers` and `Ticks` are the bounds.
* Each half of a conjunction such as `LoopServes` or `CustodyBacked` has a mutant of its own.
* The Treasury's run converts at the oracle's price (`SlippageBps` is zero there; the proofs hold for any value). Its horizon covers a
  change of day, of epoch and of conversion window.
* `vault` explores `open` and `exit`, in which the Safe may burn the position and the cooldown is waived; a hold only disables
  `Withdraw` in the model and is not enumerated. Amounts of 2 and an endowment of 2 let each user be in the queue twice or hold
  shares and a request.
* `journal` has one crash and two intents for two keepers: the second intent meets the journal of the first, before or after its owner
  died. A fee of 3 is only open to a repair, so a repair can displace an ordinary transaction that is at its cap.
* `keeper_io` has an endpoint for each way to be wrong and one that is honest; with two honest ones and no liar reads only get easier.
* `keepers` gives each loop two rounds of what it repeats, so that the state one leaves behind meets the next.

Symmetry is used where users are interchangeable, and only in runs without liveness properties.

### Fairness

* `keeper_io`: of the lock only: weak fairness of each attempt's next call. A running process keeps making its calls; a crashed one has none.
* `pool`: of the engine only: weak fairness of time; strong fairness of a checkpoint that finds another admissible range, and of
  an execution, which is possible right after it. Checkpoints and executions are open to anybody and paid for.
* `journal`: weak fairness of each keeper's calls (every read has a timeout), of mining some released transaction, and of the honest
  endpoints' following the chain; strong fairness of a poll that is heard, since an endpoint that works again and again answers at
  some time, and of an ordinary call that gets the lock and recovers. Nothing is assumed of the wrong endpoint or of crashes.
* `deposit_queue`: weak fairness of time, and of processing or refunding a head while the vault stays unlocked (`KeepersServe`). The contract lets anybody
  refund a matured head under the lock too, but the keepers look for one only while the vault is unlocked and handle an open cycle first, and a cycle that needs
  the Safe may last for ever; so nothing is assumed while the vault is locked. Of the keeper: weak fairness of its next step, of time and of mining its refund; strong fairness of
  the look for a blocked head, which each cycle takes first.
* `progressive`: weak fairness of time, of the market's return to the oracle's price and of the exit-only cancellation;
  strong fairness of a checkpoint with an admissible range, of the refresh of an open cycle, of a chunk and of finalize. Keepers poll all the time
  and an epoch lasts as long as many of their transactions, so an action that is possible again and again is taken at some time. The
  Safe is not assumed to act except where exit-only leaves nobody else.
* `keepers`: weak fairness of the keeper's next step in each loop; strong fairness of the answers of the health-factor lane, of
  signing a repair, and of writing the alert file for each treasury: what may succeed now and then does at some time.

### Findings

* `hedge_pause`: while the hedge is paused an adjustment that has to borrow reverts (`_increaseEffectiveShort`, AaveHedgeManager.sol:67), though the comment at
  AaveHedgeManager.sol:911-913 says that the pause blocks `supplyAndBorrow` only and `adjustHedge` remains available. In the trace a repair leaves the short below
  the position's token 0, the Safe pauses, and the hedge cannot be brought back.
* `pause_extension`: a withdrawal hold moves the end of a running inflow pause, while docs/SECURITY.md:31 excludes an active extension.
* `deposit_order`: a recovery from the middle moves the youngest request in front of older ones, while docs/KEEPER-GUIDE.md:73 and a
  comment at MultiUserVault.sol:444 say first in, first out. That nobody loses a place is true and is `PlaceNeverWorsens`.
* `fee_outlier`: the comments of `rpc-fee-consensus.js` say that a lone outlier never decides. When the quorum at one block fails and the
  common fresh block is used instead, it can decide the gas limit.

Observations made while modelling, which no run states as a finding:

* A bridge keeper that replaces a journalled transaction does not copy its `feeCapExempt`.
* When a repair preempts and only a lying endpoint answers, it can be signed for a nonce of the future; the journal then waits for
  transactions that nobody sends. `JournalSettles` excludes this by its precondition. An urgent call whose preparation fails every time
  never gets to the journal's recovery.
* The last error of one endpoint can keep a pool keeper from replacing a fee that the others would have accepted. The priority
  fee and the maximal fee are corroborated separately, so that they need not fit together.
* `DepositRecovery`: a reset by a deferral is not written to the file, so a restart brings the old counters back; a refund that is
  mined late can meet a newer request of the same depositor if that one has matured as well (deposit-refund-recovery.js:151);
  `stateMayHaveChanged` looks for `broadcast tx:` where `rpc.js` writes `(signed tx: ...)`.
* The DN keeper's README:31 says that each cycle simulates `repairHealthFactor`; the code skips this in the mode that only repairs.
* `BridgeCycle`: bounty and cooldown are read before the conversions and not again. A success that could not be written, or came just before a crash, lets an
  old series of failures come back after a restart with its `alerted` flag, and then a new incident is not reported (keeper.js:953) until a success is
  written: `IncidentReported` has it as its exception. When a pool keeper settles the bridge's journalled transaction, nothing tells the waiting bridge call
  that its amount is of before; only the estimate inside the lock does.

## 4. The proofs

Eight modules hold theorems; `tlapm` checks each from nothing. They hold for all values of the constants that satisfy the
assumptions named in the modules, which TLC evaluates in the runs. The bounds are parts of the models and are arbitrary in the proofs.
Most are types, the order of limits the code fixes, and at least three endpoints. Three are more: `TreasuryAssumption` has a cooldown wherever a conversion is limited, which
`validatePublicConversion` demands of a configuration (AutonomousRevenueLib.sol:722), and a first timestamp within the horizon; `RoundingAssumption` says which
debts `SafetyAvailable` speaks of: those large against what rounding adds to a purchase and to a share, which for any prices and rates is every `Crumbs` from
some value on, as long as a loan's estimated cost is not above the floor (the threshold is below one, the floor above), premium times
slippage is below one percent, which the estimate has in reserve, and the operational target is below the health factor of an account without debt; and in several
modules at most one endpoint lies (`Faulty`, `Lying`, `Crooked`, `Deceptive`), which is what the keepers' quorums of two can stand.

Each component has an invariant that is inductive, named in the module it is about. TLC checked every one of them on the run's
instance before it was proved; only some stay in the configurations. What makes them inductive is the actual argument:

* `SumProofs` has no theorem of its own. Sums over sets are folds, about which induction would be needed; instead the library's
  well-founded orderings give a smallest counterexample (`LeastNat`, `SmallestSet`), from which follow that a sum takes one element at a
  time (`SumTake`) and how it changes when one or two terms change (`SumChange`, `SumMove`), splits and compares.
* `PoolProofs`, the pause (`IInv`): the bound on a hold alone is not inductive. What is left of a hold must fit in the bound
  (`HeldWithinPause`), and the next hold must be booked beyond the window counted from the moment withdrawals reopen (`GapBooked`,
  `GapReserved`). `HoldIsBounded` and `ReuseGap` follow, and `HoldStopsInflows`: nobody is let in while nobody can leave.
* `PoolProofs`, the engine (`EngineInv`): the contract's two timestamps never claim more than the history (`ClocksTrue`), a position
  that is minted starts with the clock stopped (`MintsStopped`), and a decision that may still be executed keeps its cause (`CauseHolds`). `MovedForCause` follows for any prices and widths.
* `PoolProofs`, the vault (`VaultInv`): the shares add up (`SharesAdd`), the queue is funded, and `FeesSound`. Credits are rounded down at
  each settlement, so the sum of credits is not inductive; the claims counted before any division are (`Claims`): what each user was
  credited and has accrued since, in units of the accumulator, is at most what was distributed. `CustodyBacked` follows, for any number of users, across recoveries and
  new share bases. `NoDilution` compares products: those who stay keep their value because each mint and each exit is rounded in their favour
  (`MintFair`, `LeaveFair`), whatever a withdrawal's slippage takes. `ExitNeverBlocked` rests on all parts of `VaultInv`: the subtraction of a fee
  debt is covered by `FeesSound`, the share of a withdrawal by `SharesAdd` (`WithdrawalCovered`), and what a recovery takes, from two
  contracts and past the queue's reserve, by both (`RecoveryCovered`).
* `PoolProofs`, the hedge (`HedgeTypeOK`): that balances stay natural numbers is what the handlers must ensure in each subtraction, and
  TLC found no step that a further conjunct would be needed for. A settlement is proved by parts: rounding down lets nobody take more than there is
  (`PartBounds`), and what is drawn for a purchase covers its cost (`DrawableBounded`, `FlashLeg`, `FullSettlement`). `OwnShareOnly` follows from the same
  bounds (`ShareKept`). An adjustment is three lemmas in a row, one for the plan of the inventory (`Planned`), one for what the plan leaves of
  the gap (`Used`), one for the borrowing or repayment that closes it (`Executed`); `AdjustmentSound` puts them together.
* `PoolProofs`, what stays open (`SafetyAvailable`): a fact about every typed state, so `HedgeTypeOK` is the invariant; the argument is about rounding.
  A purchase costs at most its value with premium and slippage plus a constant (`PurchaseBound`), and the code estimates it one percent
  higher (`CostEstimated`). For an exit, the leaver's collateral then pays for the leaver's debt (`ShareBought`), and rounding both shares
  takes from those who stay less than the one percent above the floor (`ShareLeft`). For a repair, two values must agree: the estimate counts what remains of
  the debt by the share repaid, Aave by the balance (`RestWorth`, `PartRepaid`). What the loan repays then lowers the collateral Aave
  asks for enough that the rest may be drawn (`FlashFits`), and the oracle's bound on the purchase is within it (`RepairBought`), so the
  callback is paid (`FlashPays`) and the account ends at the operational target (`FlashSuffices`, `DirectSuffices`, `Healed`).
* `KeeperUtilsProofs`, the lock: the argument runs over one claimant. A link count of two, read while the lock path still names the inode, means
  that no other claim exists (`SingleClaimant`); what was opened and judged dead is therefore still at the path when it is unlinked
  (`StillThere`, `Judged`); hence an owner has the file (`OwnerHasFile`) and there is one owner (`MutualExclusion`). `LockNotStolen` and
  the refinement of `SignerMutex` follow for any number of attempts and processes.
* `KeeperUtilsProofs`, the reads: `RpcInv` says what a flag still tells of its endpoint (`ChainsTold`) and that whoever is left out will be tried
  before a second call ends (`FlagsLeft`, by counting endpoints against attempts); `TrustedSource` and `ReadRecovers` follow for any number of
  endpoints and retries. `FeeBounded` has no history: of any three quotes or more with one crooked, the chosen ones are
  supported by an honest one. `SnapshotInv` says that what an honest source answered was true of a block of the chain at the time
  (`HeadersLag`, `ValuesTell`) though the chain may have been reorganised; `NotNeededIsTrue` follows.
* `SignerJournalProofs` (`IInv`): who does not hold the lock is nowhere near the file (`IdleIsFree`), who does works on the transaction in it
  (`WorksOnJournal`), clears only a settled one (`ClearsSettled`) and writes only a successor (`WritesSuccessor`). With it
  `UnresolvedIsJournalled` is inductive for any processes, endpoints, fees and crashes. `ReceiptIsMined` and `JournalKept` follow, and
  `ExecutedOnce`: no intent is mined twice, because it keeps one nonce through every retry, replacement and restart.
* `DepositQueueProofs`: `QueueSound` with the types is inductive for any number of slots and users; each removal is proved once as a
  lemma and used by the three actions that remove. `PlaceNeverWorsens`, the refinement of `DepositBook` and, with the sums,
  `ReserveCovered` follow.
* `ProgressiveRebalanceProofs`: types, the lock as a cycle's or the Safe's own, and `turnover + cycleBudget = granted` are inductive for any cap, margin and
  number of moves. `TurnoverCapped` follows from it. The type invariant is not shallow: budgets stay natural numbers under subtraction.
  `NoSwapBack` compares products: a sale of what is in excess stays a sale and a purchase a purchase (`SaleStays`, `PurchaseStays`), although the
  ratio after the swap is rounded again. For `MintsBalanced` the precision of a ratio and the loss of a swap are part of the statement (`Fits`): what
  would still have to be swapped after the last swap is bounded by the tolerance and those two (`SaleFits`, `PurchaseFits`). Inductive is that
  outside of a cycle the balances fit, position or not, unless the pool is exit-only (`RestFits`).
* `TreasuryProofs` (`IInv`): types, exact budgets, held reserves, the books, current daily sums, a sound pause and sound windows. A receipt
  splits into the Treasury's own and a pool's case; that carried fractions make any split exact is a lemma about integer division, cited
  by every operator that credits. Spending is decided by the same comparisons the library makes. `DailyCapHolds` follows from
  the daily sums. `ConversionVolume` speaks of any period as long as a window, while the library
  stores only the sum since the window began: the invariant (`WindowsSound`) relates that sum to the sales by tick, and a period meets at
  most two windows.
* `KeeperProofs`, the bridge (`BridgeInv`): the amount held was read after the last transaction was mined, or it is still in the journal and the call
  that sends will find it, or another keeper of the signer has settled it (`CurrentOrFound`); a report is remembered until a restart (`ReportsRemembered`). `AmountIsCurrent`
  and `ReportedOnce` follow.
* `KeeperProofs`, the pool's loop (`CycleInv`): where a place in the loop implies that no repair was known to be due (`KnownFine`, `ReturnKnown`), and that a simulation
  is fresh or a late transaction will stop it (`StillFresh`). `SafetyFirst` follows for any retries, chunks and crashes.
* `KeeperProofs`, the refunds (`RecoveryInv`): the keeper's counters and those in its file never exceed what happened to the head
  they are of (`Supported`). That alone is not inductive: the next revert may count for the keeper and not for the head, unless the
  head's last one is at least as old, which is needed only while both counts are equal and below the limit. `RefundJustified` follows for any spacing, span and number of reverts.

Only model-checked is liveness, for which the prover has no rules: `RecoversFromCrashes`, `JournalSettles`, `EveryRequestLeaves`, `HeadLeaves`, `CycleEnds`,
`LeftRangeMoved`, `LoopServes` and `IncidentReported`. Every invariant and every action property of the runs is proved.

## 5. Not modelled, and the plan

Done, in this order: pause, lock, journal, queue, shares and custody, progressive rebalance, Treasury, with a proof module after each where
the invariant was within reach; then the pool keepers' side of the journal, their reads, the consensus of fees and snapshots,
the refund recovery, the keepers' loops, the bridge's loop, the hedge and the engine. The order followed what can lose or block money.

Next:

1. `ProgressiveRebalance` takes its decisions from a free choice of `canon` and `age`; a refinement by `RangeStrategyEngine` is to replace it. The
   hedge decisions of the DN engine, with their confirmation over several epochs.
2. The relay of SecureBotModule with its daily counter, as far as it is not part of a cycle.
3. `SwapTreasury` over `RevenueBook`; the registry with a paginated reader.
4. Larger instances: the journal with two DN keepers; the UNI keeper's loop as an instance of `KeeperCycle` without the lane.

Left out for good: the forecast and the scoring of ranges, tick and liquidity arithmetic, oracle decimals (numeric code without states to
explore); reads without state such as SequencerCheckedAggregator, whose refusal is an action not taken; deployment and
ownership transfers, which end when an installation is sealed; formatting, alerts and logs.

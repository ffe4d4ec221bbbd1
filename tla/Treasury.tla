------------------------------ MODULE Treasury ------------------------------
(***************************************************************************)
(* The Treasury of a chain, shared by its pools: commissions come in from     *)
(* the vaults and managers of the registered sources, anybody converts them   *)
(* to USDC in bounded tranches and sends USDC to the terminal treasury, the   *)
(* company withdraws, and the pools' contracts pay bounties to keepers.       *)
(*                                                                           *)
(* The configuration is the sealed one: amounts, caps, cooldowns, sources and *)
(* the roles of their contracts are constants. A fee token trades at the      *)
(* oracle's price, one, or below it by no more than the slippage allowed. The *)
(* Safe's pause stops conversions, bridging and forwarding.                   *)
(***************************************************************************)
EXTENDS RevenueBook

CONSTANTS
  Actor,             \* the contracts of the pools that may call the Treasury
  SourceOf,          \* the pool of each actor
  RoleOf,            \* what each actor is paid for
  Keeper,
  Amount,            \* sizes of a transfer
  Chunk,             \* sizes of a conversion
  Bounty, Cap,       \* of each role: the bounty and its cap for one day
  DepositCooldown, DepositKeeperCooldown,
  BridgeBounty, BridgeMinRatio, BridgeCooldown,
  MaxInput, MinUsdc, Cooldown, SlippageBps,   \* the rules of a conversion
  DayLength, EpochLength,
  MinPause, MaxPause, PauseGap,
  Genesis,           \* the time of deployment, later than every cooldown
  Horizon,           \* bound: the last time considered
  MaxInflows         \* bound: transfers to the Treasury

Role == {"keeper", "hedge", "checkpoint", "deposit"}

ASSUME TreasuryAssumption ==
  /\ SourceOf \in [Actor -> Pool]
  /\ RoleOf \in [Actor -> Role]
  /\ Amount \subseteq Nat \ {0}
  /\ Chunk \subseteq Nat
  /\ Bounty \in [Role -> Nat]
  /\ Cap \in [Role -> Nat]
  /\ DepositCooldown \in Nat
  /\ DepositKeeperCooldown \in Nat
  /\ BridgeBounty \in Nat
  /\ BridgeMinRatio \in Nat
  /\ BridgeCooldown \in Nat
  /\ MaxInput \in Nat
  /\ MinUsdc \in Nat
  /\ Cooldown \in Nat /\ (MaxInput # 0 => Cooldown # 0)
  /\ SlippageBps \in 0 .. BPS
  /\ DayLength \in Nat \ {0}
  /\ EpochLength \in Nat \ {0}
  /\ MinPause \in Nat
  /\ MaxPause \in Nat
  /\ PauseGap \in Nat
  /\ Genesis \in Nat
  /\ Horizon \in Nat /\ Genesis <= Horizon
  /\ MaxInflows \in Nat

VARIABLES
  clock,           \* block.timestamp
  balance,         \* tokens the Treasury holds
  book,            \* _revenue, its conversions and deposit limits apart
  windows,         \* _revenue.conversions
  limits,          \* of each actor: the day, the sum paid on it and the last epoch paid
  depositAt,       \* of each vault: its last deposit bounty
  depositKeeperAt, \* the same for each keeper
  bridgedAt,       \* lastBridgeBountyAt
  pause,           \* _distributionsPaused and guardianDistributionPauseUntil
  nextPauseAt,     \* nextDistributionPauseAt
  inflows,         \* transfers received, for the bound
  today,           \* history: what each actor's calls paid since the day began
  sold             \* history: what each source converted at each time

Time == Genesis .. Horizon

deadlines == <<limits, depositAt, depositKeeperAt, bridgedAt>>
history   == <<today, sold>>
pausing   == <<pause, nextPauseAt>>
vars      == <<clock, balance, book, windows, limits, depositAt, depositKeeperAt,
               bridgedAt, pause, nextPauseAt, inflows, today, sold>>

Init ==
  /\ clock = Genesis
  /\ balance = [t \in Token |-> 0]
  /\ book = EmptyBook
  /\ windows = [s \in Source |-> [t \in FeeToken |-> [started |-> 0, spent |-> 0]]]
  /\ limits = [a \in Actor |-> [day |-> 0, spent |-> 0, epoch |-> 0]]
  /\ depositAt = [a \in Actor |-> 0]
  /\ depositKeeperAt = [a \in Actor |-> [k \in Keeper |-> 0]]
  /\ bridgedAt = 0
  /\ pause = [on |-> FALSE, until |-> 0]
  /\ nextPauseAt = 0
  /\ inflows = 0
  /\ today = [a \in Actor |-> 0]
  /\ sold = [s \in Source |-> [t \in FeeToken |-> [u \in Time |-> 0]]]

DistributionsPaused == pause.on /\ clock < pause.until
Day   == clock \div DayLength
Epoch == clock \div EpochLength

(***************************************************************************)
(* Receipts.                                                                 *)
(***************************************************************************)
CountInflow == inflows < MaxInflows /\ inflows' = inflows + 1

(* A plain transfer, which the Treasury does not notice. *)
Donate(t, amount) ==
  /\ CountInflow
  /\ balance' = [balance EXCEPT ![t] = @ + amount]
  /\ UNCHANGED <<clock, book, windows, deadlines, pausing, history>>

RecordRevenue(a, t, amount) ==
  /\ CountInflow
  /\ balance' = [balance EXCEPT ![t] = @ + amount]
  /\ book' = Receive(Synced(book, balance, t), SourceOf[a], t, amount)
  /\ UNCHANGED <<clock, windows, deadlines, pausing, history>>

SyncRevenue(t) ==
  /\ book' = Synced(book, balance, t)
  /\ UNCHANGED <<clock, balance, windows, deadlines, pausing, inflows, history>>

(* The native fees received so far become a fee token and are counted. *)
WrapNativeFees(t, amount) ==
  /\ CountInflow
  /\ balance' = [balance EXCEPT ![t] = @ + amount]
  /\ book' = Synced(book, balance', t)
  /\ UNCHANGED <<clock, windows, deadlines, pausing, history>>

FundBounties(s, amount) ==
  /\ CountInflow
  /\ balance' = [balance EXCEPT ![Usdc] = @ + amount]
  /\ book' = Fund(Synced(book, balance, Usdc), s, amount)
  /\ UNCHANGED <<clock, windows, deadlines, pausing, history>>

(***************************************************************************)
(* Conversions, each source and token with a budget for a window of time.    *)
(***************************************************************************)
ConversionRemaining(s, t) ==
  LET w == windows[s][t]
  IN  IF clock >= w.started + Cooldown THEN MaxInput
      ELSE IF MaxInput > w.spent THEN MaxInput - w.spent ELSE 0

(* Mutant: a window that is over is emptied but not started again. *)
Consumed_NotRestarted(s, t, amount) ==
  LET w == windows[s][t]
  IN  IF clock >= w.started + Cooldown THEN [w EXCEPT !.spent = amount]
      ELSE [w EXCEPT !.spent = @ + amount]

Consumed(s, t, amount) ==
  LET w == windows[s][t]
  IN  IF clock >= w.started + Cooldown THEN [started |-> clock, spent |-> amount]
      ELSE [w EXCEPT !.spent = @ + amount]

(* The oracle's minimum for the USDC bought. *)
Floor(amountIn) == (amountIn * (BPS - SlippageBps)) \div BPS

(* b is the book after the entry point has synchronised what it does. *)
ConvertSource(b, s, t, amountIn) ==
  /\ ~DistributionsPaused
  /\ 0 < amountIn
  /\ amountIn <= ConversionRemaining(s, t)
  /\ Floor(amountIn) >= MinUsdc
  /\ MayConvert(b, s, t, amountIn)
  /\ \E amountOut \in {Floor(amountIn), amountIn} :
       /\ book' = Converted(Synced(b, balance, Usdc), s, t, amountIn, amountOut)
       /\ balance' = [balance EXCEPT ![t] = @ - amountIn, ![Usdc] = @ + amountOut]
  /\ windows' = [windows EXCEPT ![s][t] = Consumed(s, t, amountIn)]
  /\ sold' = [sold EXCEPT ![s][t][clock] = @ + amountIn]
  /\ UNCHANGED <<clock, deadlines, pausing, inflows, today>>

Least(m, n) == IF m <= n THEN m ELSE n

(* convertSourceFeeChunk; with all there is, convertFeesToUSDC. *)
ConvertChunk(s, t) ==
  LET b   == IF s = Root THEN Synced(book, balance, t) ELSE book
      all == Least(b.pending[s][t], ConversionRemaining(s, t))
  IN  \E amountIn \in Chunk \cup {all} : amountIn <= all /\ ConvertSource(b, s, t, amountIn)

(* convertSourceFeesToUSDC counts nothing of t first, but offers what the    *)
(* Root has not counted yet.                                                 *)
ConvertSourceFees(s, t) ==
  LET uncounted == IF s = Root THEN balance[t] - book.accounted[t] ELSE 0
  IN  ConvertSource(book, s, t, Least(book.pending[s][t] + uncounted, ConversionRemaining(s, t)))

(***************************************************************************)
(* Money that leaves.                                                        *)
(***************************************************************************)
PaidOut(amount) == [balance EXCEPT ![Usdc] = @ - amount]

AdminWithdraw ==
  LET b == Synced(book, balance, Usdc)
  IN  /\ \E amount \in Amount \cup {b.accounted[Usdc] - b.totalReserve} :
           /\ MayDebit(b, amount)
           /\ book' = Debit(b, amount)
           /\ balance' = PaidOut(amount)
      /\ UNCHANGED <<clock, windows, deadlines, pausing, inflows, history>>

(* What bridging and forwarding have in common: b is the book after the sync. *)
MaySettle(b, amount) ==
  /\ ~DistributionsPaused
  /\ 0 < amount
  /\ amount <= Distributable(b, balance)
  /\ amount <= b.accounted[Usdc]

ForwardRevenue ==
  LET b == Synced(book, balance, Usdc)
  IN  /\ \E amount \in Amount \cup {Distributable(b, balance)} :
           /\ MaySettle(b, amount)
           /\ book' = Debit(b, amount)
           /\ balance' = PaidOut(amount)
      /\ UNCHANGED <<clock, windows, deadlines, pausing, inflows, history>>

(* _payBridgeBounty skips the bounty silently when a condition fails. *)
EarnsBridgeBounty(b, amount) ==
  /\ BridgeBounty > 0 /\ BridgeCooldown > 0 /\ BridgeMinRatio > 0
  /\ clock >= bridgedAt + BridgeCooldown
  /\ amount >= BridgeBounty * BridgeMinRatio
  /\ b.reserve[Root] >= BridgeBounty

BridgeRevenue ==
  LET b == Synced(book, balance, Usdc)
  IN  /\ \E amount \in Amount \cup {Distributable(b, balance)} :
           /\ MaySettle(b, amount)
           /\ \/ /\ EarnsBridgeBounty(b, amount)
                 /\ MaySpend(Debit(b, amount), Root, BridgeBounty)
                 /\ book' = Spend(Debit(b, amount), Root, BridgeBounty)
                 /\ balance' = PaidOut(amount + BridgeBounty)
                 /\ bridgedAt' = clock
              \/ /\ ~EarnsBridgeBounty(b, amount)
                 /\ book' = Debit(b, amount)
                 /\ balance' = PaidOut(amount)
                 /\ UNCHANGED bridgedAt
      /\ UNCHANGED <<clock, windows, limits, depositAt, depositKeeperAt, pausing, inflows, history>>

(***************************************************************************)
(* Bounties.                                                                 *)
(***************************************************************************)
(* Mutant: the sum starts again with every bounty. *)
SpentToday_Stale(a) == IF limits[a].day <= Day THEN 0 ELSE limits[a].spent

SpentToday(a) == IF limits[a].day = Day THEN limits[a].spent ELSE 0

(* Mutant: the bounty is paid from the shared budget. *)
PayBounty_FromRoot(a) ==
  LET b == Synced(book, balance, Usdc)
      amount == Bounty[RoleOf[a]]
  IN  /\ amount <= balance[Usdc]
      /\ MaySpend(b, Root, amount)
      /\ book' = [Spend(b, Root, amount) EXCEPT !.paid = [book.paid EXCEPT ![SourceOf[a]] = @ + amount]]
      /\ balance' = PaidOut(amount)
      /\ today' = [today EXCEPT ![a] = @ + amount]

(* _spendBounty and the transfer to the keeper. *)
PayBounty(a) ==
  LET b == Synced(book, balance, Usdc)
      amount == Bounty[RoleOf[a]]
  IN  /\ amount <= balance[Usdc]
      /\ MaySpend(b, SourceOf[a], amount)
      /\ book' = Spend(b, SourceOf[a], amount)
      /\ balance' = PaidOut(amount)
      /\ today' = [today EXCEPT ![a] = @ + amount]

(* A cap of zero means no cap, except for checkpoints. *)
WithinDailyCap(a) ==
  \/ Cap[RoleOf[a]] = 0 /\ RoleOf[a] # "checkpoint"
  \/ SpentToday(a) + Bounty[RoleOf[a]] <= Cap[RoleOf[a]]

ConsumeDailyLimit(a, epoch) ==
  /\ WithinDailyCap(a)
  /\ limits' = [limits EXCEPT ![a] = [day   |-> Day,
                                      spent |-> SpentToday(a) + Bounty[RoleOf[a]],
                                      epoch |-> epoch]]

(* payKeeperBounty and payHedgeBounty. *)
PayActionBounty(a) ==
  /\ RoleOf[a] \in {"keeper", "hedge"}
  /\ ConsumeDailyLimit(a, limits[a].epoch)
  /\ PayBounty(a)
  /\ UNCHANGED <<clock, windows, depositAt, depositKeeperAt, bridgedAt, pausing, inflows, sold>>

PayStrategyCheckpointBounty(a) ==
  /\ RoleOf[a] = "checkpoint"
  /\ Epoch > limits[a].epoch
  /\ ConsumeDailyLimit(a, Epoch)
  /\ PayBounty(a)
  /\ UNCHANGED <<clock, windows, depositAt, depositKeeperAt, bridgedAt, pausing, inflows, sold>>

PayDepositBounty(a, k) ==
  /\ RoleOf[a] = "deposit"
  /\ clock >= depositAt[a] + DepositCooldown
  /\ clock >= depositKeeperAt[a][k] + DepositKeeperCooldown
  /\ ConsumeDailyLimit(a, limits[a].epoch)
  /\ PayBounty(a)
  /\ depositAt' = [depositAt EXCEPT ![a] = clock]
  /\ depositKeeperAt' = [depositKeeperAt EXCEPT ![a][k] = clock]
  /\ UNCHANGED <<clock, windows, bridgedAt, pausing, inflows, sold>>

(***************************************************************************)
(* The Safe's pause, and time.                                               *)
(***************************************************************************)
PauseRevenue(duration) ==
  /\ ~DistributionsPaused
  /\ clock >= nextPauseAt
  /\ pause' = [on |-> TRUE, until |-> clock + duration]
  /\ nextPauseAt' = clock + duration + PauseGap
  /\ UNCHANGED <<clock, balance, book, windows, deadlines, inflows, history>>

ResumeRevenue ==
  /\ DistributionsPaused
  /\ pause' = [on |-> FALSE, until |-> 0]
  /\ nextPauseAt' = clock + PauseGap
  /\ UNCHANGED <<clock, balance, book, windows, deadlines, inflows, history>>

Tick ==
  /\ clock < Horizon
  /\ clock' = clock + 1
  /\ today' = IF clock' \div DayLength = Day THEN today ELSE [a \in Actor |-> 0]
  /\ UNCHANGED <<balance, book, windows, deadlines, pausing, inflows, sold>>

Next ==
  \/ \E t \in Token, amount \in Amount : Donate(t, amount)
  \/ \E a \in Actor, t \in Token, amount \in Amount : RecordRevenue(a, t, amount)
  \/ \E t \in Token : SyncRevenue(t)
  \/ \E t \in FeeToken, amount \in Amount : WrapNativeFees(t, amount)
  \/ \E s \in Source, amount \in Amount : FundBounties(s, amount)
  \/ \E s \in Source, t \in FeeToken : ConvertChunk(s, t)
  \/ \E s \in Source, t \in FeeToken : ConvertSourceFees(s, t)
  \/ AdminWithdraw
  \/ ForwardRevenue
  \/ BridgeRevenue
  \/ \E a \in Actor : PayActionBounty(a)
  \/ \E a \in Actor : PayStrategyCheckpointBounty(a)
  \/ \E a \in Actor, k \in Keeper : PayDepositBounty(a, k)
  \/ \E duration \in MinPause .. MaxPause : PauseRevenue(duration)
  \/ ResumeRevenue
  \/ Tick

Spec == Init /\ [][Next]_vars

(***************************************************************************)
(* What must hold.                                                           *)
(***************************************************************************)
TypeOK ==
  /\ clock \in Time
  /\ balance \in [Token -> Nat]
  /\ IsBook(book)
  /\ windows \in [Source -> [FeeToken -> [started : Nat, spent : Nat]]]
  /\ limits \in [Actor -> [day : Nat, spent : Nat, epoch : Nat]]
  /\ pause \in [on : BOOLEAN, until : Nat]
  /\ nextPauseAt \in Nat
  /\ today \in [Actor -> Nat]
  /\ sold \in [Source -> [FeeToken -> [Time -> Nat]]]

(* The Treasury's own record of a day's bounties agrees with what it paid. *)
LimitsCurrent ==
  \A a \in Actor :
    /\ limits[a].day <= Day
    /\ today[a] = SpentToday(a)

(* A running pause ends soon and another one cannot follow it at once. *)
PauseSound == DistributionsPaused => /\ pause.until <= clock + MaxPause
                                     /\ nextPauseAt = pause.until + PauseGap

(* A window w, with the sales f of its source and token, at time c: it counts *)
(* what was sold since it started, nothing was sold after its end, and of     *)
(* what was sold before, no more than one window's worth is recent.          *)
Recent(c) == {u \in Time : u <= c /\ c < u + Cooldown}
Since(c)  == {u \in Time : c <= u}

WindowSound(w, f, c) ==
  /\ w.started <= c /\ w.spent <= MaxInput
  /\ SumFunctionOnSet(f, Since(w.started)) = w.spent
  /\ \A u \in Time : c < u \/ w.started + Cooldown <= u => f[u] = 0
  /\ SumFunctionOnSet(f, Recent(c) \ Since(w.started)) <= MaxInput

WindowsSound ==
  \A s \in Source, t \in FeeToken : WindowSound(windows[s][t], sold[s][t], clock)

(* The books add up over the sources: the total reserve is the sum of the    *)
(* budgets, what is counted of a fee token is what the sources have pending, *)
(* and the bridge budget is five percent of what came directly plus every    *)
(* pool's fifth. protectedBalance, withdraw and converted rely on it.        *)
BooksBalance == ReservesAdd(book) /\ PendingAdds(book)

(* The inductive invariant: the types; every pool's budget is exactly four   *)
(* fifths of five percent of all it ever brought in, plus gifts, less what   *)
(* its own contracts paid, however receipts were split, late or interleaved; *)
(* no reserve is spent twice or withdrawn; the books add up; the daily sums,  *)
(* the pause and the conversion windows.                                     *)
IInv ==
  /\ TypeOK
  /\ BudgetsExact(book)
  /\ ReservesHeld(book, balance)
  /\ BooksBalance
  /\ LimitsCurrent
  /\ PauseSound
  /\ WindowsSound

(* No contract's bounties of one day exceed its cap (consumeDailyLimit,      *)
(* payDeposit), whatever days it missed.                                     *)
DailyCapHolds ==
  \A a \in Actor : \/ Cap[RoleOf[a]] = 0 /\ RoleOf[a] # "checkpoint"
                   \/ today[a] <= Cap[RoleOf[a]]

(* Within any period as long as the conversion window, a source sells no     *)
(* more of a token than two windows hold (consumeConversion): the window is  *)
(* anchored at the first sale, so a period may meet the end of one window    *)
(* and the start of the next, and never three.                               *)
ConversionVolume ==
  \A s \in Source, t \in FeeToken :
    SumFunctionOnSet(sold[s][t], Recent(clock)) <= 2 * MaxInput
=============================================================================

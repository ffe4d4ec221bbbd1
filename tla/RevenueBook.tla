---------------------------- MODULE RevenueBook ----------------------------
(***************************************************************************)
(* The accounts of a Treasury (AutonomousRevenueLib.State): what it has      *)
(* counted of each token, which source each receipt belongs to, and the part *)
(* of every USDC receipt that is reserved for bounties. The operators take a *)
(* book and return the book after one operation of the library; a handler of *)
(* the Treasury applies several of them in one transaction.                  *)
(*                                                                           *)
(* Amounts are in the smallest unit of a token and the rates are the code's. *)
(* `funded' and `paid' are not in the code: they remember what was given to  *)
(* and paid from each budget.                                                *)
(***************************************************************************)
EXTENDS Naturals, FiniteSets, Functions

CONSTANTS
  Pool,      \* the registered sources: pools that send commissions
  Root,      \* address(this): donations, Stargate receipts and bridge work
  Usdc,
  FeeToken   \* the other fee assets

ASSUME BookAssumption ==
  /\ IsFiniteSet(Pool)
  /\ Root \notin Pool
  /\ Usdc \notin FeeToken

RESERVE_BPS  == 500
BPS          == 10000
BRIDGE_SHARE == 5

Source == Pool \cup {Root}
Token  == FeeToken \cup {Usdc}

Field == {"accounted", "pending", "reserve", "totalReserve", "remainder",
          "bridgeRemainder", "revenue", "funded", "paid"}

IsBook(b) ==
  /\ DOMAIN b = Field
  /\ b.accounted       \in [Token -> Nat]
  /\ b.pending         \in [Source -> [FeeToken -> Nat]]
  /\ b.reserve         \in [Source -> Nat]
  /\ b.totalReserve    \in Nat
  /\ b.remainder       \in [Source -> Nat]
  /\ b.bridgeRemainder \in [Source -> Nat]
  /\ b.revenue         \in [Source -> Nat]
  /\ b.funded          \in [Source -> Nat]
  /\ b.paid            \in [Source -> Nat]

EmptyBook == [accounted       |-> [t \in Token |-> 0],
              pending         |-> [s \in Source |-> [t \in FeeToken |-> 0]],
              reserve         |-> [s \in Source |-> 0],
              totalReserve    |-> 0,
              remainder       |-> [s \in Source |-> 0],
              bridgeRemainder |-> [s \in Source |-> 0],
              revenue         |-> [s \in Source |-> 0],
              funded          |-> [s \in Source |-> 0],
              paid            |-> [s \in Source |-> 0]]

(***************************************************************************)
(* Receipts.                                                                 *)
(***************************************************************************)
(* What a USDC receipt adds to the reserves. The fractions are carried.      *)
Reserved(b, s, amount)   == (amount * RESERVE_BPS + b.remainder[s]) \div BPS
Split(b, s, amount)      == Reserved(b, s, amount) + b.bridgeRemainder[s]
BridgePart(b, s, amount) == Split(b, s, amount) \div BRIDGE_SHARE

CreditRoot(b, amount) ==
  [b EXCEPT !.reserve[Root]   = @ + Reserved(b, Root, amount),
            !.totalReserve    = @ + Reserved(b, Root, amount),
            !.remainder[Root] = (amount * RESERVE_BPS + @) % BPS,
            !.revenue[Root]   = @ + amount]

(* Mutant: the total is the sum of the pools' shares only. *)
CreditPool_TotalWithoutBridge(b, s, amount) ==
  [b EXCEPT !.reserve[Root] = @ + BridgePart(b, s, amount),
            !.reserve[s]    = @ + (Reserved(b, s, amount) - BridgePart(b, s, amount)),
            !.totalReserve = @ + (Reserved(b, s, amount) - BridgePart(b, s, amount)),
            !.remainder[s] = (amount * RESERVE_BPS + @) % BPS,
            !.bridgeRemainder[s] = Split(b, s, amount) % BRIDGE_SHARE,
            !.revenue[s] = @ + amount]

CreditPool(b, s, amount) ==
  [b EXCEPT !.reserve[Root] = @ + BridgePart(b, s, amount),
            !.reserve[s]    = @ + (Reserved(b, s, amount) - BridgePart(b, s, amount)),
            !.totalReserve = @ + Reserved(b, s, amount),
            !.remainder[s] = (amount * RESERVE_BPS + @) % BPS,
            !.bridgeRemainder[s] = Split(b, s, amount) % BRIDGE_SHARE,
            !.revenue[s] = @ + amount]

Credit(b, s, amount) == IF s = Root THEN CreditRoot(b, amount) ELSE CreditPool(b, s, amount)

Counted(b, t, amount) == [b EXCEPT !.accounted[t] = @ + amount]
Owed(b, s, t, amount) == [b EXCEPT !.pending[s][t] = @ + amount]

(* Counts amount of token t and attributes it to source s. *)
Receive(b, s, t, amount) ==
  IF t = Usdc THEN Credit(Counted(b, t, amount), s, amount)
              ELSE Owed(Counted(b, t, amount), s, t, amount)

(* What is held but not counted yet was given to the Treasury itself. *)
Synced(b, balance, t) == Receive(b, Root, t, balance[t] - b.accounted[t])

Fund(b, s, amount) == [b EXCEPT !.accounted[Usdc] = @ + amount,
                                !.reserve[s]      = @ + amount,
                                !.totalReserve    = @ + amount,
                                !.funded[s]       = @ + amount]

(***************************************************************************)
(* Spending. A subtraction that would underflow reverts.                     *)
(***************************************************************************)
MayConvert(b, s, t, amountIn) == amountIn <= b.pending[s][t] /\ amountIn <= b.accounted[t]

Sold(b, s, t, amountIn) == [b EXCEPT !.pending[s][t] = @ - amountIn,
                                     !.accounted[t]  = @ - amountIn]

Converted(b, s, t, amountIn, amountOut) == Receive(Sold(b, s, t, amountIn), s, Usdc, amountOut)

(* What may leave without touching a reserve, counted or not counted yet. *)
ProtectedBalance(b, balance) ==
  b.totalReserve
    + ((balance[Usdc] - b.accounted[Usdc]) * RESERVE_BPS + b.remainder[Root]) \div BPS

Distributable(b, balance) ==
  IF balance[Usdc] > ProtectedBalance(b, balance)
    THEN balance[Usdc] - ProtectedBalance(b, balance) ELSE 0

MayDebit(b, amount) == /\ amount > 0
                       /\ b.totalReserve <= b.accounted[Usdc]
                       /\ amount <= b.accounted[Usdc] - b.totalReserve

Debit(b, amount) == [b EXCEPT !.accounted[Usdc] = @ - amount]

MaySpend(b, s, amount) == /\ 0 < amount
                          /\ amount <= b.reserve[s]
                          /\ amount <= b.totalReserve
                          /\ amount <= b.accounted[Usdc]

Spend(b, s, amount) == [b EXCEPT !.reserve[s]      = @ - amount,
                                 !.totalReserve    = @ - amount,
                                 !.accounted[Usdc] = @ - amount,
                                 !.paid[s]         = @ + amount]

(***************************************************************************)
(* What the book promises.                                                   *)
(***************************************************************************)
(* Five percent of everything a source ever brought in, rounded once. *)
Allocated(b, s) == (RESERVE_BPS * b.revenue[s]) \div BPS
ForBridges(b, s) == Allocated(b, s) \div BRIDGE_SHARE

(* The carried fraction is that of the whole sum. *)
CarryExact(b, s) == b.remainder[s] = (RESERVE_BPS * b.revenue[s]) % BPS

(* The budget of a pool: four fifths of its own allocation, what was given   *)
(* to it, less what its own actors were paid, however receipts were split.   *)
PoolBudgetExact(b, s) ==
  /\ b.bridgeRemainder[s] = Allocated(b, s) % BRIDGE_SHARE
  /\ b.reserve[s] + b.paid[s] = b.funded[s] + Allocated(b, s) - ForBridges(b, s)

BudgetsExact(b) == /\ \A s \in Source : CarryExact(b, s)
                   /\ \A s \in Pool : PoolBudgetExact(b, s)

(* The total reserve is the sum of the budgets, and the bridge budget is five *)
(* percent of what came to the Treasury itself and a fifth of every pool's.   *)
ReservesAdd(b) ==
  /\ b.totalReserve = SumFunctionOnSet(b.reserve, Source)
  /\ b.reserve[Root] + b.paid[Root]
       = b.funded[Root] + Allocated(b, Root)
           + SumFunctionOnSet([s \in Pool |-> ForBridges(b, s)], Pool)

(* What is counted of a fee token is what the sources have pending.          *)
PendingAdds(b) ==
  \A t \in FeeToken :
    b.accounted[t] = SumFunctionOnSet([s \in Source |-> b.pending[s][t]], Source)

ReservesHeld(b, balance) ==
  /\ b.totalReserve <= b.accounted[Usdc]
  /\ \A t \in Token : b.accounted[t] <= balance[t]
=============================================================================

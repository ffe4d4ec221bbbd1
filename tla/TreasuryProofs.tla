--------------------------- MODULE TreasuryProofs ---------------------------
(* The Treasury's budgets, reserves and daily caps, for every set of pools,  *)
(* actors and fee tokens, every sealed configuration and every bound.        *)
EXTENDS Treasury, SumProofs

(***************************************************************************)
(* Arithmetic of carried fractions.                                          *)
(***************************************************************************)
(* Allocating a sum in two receipts with the carry of the first is           *)
(* allocating it at once.                                                    *)
LEMMA CarriedReserve ==
  ASSUME NEW n \in Nat, NEW a \in Nat
  PROVE  /\ (500 * (n + a)) \div 10000
              = ((500 * n) \div 10000) + ((a * 500 + ((500 * n) % 10000)) \div 10000)
         /\ (500 * (n + a)) % 10000 = (a * 500 + ((500 * n) % 10000)) % 10000
OBVIOUS

LEMMA CarriedBridge ==
  ASSUME NEW n \in Nat, NEW a \in Nat
  PROVE  /\ (n + a) \div 5 = (n \div 5) + ((a + (n % 5)) \div 5)
         /\ (n + a) % 5 = (a + (n % 5)) % 5
OBVIOUS

(* What is reserved of a receipt is a part of it.                            *)
LEMMA ReservedPart ==
  ASSUME NEW a \in Nat, NEW r \in Nat, r < 10000
  PROVE  /\ (a * 500 + r) \div 10000 \in Nat
         /\ (a * 500 + r) \div 10000 <= a
         /\ (a * 500 + r) % 10000 \in Nat
OBVIOUS

LEMMA BridgePartBounded ==
  ASSUME NEW a \in Nat, NEW r \in Nat, r < 5
  PROVE  /\ (a + r) \div 5 \in Nat
         /\ (a + r) \div 5 <= a
         /\ (a + r) % 5 \in Nat
OBVIOUS

LEMMA Fractions ==
  ASSUME NEW n \in Nat
  PROVE  /\ (500 * n) % 10000 \in Nat /\ (500 * n) % 10000 < 10000
         /\ (500 * n) \div 10000 \in Nat
         /\ n % 5 \in Nat /\ n % 5 < 5
         /\ n \div 5 \in Nat /\ n \div 5 <= n
OBVIOUS

LEMMA DayGrows ==
  ASSUME NEW n \in Nat, NEW d \in Nat \ {0}
  PROVE  n \div d \in Nat /\ n \div d <= (n + 1) \div d
OBVIOUS

(***************************************************************************)
(* The library's operations preserve a sound book.                           *)
(***************************************************************************)
Exact(b) == IsBook(b) /\ BudgetsExact(b) /\ ReservesAdd(b)
Sound(b) == Exact(b) /\ b.totalReserve <= b.accounted[Usdc]

LEMMA Names == /\ Root \in Source /\ Root \notin Pool /\ Pool \subseteq Source
               /\ Usdc \in Token /\ Usdc \notin FeeToken /\ FeeToken \subseteq Token
BY BookAssumption DEF Source, BookAssumption, Token

LEMMA Finite == IsFiniteSet(Pool) /\ IsFiniteSet(Source)
BY BookAssumption, FS_AddElement DEF Source, BookAssumption

LEMMA NewBookSound == Sound(EmptyBook) /\ PendingAdds(EmptyBook)
<1>1. IsBook(EmptyBook)
  BY DEF EmptyBook, IsBook, Field
<1>2. BudgetsExact(EmptyBook)
  BY Names DEF EmptyBook, BudgetsExact, CarryExact, PoolBudgetExact, Allocated, ForBridges,
               BPS, RESERVE_BPS, BRIDGE_SHARE
<1>3. EmptyBook.totalReserve <= EmptyBook.accounted[Usdc]
  BY Names DEF EmptyBook
<1>4. ReservesAdd(EmptyBook)
  <2> DEFINE fifth == [s \in Pool |-> ForBridges(EmptyBook, s)]
  <2>1. \A s \in Source : Allocated(EmptyBook, s) = 0 /\ ForBridges(EmptyBook, s) = 0
    BY DEF EmptyBook, Allocated, ForBridges, BPS, RESERVE_BPS, BRIDGE_SHARE
  <2>2. \A s \in Source : EmptyBook.reserve[s] = 0
    BY DEF EmptyBook
  <2>3. SumFunctionOnSet(EmptyBook.reserve, Source) = 0
    BY <2>2, Finite, SumZero
  <2>4. \A s \in Pool : fifth[s] = 0
    BY <2>1, Names
  <2> HIDE DEF fifth
  <2>5. SumFunctionOnSet(fifth, Pool) = 0
    BY <2>4, Finite, SumZero
  <2>6. EmptyBook.totalReserve = 0 /\ EmptyBook.paid[Root] = 0 /\ EmptyBook.funded[Root] = 0
    BY Names DEF EmptyBook
  <2> QED BY <2>1, <2>2, <2>3, <2>5, <2>6, Names DEF ReservesAdd, fifth
<1>5. PendingAdds(EmptyBook)
  <2> SUFFICES ASSUME NEW t \in FeeToken
               PROVE  EmptyBook.accounted[t]
                        = SumFunctionOnSet([s \in Source |-> EmptyBook.pending[s][t]], Source)
    BY DEF PendingAdds
  <2> DEFINE owed == [s \in Source |-> EmptyBook.pending[s][t]]
  <2>1. \A s \in Source : owed[s] = 0
    BY DEF EmptyBook
  <2>2. EmptyBook.accounted[t] = 0
    BY Names DEF EmptyBook
  <2> HIDE DEF owed
  <2>3. SumFunctionOnSet(owed, Source) = 0
    BY <2>1, Finite, SumZero
  <2> QED BY <2>2, <2>3 DEF owed
<1> QED BY <1>1, <1>2, <1>3, <1>4, <1>5 DEF Sound, Exact

(* What the types say of one source.                                         *)
LEMMA SourceTyped ==
  ASSUME NEW b, IsBook(b), NEW s \in Source
  PROVE  /\ b.reserve[s] \in Nat /\ b.revenue[s] \in Nat
         /\ b.funded[s] \in Nat /\ b.paid[s] \in Nat
BY DEF IsBook

LEMMA AllocatedTyped ==
  ASSUME NEW b, IsBook(b), NEW s \in Source
  PROVE  Allocated(b, s) \in Nat /\ ForBridges(b, s) \in Nat
<1> DEFINE n == b.revenue[s]
           a == (500 * n) \div 10000
<1>1. n \in Nat
  BY SourceTyped
<1>2. Allocated(b, s) = a /\ ForBridges(b, s) = a \div 5
  BY DEF Allocated, ForBridges, RESERVE_BPS, BPS, BRIDGE_SHARE
<1> HIDE DEF n
<1>3. a \in Nat
  BY <1>1, Fractions
<1> HIDE DEF a
<1> QED BY <1>2, <1>3, Fractions

(* A receipt reserves no more than itself.                                   *)
LEMMA ReservedBounded ==
  ASSUME NEW b, Exact(b), NEW s \in Source, NEW amount \in Nat
  PROVE  /\ Reserved(b, s, amount) \in Nat
         /\ Reserved(b, s, amount) <= amount
         /\ (amount * RESERVE_BPS + b.remainder[s]) % BPS \in Nat
<1> DEFINE x == b.remainder[s]
<1>1. x \in Nat /\ x < 10000
  <2>1. x = (500 * b.revenue[s]) % 10000 /\ b.revenue[s] \in Nat
    BY SourceTyped DEF Exact, BudgetsExact, CarryExact, RESERVE_BPS, BPS
  <2> HIDE DEF x
  <2> QED BY <2>1, Fractions
<1>2. Reserved(b, s, amount) = (amount * 500 + x) \div 10000
  BY DEF Reserved, RESERVE_BPS, BPS
<1>3. (amount * RESERVE_BPS + b.remainder[s]) % BPS = (amount * 500 + x) % 10000
  BY DEF RESERVE_BPS, BPS
<1> HIDE DEF x
<1> QED BY <1>1, <1>2, <1>3, ReservedPart

(* The carry of a source after a receipt.                                    *)
LEMMA CarryKept ==
  ASSUME NEW b, Exact(b), NEW s \in Source, NEW amount \in Nat
  PROVE  /\ (amount * RESERVE_BPS + b.remainder[s]) % BPS
              = (RESERVE_BPS * (b.revenue[s] + amount)) % BPS
         /\ (RESERVE_BPS * (b.revenue[s] + amount)) \div BPS
              = Allocated(b, s) + Reserved(b, s, amount)
<1> DEFINE n == b.revenue[s]
<1>1. n \in Nat
  BY SourceTyped DEF Exact
<1>2. b.remainder[s] = (500 * n) % 10000
  BY DEF Exact, BudgetsExact, CarryExact, RESERVE_BPS, BPS
<1>3. /\ Reserved(b, s, amount) = (amount * 500 + ((500 * n) % 10000)) \div 10000
      /\ Allocated(b, s) = (500 * n) \div 10000
  BY <1>2 DEF Reserved, Allocated, RESERVE_BPS, BPS
<1> HIDE DEF n
<1>4. /\ (amount * 500 + ((500 * n) % 10000)) % 10000 = (500 * (n + amount)) % 10000
      /\ (500 * (n + amount)) \div 10000 = Allocated(b, s) + Reserved(b, s, amount)
  BY <1>1, <1>3, CarriedReserve
<1> QED BY <1>2, <1>4 DEF n, RESERVE_BPS, BPS

(* The figures that are summed are numbers.                                  *)
LEMMA BookNumbers ==
  ASSUME NEW b, IsBook(b)
  PROVE  /\ Numbers(b.reserve, Source)
         /\ Numbers([s \in Pool |-> ForBridges(b, s)], Pool)
         /\ \A t \in FeeToken : Numbers([s \in Source |-> b.pending[s][t]], Source)
<1>1. \A s \in Source : b.reserve[s] \in Nat
  BY SourceTyped
<1>2. \A s \in Pool : ForBridges(b, s) \in Nat
  BY Names, AllocatedTyped
<1>3. b.pending \in [Source -> [FeeToken -> Nat]]
  BY DEF IsBook
<1> QED BY <1>1, <1>2, <1>3, Finite DEF Numbers

(* The sum over the sources when the figure of one of them changes.          *)
LEMMA SourceSumChange ==
  ASSUME NEW f \in [Source -> Nat], NEW g \in [Source -> Nat], NEW s \in Source,
         \A x \in Source \ {s} : g[x] = f[x]
  PROVE  /\ SumFunctionOnSet(f, Source) \in Nat
         /\ SumFunctionOnSet(g, Source) = SumFunctionOnSet(f, Source) - f[s] + g[s]
<1>1. Numbers(f, Source)
  BY Finite DEF Numbers
<1>2. g[s] \in Nat
  OBVIOUS
<1> QED BY <1>1, <1>2, SumChange, SumNat

(* The same for the fifths of the pools.                                     *)
LEMMA FifthsChange ==
  ASSUME NEW f, Numbers(f, Pool), NEW g, NEW p \in Pool, g[p] \in Nat,
         \A x \in Pool \ {p} : g[x] = f[x]
  PROVE  SumFunctionOnSet(g, Pool) = SumFunctionOnSet(f, Pool) - f[p] + g[p]
<1> DEFINE P == Pool
<1>1. /\ Numbers(f, P) /\ p \in P /\ g[p] \in Nat
      /\ \A x \in P \ {p} : g[x] = f[x]
  OBVIOUS
<1> HIDE DEF P
<1>2. SumFunctionOnSet(g, P) = SumFunctionOnSet(f, P) - f[p] + g[p]
  BY <1>1, SumChange
<1> QED BY <1>2 DEF P

(* A gift to one budget, or a payment from it.                               *)
LEMMA OneBudget ==
  ASSUME NEW b, IsBook(b), ReservesAdd(b), NEW c, NEW s \in Source, NEW v \in Nat,
         c.revenue = b.revenue, c.reserve = [b.reserve EXCEPT ![s] = v],
         c.totalReserve = b.totalReserve - b.reserve[s] + v,
         Root # s => c.paid[Root] = b.paid[Root] /\ c.funded[Root] = b.funded[Root],
         c.paid[s] \in Nat, c.funded[s] \in Nat,
         v + c.paid[s] - c.funded[s] = b.reserve[s] + b.paid[s] - b.funded[s]
  PROVE  ReservesAdd(c)
<1> DEFINE fifths == SumFunctionOnSet([x \in Pool |-> ForBridges(b, x)], Pool)
<1>1. b.reserve \in [Source -> Nat] /\ c.reserve[s] = v
  BY DEF IsBook
<1>2. SumFunctionOnSet(c.reserve, Source) = SumFunctionOnSet(b.reserve, Source) - b.reserve[s] + v
  <2>1. c.reserve \in [Source -> Nat] /\ \A x \in Source \ {s} : c.reserve[x] = b.reserve[x]
    BY <1>1
  <2> QED BY <1>1, <2>1, SourceSumChange
<1>3. \A x : Allocated(c, x) = Allocated(b, x) /\ ForBridges(c, x) = ForBridges(b, x)
  BY DEF Allocated, ForBridges
<1>4. SumFunctionOnSet([x \in Pool |-> ForBridges(c, x)], Pool) = fifths
  BY <1>3
<1>5. fifths \in Nat
  BY BookNumbers, SumNat
<1>6. b.reserve[Root] + b.paid[Root] = b.funded[Root] + Allocated(b, Root) + fifths
  BY DEF ReservesAdd
<1>7. /\ Allocated(b, Root) \in Nat /\ b.reserve[Root] \in Nat /\ b.paid[Root] \in Nat
      /\ b.funded[Root] \in Nat
  BY Names, AllocatedTyped, SourceTyped
<1> HIDE DEF fifths
<1>8. c.reserve[Root] + c.paid[Root] = c.funded[Root] + Allocated(b, Root) + fifths
  <2>1. CASE s = Root
    BY <1>1, <1>5, <1>6, <1>7, <2>1
  <2>2. CASE s # Root
    BY <1>1, <1>6, <2>2, Names
  <2> QED BY <2>1, <2>2
<1> QED BY <1>2, <1>3, <1>4, <1>8 DEF ReservesAdd

(* A book that differs in no figure of a source is as exact for it.          *)
LEMMA SourceUntouched ==
  ASSUME NEW b, NEW c, NEW s \in Source, CarryExact(b, s),
         c.remainder[s] = b.remainder[s], c.revenue[s] = b.revenue[s]
  PROVE  CarryExact(c, s)
BY DEF CarryExact

LEMMA PoolUntouched ==
  ASSUME NEW b, NEW c, NEW s \in Pool, PoolBudgetExact(b, s),
         c.bridgeRemainder[s] = b.bridgeRemainder[s], c.reserve[s] = b.reserve[s],
         c.paid[s] = b.paid[s], c.funded[s] = b.funded[s], c.revenue[s] = b.revenue[s]
  PROVE  PoolBudgetExact(c, s)
BY DEF PoolBudgetExact, Allocated, ForBridges

(* A receipt that has been counted is credited to its source.                *)
LEMMA CreditRootSound ==
  ASSUME NEW b, Exact(b), NEW amount \in Nat, b.totalReserve + amount <= b.accounted[Usdc]
  PROVE  Sound(CreditRoot(b, amount)) /\ CreditRoot(b, amount).accounted = b.accounted
<1> DEFINE c == CreditRoot(b, amount)
           r == Reserved(b, Root, amount)
           m == (amount * RESERVE_BPS + b.remainder[Root]) % BPS
<1>1. IsBook(b) /\ Root \in Source
  BY Names DEF Exact
<1>2. r \in Nat /\ r <= amount /\ m \in Nat
  BY <1>1, ReservedBounded
<1>3. m = (RESERVE_BPS * (b.revenue[Root] + amount)) % BPS
  BY <1>1, CarryKept
<1>10. (RESERVE_BPS * (b.revenue[Root] + amount)) \div BPS = Allocated(b, Root) + r
  BY <1>1, CarryKept
<1> HIDE DEF r, m
<1>4. /\ DOMAIN c = Field
      /\ c.accounted = b.accounted /\ c.pending = b.pending
      /\ c.reserve = [b.reserve EXCEPT ![Root] = @ + r]
      /\ c.totalReserve = b.totalReserve + r
      /\ c.remainder = [b.remainder EXCEPT ![Root] = m]
      /\ c.bridgeRemainder = b.bridgeRemainder
      /\ c.revenue = [b.revenue EXCEPT ![Root] = @ + amount]
      /\ c.funded = b.funded /\ c.paid = b.paid
  BY <1>1 DEF CreditRoot, IsBook, Field, r, m
<1> HIDE DEF c
<1>5. IsBook(c)
  BY <1>1, <1>2, <1>4 DEF IsBook
<1>6. ASSUME NEW s \in Source
      PROVE  CarryExact(c, s)
  <2>1. CASE s = Root
    BY <1>1, <1>3, <1>4, <2>1 DEF IsBook, CarryExact
  <2>2. CASE s # Root
    BY <1>1, <1>4, <2>2, SourceUntouched DEF IsBook, Exact, BudgetsExact
  <2> QED BY <2>1, <2>2
<1>7. ASSUME NEW s \in Pool
      PROVE  PoolBudgetExact(c, s)
  <2>1. s # Root /\ s \in Source /\ PoolBudgetExact(b, s)
    BY Names DEF Exact, BudgetsExact
  <2> QED BY <1>1, <1>4, <2>1, PoolUntouched DEF IsBook
<1>9. ReservesAdd(c)
  <2> DEFINE fifths == SumFunctionOnSet([x \in Pool |-> ForBridges(b, x)], Pool)
  <2>1. /\ b.reserve \in [Source -> Nat] /\ b.revenue \in [Source -> Nat]
        /\ c.reserve[Root] = b.reserve[Root] + r /\ c.revenue[Root] = b.revenue[Root] + amount
        /\ \A x \in Pool : c.revenue[x] = b.revenue[x]
    BY <1>1, <1>4, Names DEF IsBook
  <2>2. SumFunctionOnSet(c.reserve, Source)
          = SumFunctionOnSet(b.reserve, Source) - b.reserve[Root] + (b.reserve[Root] + r)
    <3>1. /\ c.reserve \in [Source -> Nat]
          /\ \A x \in Source \ {Root} : c.reserve[x] = b.reserve[x]
      BY <1>1, <1>2, <1>4, <2>1
    <3> QED BY <1>1, <2>1, <3>1, SourceSumChange
  <2>3. \A x \in Pool : ForBridges(c, x) = ForBridges(b, x)
    BY <2>1 DEF ForBridges, Allocated
  <2>4. SumFunctionOnSet([x \in Pool |-> ForBridges(c, x)], Pool) = fifths
    <3>1. [x \in Pool |-> ForBridges(c, x)] = [x \in Pool |-> ForBridges(b, x)]
      BY <2>3
    <3> QED BY <3>1
  <2>5. Allocated(c, Root) = Allocated(b, Root) + r
    BY <1>10, <2>1 DEF Allocated
  <2>6. b.totalReserve = SumFunctionOnSet(b.reserve, Source)
        /\ b.reserve[Root] + b.paid[Root] = b.funded[Root] + Allocated(b, Root) + fifths
    BY DEF Exact, ReservesAdd
  <2>7. /\ Allocated(b, Root) \in Nat /\ b.reserve[Root] \in Nat /\ b.paid[Root] \in Nat
        /\ b.funded[Root] \in Nat /\ fifths \in Nat /\ b.totalReserve \in Nat
    BY <1>1, AllocatedTyped, SourceTyped, BookNumbers, SumNat DEF IsBook
  <2> HIDE DEF fifths
  <2>8. c.totalReserve = SumFunctionOnSet(c.reserve, Source)
    BY <1>2, <1>4, <2>2, <2>6, <2>7
  <2>9. c.reserve[Root] + c.paid[Root] = c.funded[Root] + Allocated(c, Root) + fifths
    BY <1>2, <1>4, <2>1, <2>5, <2>6, <2>7
  <2> QED BY <2>4, <2>8, <2>9 DEF ReservesAdd
<1>8. c.totalReserve <= c.accounted[Usdc] /\ c.accounted = b.accounted
  <2>1. b.totalReserve \in Nat /\ b.accounted[Usdc] \in Nat
    BY <1>1, Names DEF IsBook
  <2> QED BY <1>2, <1>4, <2>1
<1> QED BY <1>5, <1>6, <1>7, <1>8, <1>9 DEF Sound, Exact, BudgetsExact, c

LEMMA CreditPoolSound ==
  ASSUME NEW b, Exact(b), NEW p \in Pool, NEW amount \in Nat,
         b.totalReserve + amount <= b.accounted[Usdc]
  PROVE  Sound(CreditPool(b, p, amount)) /\ CreditPool(b, p, amount).accounted = b.accounted
<1> DEFINE c == CreditPool(b, p, amount)
           r == Reserved(b, p, amount)
           q == BridgePart(b, p, amount)
           k == Split(b, p, amount) % BRIDGE_SHARE
           m == (amount * RESERVE_BPS + b.remainder[p]) % BPS
           a == Allocated(b, p)
<1>1. IsBook(b) /\ Root \in Source /\ p \in Source /\ p # Root
  BY Names DEF Exact
<1>2. r \in Nat /\ r <= amount /\ m \in Nat
  BY <1>1, ReservedBounded
<1>3. m = (RESERVE_BPS * (b.revenue[p] + amount)) % BPS
      /\ (RESERVE_BPS * (b.revenue[p] + amount)) \div BPS = a + r
  BY <1>1, CarryKept
<1>4. a \in Nat /\ ForBridges(b, p) = a \div 5 /\ b.bridgeRemainder[p] = a % 5
  <2>1. a = (500 * b.revenue[p]) \div 10000 /\ b.revenue[p] \in Nat
    BY <1>1, SourceTyped DEF Allocated, RESERVE_BPS, BPS
  <2>2. a \in Nat
    <3> HIDE DEF a
    <3> QED BY <2>1, Fractions
  <2> QED BY <2>2 DEF ForBridges, Exact, BudgetsExact, PoolBudgetExact, BRIDGE_SHARE
<1>5. q = (r + (a % 5)) \div 5 /\ k = (r + (a % 5)) % 5
  BY <1>4 DEF BridgePart, Split, BRIDGE_SHARE
<1> DEFINE v == [b.reserve EXCEPT ![Root] = @ + q, ![p] = @ + (r - q)]
<1>6. /\ DOMAIN c = Field
      /\ c.accounted = b.accounted /\ c.pending = b.pending
      /\ c.reserve = v
      /\ c.totalReserve = b.totalReserve + r
      /\ c.remainder = [b.remainder EXCEPT ![p] = m]
      /\ c.bridgeRemainder = [b.bridgeRemainder EXCEPT ![p] = k]
      /\ c.revenue = [b.revenue EXCEPT ![p] = @ + amount]
      /\ c.funded = b.funded /\ c.paid = b.paid
  BY <1>1 DEF CreditPool, IsBook, Field
<1> HIDE DEF c, m, k, r, q, a
<1>7. q \in Nat /\ q <= r /\ k \in Nat
  BY <1>2, <1>4, <1>5, Fractions, BridgePartBounded
<1>9. IsBook(c)
  <2>1. c.reserve \in [Source -> Nat] /\ c.revenue \in [Source -> Nat] /\ c.totalReserve \in Nat
    BY <1>1, <1>2, <1>7, <1>6 DEF IsBook, v
  <2> QED BY <1>1, <1>2, <1>7, <1>6, <2>1 DEF IsBook
<1>10. /\ c.remainder[p] = m /\ c.bridgeRemainder[p] = k
       /\ c.reserve[p] = b.reserve[p] + (r - q)
       /\ c.paid[p] = b.paid[p] /\ c.funded[p] = b.funded[p]
       /\ c.revenue[p] = b.revenue[p] + amount
  <2>1. /\ b.reserve \in [Source -> Nat] /\ b.remainder \in [Source -> Nat]
        /\ b.bridgeRemainder \in [Source -> Nat] /\ b.revenue \in [Source -> Nat]
    BY <1>1 DEF IsBook
  <2>2. c.reserve[p] = b.reserve[p] + (r - q)
    BY <1>1, <1>6, <2>1 DEF v
  <2> QED BY <1>1, <1>6, <2>1, <2>2
<1>11. Allocated(c, p) = a + r
  BY <1>3, <1>10 DEF Allocated
<1>12. ForBridges(c, p) = (a \div 5) + q /\ k = Allocated(c, p) % BRIDGE_SHARE
  <2>1. ForBridges(c, p) = (a + r) \div 5 /\ Allocated(c, p) % BRIDGE_SHARE = (a + r) % 5
    BY <1>11 DEF ForBridges, BRIDGE_SHARE
  <2> QED BY <1>2, <1>4, <1>5, <2>1, CarriedBridge
<1>13. PoolBudgetExact(c, p)
  <2>1. b.reserve[p] + b.paid[p] = b.funded[p] + a - (a \div 5)
    BY <1>4 DEF Exact, BudgetsExact, PoolBudgetExact, a
  <2>2. b.reserve[p] \in Nat /\ b.paid[p] \in Nat /\ b.funded[p] \in Nat
    BY <1>1, SourceTyped
  <2>3. a \div 5 \in Nat
    BY <1>4, Fractions
  <2> DEFINE d == a \div 5
  <2> HIDE DEF d
  <2>4. b.reserve[p] + b.paid[p] = b.funded[p] + a - d /\ d \in Nat
        /\ c.funded[p] + Allocated(c, p) - ForBridges(c, p) = b.funded[p] + (a + r) - (d + q)
    BY <1>10, <1>11, <1>12, <2>1, <2>3 DEF d
  <2>5. c.reserve[p] + c.paid[p] = b.reserve[p] + (r - q) + b.paid[p]
    BY <1>10
  <2>6. b.reserve[p] + (r - q) + b.paid[p] = b.funded[p] + (a + r) - (d + q)
    <3> DEFINE x == b.reserve[p]
               y == b.paid[p]
               z == b.funded[p]
    <3>1. x \in Nat /\ y \in Nat /\ z \in Nat /\ x + y = z + a - d
      BY <2>2, <2>4
    <3> HIDE DEF x, y, z
    <3>2. x + (r - q) + y = z + (a + r) - (d + q)
      BY <1>2, <1>4, <1>7, <2>4, <3>1
    <3> QED BY <3>2 DEF x, y, z
  <2>7. c.reserve[p] + c.paid[p] = c.funded[p] + Allocated(c, p) - ForBridges(c, p)
    BY <2>4, <2>5, <2>6
  <2> QED BY <1>10, <1>12, <2>7 DEF PoolBudgetExact
<1>14. ASSUME NEW s \in Pool, s # p
       PROVE  PoolBudgetExact(c, s)
  <2>1. s # Root /\ s \in Source /\ PoolBudgetExact(b, s)
    BY Names DEF Exact, BudgetsExact
  <2>2. /\ c.bridgeRemainder[s] = b.bridgeRemainder[s] /\ c.reserve[s] = b.reserve[s]
        /\ c.paid[s] = b.paid[s] /\ c.funded[s] = b.funded[s] /\ c.revenue[s] = b.revenue[s]
    BY <1>1, <1>6, <1>14, <2>1 DEF IsBook, v
  <2> QED BY <2>1, <2>2, PoolUntouched
<1>15. ASSUME NEW s \in Source
       PROVE  CarryExact(c, s)
  <2>1. CASE s = p
    BY <1>3, <1>10, <2>1 DEF CarryExact
  <2>2. CASE s # p
    BY <1>1, <1>6, <2>2, SourceUntouched DEF IsBook, Exact, BudgetsExact
  <2> QED BY <2>1, <2>2
<1>17. ReservesAdd(c)
  <2> DEFINE old == [x \in Pool |-> ForBridges(b, x)]
             new == [x \in Pool |-> ForBridges(c, x)]
             mid == [b.reserve EXCEPT ![Root] = @ + q]
  <2>1. /\ b.reserve \in [Source -> Nat] /\ b.revenue \in [Source -> Nat]
        /\ b.totalReserve \in Nat /\ b.reserve[Root] \in Nat /\ b.reserve[p] \in Nat
        /\ b.paid[Root] \in Nat /\ b.funded[Root] \in Nat
    BY <1>1 DEF IsBook
  <2>2. SumFunctionOnSet(mid, Source) = SumFunctionOnSet(b.reserve, Source) + q
        /\ SumFunctionOnSet(b.reserve, Source) \in Nat /\ mid \in [Source -> Nat]
    <3>1. /\ mid[Root] = b.reserve[Root] + q /\ mid \in [Source -> Nat]
          /\ \A x \in Source \ {Root} : mid[x] = b.reserve[x]
      BY <1>1, <1>7, <2>1
    <3> HIDE DEF mid
    <3>2. /\ SumFunctionOnSet(b.reserve, Source) \in Nat
          /\ SumFunctionOnSet(mid, Source)
               = SumFunctionOnSet(b.reserve, Source) - b.reserve[Root] + mid[Root]
      BY <1>1, <2>1, <3>1, SourceSumChange
    <3> QED BY <1>7, <2>1, <3>1, <3>2
  <2>3. SumFunctionOnSet(c.reserve, Source) = SumFunctionOnSet(mid, Source) + (r - q)
    <3>1. /\ mid[p] = b.reserve[p] /\ c.reserve[p] = b.reserve[p] + (r - q)
          /\ \A x \in Source \ {p} : c.reserve[x] = mid[x]
      BY <1>1, <1>2, <1>6, <1>7, <2>1 DEF v
    <3> HIDE DEF mid
    <3>2. /\ SumFunctionOnSet(mid, Source) \in Nat
          /\ SumFunctionOnSet(c.reserve, Source)
               = SumFunctionOnSet(mid, Source) - mid[p] + c.reserve[p]
      <4>1. c.reserve \in [Source -> Nat]
        BY <1>9 DEF IsBook
      <4> QED BY <1>1, <2>2, <3>1, <4>1, SourceSumChange
    <3> QED BY <1>2, <1>7, <2>1, <3>1, <3>2
  <2>4. c.totalReserve = SumFunctionOnSet(c.reserve, Source)
    <3>1. b.totalReserve = SumFunctionOnSet(b.reserve, Source)
      BY DEF Exact, ReservesAdd
    <3> HIDE DEF mid
    <3> QED BY <1>2, <1>6, <1>7, <2>1, <2>2, <2>3, <3>1
  <2>5. /\ \A x \in Source \ {p} :
             Allocated(c, x) = Allocated(b, x) /\ ForBridges(c, x) = ForBridges(b, x)
        /\ new[p] = old[p] + q /\ \A x \in Pool \ {p} : new[x] = old[x]
    <3>1. \A x \in Source \ {p} : c.revenue[x] = b.revenue[x]
      BY <1>1, <1>6, <2>1
    <3>2. \A x \in Source \ {p} :
             Allocated(c, x) = Allocated(b, x) /\ ForBridges(c, x) = ForBridges(b, x)
      BY <3>1 DEF Allocated, ForBridges
    <3>3. new[p] = old[p] + q
      BY <1>4, <1>12
    <3> QED BY <3>2, <3>3, Names
  <2>6. Numbers(old, Pool) /\ old[p] \in Nat
    BY <1>1, BookNumbers DEF Numbers
  <2> HIDE DEF old, new
  <2>7. SumFunctionOnSet(new, Pool) = SumFunctionOnSet(old, Pool) + q
    <3>1. new[p] \in Nat
      BY <1>7, <2>5, <2>6
    <3>2. SumFunctionOnSet(new, Pool) = SumFunctionOnSet(old, Pool) - old[p] + new[p]
      <4>1. \A x \in Pool \ {p} : new[x] = old[x]
        BY <2>5
      <4> QED BY <2>6, <3>1, <4>1, FifthsChange
    <3>3. SumFunctionOnSet(old, Pool) \in Nat
      BY <2>6, SumNat
    <3> QED BY <1>7, <2>5, <2>6, <3>2, <3>3
  <2>8. c.reserve[Root] + c.paid[Root]
          = c.funded[Root] + Allocated(c, Root) + SumFunctionOnSet(new, Pool)
    <3>1. b.reserve[Root] + b.paid[Root]
            = b.funded[Root] + Allocated(b, Root) + SumFunctionOnSet(old, Pool)
      BY DEF Exact, ReservesAdd, old
    <3>2. c.reserve[Root] = b.reserve[Root] + q
      BY <1>1, <1>6, <2>1 DEF v
    <3>3. Allocated(c, Root) = Allocated(b, Root) /\ Allocated(b, Root) \in Nat
      BY <1>1, <2>5, AllocatedTyped
    <3>4. SumFunctionOnSet(old, Pool) \in Nat
      BY <2>6, SumNat
    <3> QED BY <1>6, <1>7, <2>1, <2>7, <3>1, <3>2, <3>3, <3>4
  <2> QED BY <2>4, <2>8 DEF ReservesAdd, new
<1>16. c.totalReserve <= c.accounted[Usdc] /\ c.accounted = b.accounted
  <2>1. b.totalReserve \in Nat /\ b.accounted[Usdc] \in Nat
    BY <1>1, Names DEF IsBook
  <2> QED BY <1>2, <1>6, <2>1
<1> QED BY <1>9, <1>13, <1>14, <1>15, <1>16, <1>17 DEF Sound, Exact, BudgetsExact, c

LEMMA CreditSound ==
  ASSUME NEW b, Exact(b), NEW s \in Source, NEW amount \in Nat,
         b.totalReserve + amount <= b.accounted[Usdc]
  PROVE  Sound(Credit(b, s, amount)) /\ Credit(b, s, amount).accounted = b.accounted
<1>1. CASE s = Root
  BY <1>1, CreditRootSound DEF Credit
<1>2. CASE s # Root
  <2>1. s \in Pool
    BY <1>2 DEF Source
  <2> QED BY <1>2, <2>1, CreditPoolSound DEF Credit
<1> QED BY <1>1, <1>2

(* An operation that leaves the figures of every budget alone.               *)
LEMMA BudgetsUntouched ==
  ASSUME NEW b, Exact(b), NEW c, IsBook(c),
         c.reserve = b.reserve, c.totalReserve = b.totalReserve,
         c.remainder = b.remainder, c.bridgeRemainder = b.bridgeRemainder, c.revenue = b.revenue,
         c.funded = b.funded, c.paid = b.paid
  PROVE  Exact(c)
<1>1. ASSUME NEW s \in Source PROVE CarryExact(c, s)
  BY SourceUntouched DEF Exact, BudgetsExact
<1>2. ASSUME NEW s \in Pool PROVE PoolBudgetExact(c, s)
  BY Names, PoolUntouched DEF Exact, BudgetsExact
<1>3. ReservesAdd(c)
  <2>1. ReservesAdd(b) /\ \A x : Allocated(c, x) = Allocated(b, x) /\ ForBridges(c, x) = ForBridges(b, x)
    BY DEF Exact, Allocated, ForBridges
  <2> QED BY <2>1 DEF ReservesAdd
<1> QED BY <1>1, <1>2, <1>3 DEF Exact, BudgetsExact

LEMMA CountedExact ==
  ASSUME NEW b, Exact(b), NEW t \in Token, NEW amount \in Nat
  PROVE  /\ Exact(Counted(b, t, amount))
         /\ Counted(b, t, amount).accounted = [b.accounted EXCEPT ![t] = @ + amount]
         /\ Counted(b, t, amount).totalReserve = b.totalReserve
<1> DEFINE c == Counted(b, t, amount)
<1>1. IsBook(b)
  BY DEF Exact
<1>2. /\ DOMAIN c = Field
      /\ c.accounted = [b.accounted EXCEPT ![t] = @ + amount]
      /\ c.pending = b.pending /\ c.reserve = b.reserve /\ c.totalReserve = b.totalReserve
      /\ c.remainder = b.remainder /\ c.bridgeRemainder = b.bridgeRemainder
      /\ c.revenue = b.revenue /\ c.funded = b.funded /\ c.paid = b.paid
  BY <1>1 DEF Counted, IsBook, Field
<1> HIDE DEF c
<1>3. IsBook(c)
  BY <1>1, <1>2 DEF IsBook
<1>4. Exact(c)
  BY <1>2, <1>3, BudgetsUntouched
<1> QED BY <1>2, <1>4 DEF c

LEMMA OwedSound ==
  ASSUME NEW b, Sound(b), NEW s \in Source, NEW t \in FeeToken, NEW amount \in Nat
  PROVE  Sound(Owed(b, s, t, amount)) /\ Owed(b, s, t, amount).accounted = b.accounted
<1> DEFINE c == Owed(b, s, t, amount)
<1>1. IsBook(b) /\ Exact(b)
  BY DEF Sound, Exact
<1>2. /\ DOMAIN c = Field
      /\ c.accounted = b.accounted
      /\ c.pending = [b.pending EXCEPT ![s][t] = @ + amount]
      /\ c.reserve = b.reserve /\ c.totalReserve = b.totalReserve
      /\ c.remainder = b.remainder /\ c.bridgeRemainder = b.bridgeRemainder
      /\ c.revenue = b.revenue /\ c.funded = b.funded /\ c.paid = b.paid
  BY <1>1 DEF Owed, IsBook, Field
<1> HIDE DEF c
<1>3. c.pending \in [Source -> [FeeToken -> Nat]]
  <2>1. b.pending \in [Source -> [FeeToken -> Nat]]
    BY <1>1 DEF IsBook
  <2> QED BY <1>2, <2>1
<1>4. IsBook(c)
  BY <1>1, <1>2, <1>3 DEF IsBook
<1>5. Exact(c)
  BY <1>1, <1>2, <1>4, BudgetsUntouched
<1> QED BY <1>2, <1>5 DEF c, Sound

(* A receipt is counted and attributed, and nothing else changes.            *)
LEMMA ReceiveSound ==
  ASSUME NEW b, Sound(b), NEW s \in Source, NEW t \in Token, NEW amount \in Nat
  PROVE  /\ Sound(Receive(b, s, t, amount))
         /\ Receive(b, s, t, amount).accounted = [b.accounted EXCEPT ![t] = @ + amount]
<1> DEFINE c == Counted(b, t, amount)
<1>1. /\ Exact(c) /\ c.accounted = [b.accounted EXCEPT ![t] = @ + amount]
      /\ c.totalReserve = b.totalReserve
  BY CountedExact DEF Sound
<1>2. /\ b.accounted \in [Token -> Nat] /\ b.totalReserve \in Nat
      /\ b.totalReserve <= b.accounted[Usdc]
  BY DEF Sound, Exact, IsBook
<1>3. CASE t = Usdc
  <2>1. c.totalReserve + amount <= c.accounted[Usdc]
    BY <1>1, <1>2, <1>3
  <2> HIDE DEF c
  <2>2. Receive(b, s, t, amount) = Credit(c, s, amount)
    BY <1>3 DEF Receive, c
  <2>3. Sound(Credit(c, s, amount)) /\ Credit(c, s, amount).accounted = c.accounted
    BY <1>1, <2>1, CreditSound
  <2> QED BY <1>1, <2>2, <2>3
<1>4. CASE t # Usdc
  <2>1. t \in FeeToken
    BY <1>4 DEF Token
  <2>2. c.totalReserve <= c.accounted[Usdc]
    BY <1>1, <1>2, <1>4, Names
  <2> HIDE DEF c
  <2>3. Receive(b, s, t, amount) = Owed(c, s, t, amount)
    BY <1>4 DEF Receive, c
  <2>4. Sound(c)
    BY <1>1, <2>2 DEF Sound
  <2> QED BY <1>1, <2>1, <2>3, <2>4, OwedSound
<1> QED BY <1>3, <1>4

(***************************************************************************)
(* What is pending of the fee tokens.                                        *)
(***************************************************************************)
LEMMA PendingSame ==
  ASSUME NEW b, PendingAdds(b), NEW c, c.pending = b.pending,
         \A t \in FeeToken : c.accounted[t] = b.accounted[t]
  PROVE  PendingAdds(c)
BY DEF PendingAdds

(* What is counted of a token and what is pending of it change alike.        *)
LEMMA PendingChange ==
  ASSUME NEW b, IsBook(b), PendingAdds(b), NEW s \in Source, NEW t \in FeeToken,
         NEW v \in Nat, NEW c,
         c.pending = [b.pending EXCEPT ![s][t] = v],
         c.accounted = [b.accounted EXCEPT ![t] = @ - b.pending[s][t] + v]
  PROVE  PendingAdds(c)
<1>1. /\ b.pending \in [Source -> [FeeToken -> Nat]] /\ b.accounted \in [Token -> Nat]
      /\ FeeToken \subseteq Token
  BY Names DEF IsBook
<1>2. ASSUME NEW u \in FeeToken
      PROVE  c.accounted[u] = SumFunctionOnSet([x \in Source |-> c.pending[x][u]], Source)
  <2> DEFINE f == [x \in Source |-> b.pending[x][u]]
             g == [x \in Source |-> c.pending[x][u]]
  <2>1. b.accounted[u] = SumFunctionOnSet(f, Source)
    BY DEF PendingAdds
  <2>2. CASE u = t
    <3>1. /\ f \in [Source -> Nat] /\ g \in [Source -> Nat] /\ f[s] = b.pending[s][t] /\ g[s] = v
          /\ \A x \in Source \ {s} : g[x] = f[x]
      BY <1>1, <2>2
    <3>2. c.accounted[u] = b.accounted[u] - b.pending[s][t] + v
      BY <1>1, <2>2
    <3> HIDE DEF f, g
    <3>3. SumFunctionOnSet(g, Source) = SumFunctionOnSet(f, Source) - f[s] + g[s]
      BY <3>1, SourceSumChange
    <3>4. c.accounted[u] = SumFunctionOnSet(g, Source)
      BY <2>1, <3>1, <3>2, <3>3
    <3> QED BY <3>4 DEF g
  <2>3. CASE u # t
    <3>1. c.accounted[u] = b.accounted[u] /\ g = f
      BY <1>1, <2>3
    <3> QED BY <2>1, <3>1
  <2> QED BY <2>2, <2>3
<1> QED BY <1>2 DEF PendingAdds

LEMMA CreditFees ==
  ASSUME NEW b, IsBook(b), NEW s, NEW amount
  PROVE  Credit(b, s, amount).pending = b.pending /\ Credit(b, s, amount).accounted = b.accounted
BY DEF Credit, CreditRoot, CreditPool, IsBook, Field

LEMMA ReceiveFees ==
  ASSUME NEW b, IsBook(b), PendingAdds(b), NEW s \in Source, NEW t \in Token, NEW amount \in Nat
  PROVE  PendingAdds(Receive(b, s, t, amount))
<1> DEFINE c == Counted(b, t, amount)
           d == Receive(b, s, t, amount)
<1>1. /\ c.accounted = [b.accounted EXCEPT ![t] = @ + amount] /\ c.pending = b.pending
      /\ DOMAIN c = Field
  BY DEF Counted, IsBook, Field
<1>2. /\ b.pending \in [Source -> [FeeToken -> Nat]] /\ b.accounted \in [Token -> Nat]
      /\ Usdc \notin FeeToken /\ FeeToken \subseteq Token
  BY Names DEF IsBook
<1>3. CASE t = Usdc
  <2>1. d = Credit(c, s, amount)
    BY <1>3 DEF Receive
  <2>2. IsBook(c)
    BY <1>2 DEF Counted, IsBook, Field
  <2> HIDE DEF c, d
  <2>3. d.pending = b.pending /\ \A u \in FeeToken : d.accounted[u] = b.accounted[u]
    BY <1>1, <1>2, <1>3, <2>1, <2>2, CreditFees
  <2>4. PendingAdds(d)
    BY <2>3, PendingSame
  <2> QED BY <2>4 DEF d
<1>4. CASE t # Usdc
  <2>1. t \in FeeToken /\ d = Owed(c, s, t, amount)
    BY <1>4 DEF Receive, Token
  <2> DEFINE v == b.pending[s][t] + amount
  <2> HIDE DEF c, d
  <2>2. d.accounted = c.accounted /\ d.pending = [c.pending EXCEPT ![s][t] = @ + amount]
    BY <1>1, <2>1 DEF Owed, Field
  <2>3. d.pending = [b.pending EXCEPT ![s][t] = v]
    BY <1>1, <1>2, <2>1, <2>2
  <2>4. v \in Nat /\ b.accounted[t] + amount = b.accounted[t] - b.pending[s][t] + v
    BY <1>2, <2>1
  <2>5. d.accounted = [b.accounted EXCEPT ![t] = @ - b.pending[s][t] + v]
    BY <1>1, <1>2, <2>1, <2>2, <2>4
  <2> HIDE DEF v
  <2>6. PendingAdds(d)
    BY <2>1, <2>3, <2>4, <2>5, PendingChange
  <2> QED BY <2>6 DEF d
<1> QED BY <1>3, <1>4

(***************************************************************************)
(* The book and what the Treasury holds.                                     *)
(***************************************************************************)
Held(b, held) == /\ Sound(b)
                 /\ PendingAdds(b)
                 /\ held \in [Token -> Nat]
                 /\ \A t \in Token : b.accounted[t] <= held[t]

LEMMA ReceiveHeld ==
  ASSUME NEW b, NEW held, Held(b, held), NEW s \in Source, NEW t \in Token, NEW amount \in Nat
  PROVE  Held(Receive(b, s, t, amount), [held EXCEPT ![t] = @ + amount])
<1> DEFINE c == Receive(b, s, t, amount)
           h == [held EXCEPT ![t] = @ + amount]
<1>1. Sound(c) /\ c.accounted = [b.accounted EXCEPT ![t] = @ + amount]
  BY ReceiveSound DEF Held
<1>2. b.accounted \in [Token -> Nat] /\ held \in [Token -> Nat]
  BY DEF Held, Sound, Exact, IsBook
<1>4. PendingAdds(c)
  BY ReceiveFees DEF Held, Sound, Exact
<1> HIDE DEF c
<1>3. ASSUME NEW u \in Token PROVE c.accounted[u] <= h[u]
  <2>1. b.accounted[u] \in Nat /\ held[u] \in Nat /\ b.accounted[u] <= held[u]
    BY <1>2 DEF Held
  <2> QED BY <1>1, <1>2, <2>1
<1> QED BY <1>1, <1>2, <1>3, <1>4 DEF Held, c

(* Counting what is held and not counted yet.                                *)
LEMMA SyncedHeld ==
  ASSUME NEW b, NEW held, Held(b, held), NEW t \in Token
  PROVE  /\ Held(Synced(b, held, t), held)
         /\ Synced(b, held, t).accounted[t] = held[t]
<1> DEFINE c == Synced(b, held, t)
           n == held[t] - b.accounted[t]
<1>1. /\ b.accounted \in [Token -> Nat] /\ held \in [Token -> Nat]
      /\ b.accounted[t] <= held[t]
  BY DEF Held, Sound, Exact, IsBook
<1>2. n \in Nat /\ b.accounted[t] + n = held[t]
  BY <1>1
<1>3. c = Receive(b, Root, t, n)
  BY DEF Synced
<1> HIDE DEF c, n
<1>4. Sound(c) /\ c.accounted = [b.accounted EXCEPT ![t] = @ + n]
  BY <1>2, <1>3, Names, ReceiveSound DEF Held
<1>5. ASSUME NEW u \in Token PROVE c.accounted[u] <= held[u]
  <2>1. b.accounted[u] \in Nat /\ held[u] \in Nat /\ b.accounted[u] <= held[u]
    BY <1>1 DEF Held
  <2> QED BY <1>1, <1>2, <1>4, <2>1
<1>6. c.accounted[t] = held[t]
  BY <1>1, <1>2, <1>4
<1>7. PendingAdds(c)
  BY <1>2, <1>3, Names, ReceiveFees DEF Held, Sound, Exact
<1> QED BY <1>1, <1>4, <1>5, <1>6, <1>7 DEF Held, c

(* A gift to the budget of a source.                                         *)
LEMMA FundHeld ==
  ASSUME NEW b, NEW held, Held(b, held), NEW s \in Source, NEW amount \in Nat
  PROVE  Held(Fund(b, s, amount), [held EXCEPT ![Usdc] = @ + amount])
<1> DEFINE c == Fund(b, s, amount)
           h == [held EXCEPT ![Usdc] = @ + amount]
<1>1. IsBook(b) /\ Exact(b) /\ held \in [Token -> Nat]
  BY DEF Held, Sound, Exact
<1>2. /\ DOMAIN c = Field
      /\ c.accounted = [b.accounted EXCEPT ![Usdc] = @ + amount]
      /\ c.pending = b.pending
      /\ c.reserve = [b.reserve EXCEPT ![s] = @ + amount]
      /\ c.totalReserve = b.totalReserve + amount
      /\ c.remainder = b.remainder /\ c.bridgeRemainder = b.bridgeRemainder
      /\ c.revenue = b.revenue
      /\ c.funded = [b.funded EXCEPT ![s] = @ + amount]
      /\ c.paid = b.paid
  BY <1>1 DEF Fund, IsBook, Field
<1> HIDE DEF c
<1>3. IsBook(c)
  BY <1>1, <1>2, Names DEF IsBook
<1>4. ASSUME NEW x \in Source PROVE CarryExact(c, x)
  BY <1>1, <1>2, SourceUntouched DEF Exact, BudgetsExact
<1>5. ASSUME NEW x \in Pool PROVE PoolBudgetExact(c, x)
  <2>1. x \in Source /\ PoolBudgetExact(b, x)
    BY <1>1, Names DEF Exact, BudgetsExact
  <2>2. CASE x # s
    <3>1. c.reserve[x] = b.reserve[x] /\ c.funded[x] = b.funded[x]
      BY <1>1, <1>2, <2>1, <2>2 DEF IsBook
    <3> QED BY <1>2, <2>1, <3>1, PoolUntouched
  <2>3. CASE x = s
    <3>1. c.reserve[x] = b.reserve[x] + amount /\ c.funded[x] = b.funded[x] + amount
      BY <1>1, <1>2, <2>1, <2>3 DEF IsBook
    <3>2. /\ c.bridgeRemainder[x] = Allocated(c, x) % BRIDGE_SHARE
          /\ Allocated(c, x) = Allocated(b, x) /\ ForBridges(c, x) = ForBridges(b, x)
          /\ b.reserve[x] + b.paid[x] = b.funded[x] + Allocated(b, x) - ForBridges(b, x)
      BY <1>2, <2>1 DEF PoolBudgetExact, Allocated, ForBridges
    <3>3. Allocated(b, x) \in Nat /\ ForBridges(b, x) \in Nat
      BY <1>1, <2>1, AllocatedTyped
    <3>4. b.reserve[x] \in Nat /\ b.paid[x] \in Nat /\ b.funded[x] \in Nat
      BY <1>1, <2>1, SourceTyped
    <3>5. c.reserve[x] + c.paid[x] = c.funded[x] + Allocated(c, x) - ForBridges(c, x)
      BY <1>2, <3>1, <3>2, <3>3, <3>4
    <3> QED BY <3>2, <3>5 DEF PoolBudgetExact
  <2> QED BY <2>2, <2>3
<1>6. c.totalReserve <= c.accounted[Usdc]
  BY <1>1, <1>2, Names DEF IsBook, Held, Sound
<1>7. ASSUME NEW u \in Token PROVE c.accounted[u] <= h[u]
  <2>1. /\ b.accounted[u] \in Nat /\ held[u] \in Nat /\ b.accounted[u] <= held[u]
        /\ b.accounted \in [Token -> Nat]
    BY <1>1 DEF Held, IsBook
  <2> QED BY <1>1, <1>2, <2>1, Names
<1>10. ReservesAdd(c)
  <2> DEFINE v == b.reserve[s] + amount
  <2>1. /\ b.reserve[s] \in Nat /\ b.funded[s] \in Nat /\ b.paid[s] \in Nat
        /\ b.totalReserve \in Nat /\ b.funded \in [Source -> Nat] /\ ReservesAdd(b)
    BY <1>1 DEF IsBook, Exact
  <2>2. v \in Nat /\ c.reserve = [b.reserve EXCEPT ![s] = v]
        /\ c.totalReserve = b.totalReserve - b.reserve[s] + v
    BY <1>2, <2>1
  <2>3. /\ Root # s => c.paid[Root] = b.paid[Root] /\ c.funded[Root] = b.funded[Root]
        /\ c.paid[s] \in Nat /\ c.funded[s] \in Nat
        /\ v + c.paid[s] - c.funded[s] = b.reserve[s] + b.paid[s] - b.funded[s]
    BY <1>2, <2>1, Names
  <2> HIDE DEF v
  <2> QED BY <1>1, <1>2, <2>1, <2>2, <2>3, OneBudget
<1>11. PendingAdds(c)
  <2>1. \A t \in FeeToken : c.accounted[t] = b.accounted[t]
    BY <1>1, <1>2, Names DEF IsBook
  <2> QED BY <1>2, <2>1, PendingSame DEF Held
<1>8. Sound(c)
  BY <1>3, <1>4, <1>5, <1>6, <1>10 DEF Sound, Exact, BudgetsExact
<1>9. h \in [Token -> Nat]
  BY <1>1, Names
<1> QED BY <1>7, <1>8, <1>9, <1>11 DEF Held, c

(* A sale takes what the source has pending.                                 *)
LEMMA SoldHeld ==
  ASSUME NEW b, NEW held, Held(b, held), NEW s \in Source, NEW t \in FeeToken,
         NEW amountIn \in Nat, MayConvert(b, s, t, amountIn)
  PROVE  Held(Sold(b, s, t, amountIn), [held EXCEPT ![t] = @ - amountIn])
<1> DEFINE c == Sold(b, s, t, amountIn)
           h == [held EXCEPT ![t] = @ - amountIn]
<1>1. /\ IsBook(b) /\ Exact(b) /\ held \in [Token -> Nat]
      /\ t \in Token /\ t # Usdc /\ Usdc \in Token
      /\ b.accounted \in [Token -> Nat] /\ b.pending \in [Source -> [FeeToken -> Nat]]
  BY Names DEF Held, Sound, Exact, IsBook
<1>2. /\ DOMAIN c = Field
      /\ c.accounted = [b.accounted EXCEPT ![t] = @ - amountIn]
      /\ c.pending = [b.pending EXCEPT ![s][t] = @ - amountIn]
      /\ c.reserve = b.reserve /\ c.totalReserve = b.totalReserve
      /\ c.remainder = b.remainder /\ c.bridgeRemainder = b.bridgeRemainder
      /\ c.revenue = b.revenue /\ c.funded = b.funded /\ c.paid = b.paid
  BY <1>1 DEF Sold, IsBook, Field
<1> HIDE DEF c
<1>3. /\ b.pending[s][t] \in Nat /\ amountIn <= b.pending[s][t]
      /\ b.accounted[t] \in Nat /\ amountIn <= b.accounted[t]
  BY <1>1 DEF MayConvert
<1>4. /\ c.accounted \in [Token -> Nat]
      /\ c.pending \in [Source -> [FeeToken -> Nat]]
  <2>1. b.pending[s][t] - amountIn \in Nat /\ b.accounted[t] - amountIn \in Nat
    BY <1>3
  <2> QED BY <1>1, <1>2, <2>1
<1>5. IsBook(c)
  BY <1>1, <1>2, <1>4 DEF IsBook
<1>6. Exact(c)
  BY <1>1, <1>2, <1>5, BudgetsUntouched
<1>7. c.totalReserve <= c.accounted[Usdc]
  BY <1>1, <1>2 DEF Held, Sound
<1>8. ASSUME NEW u \in Token PROVE c.accounted[u] <= h[u] /\ h[u] \in Nat
  <2>1. b.accounted[u] \in Nat /\ held[u] \in Nat /\ b.accounted[u] <= held[u]
    BY <1>1 DEF Held
  <2> QED BY <1>1, <1>2, <1>3, <2>1
<1>9. h \in [Token -> Nat]
  BY <1>1, <1>8
<1>10. PendingAdds(c)
  <2> DEFINE v == b.pending[s][t] - amountIn
  <2>1. v \in Nat /\ b.accounted[t] - amountIn = b.accounted[t] - b.pending[s][t] + v
    BY <1>3
  <2>2. /\ c.pending = [b.pending EXCEPT ![s][t] = v]
        /\ c.accounted = [b.accounted EXCEPT ![t] = @ - b.pending[s][t] + v]
    BY <1>1, <1>2, <2>1
  <2> HIDE DEF v
  <2>3. PendingAdds(b) /\ IsBook(b) /\ v \in Nat
    BY <1>1, <2>1 DEF Held
  <2> QED BY <2>2, <2>3, PendingChange
<1> QED BY <1>6, <1>7, <1>8, <1>9, <1>10 DEF Held, Sound, c

(* A conversion takes a fee token and counts the USDC bought.                *)
LEMMA ConvertedHeld ==
  ASSUME NEW b, NEW held, Held(b, held), NEW s \in Source, NEW t \in FeeToken,
         NEW amountIn \in Nat, MayConvert(b, s, t, amountIn), NEW amountOut \in Nat
  PROVE  Held(Converted(b, s, t, amountIn, amountOut),
              [held EXCEPT ![t] = @ - amountIn, ![Usdc] = @ + amountOut])
<1> DEFINE h == [held EXCEPT ![t] = @ - amountIn]
<1>1. Held(Sold(b, s, t, amountIn), h)
  BY SoldHeld
<1>2. held \in [Token -> Nat] /\ t \in Token /\ t # Usdc /\ Usdc \in Token
  BY Names DEF Held
<1>3. [held EXCEPT ![t] = @ - amountIn, ![Usdc] = @ + amountOut]
        = [h EXCEPT ![Usdc] = @ + amountOut]
  BY <1>2
<1> HIDE DEF h
<1>4. Held(Receive(Sold(b, s, t, amountIn), s, Usdc, amountOut), [h EXCEPT ![Usdc] = @ + amountOut])
  BY <1>1, <1>2, ReceiveHeld
<1> QED BY <1>3, <1>4 DEF Converted

(* USDC that leaves beyond the reserves.                                     *)
LEMMA DebitHeld ==
  ASSUME NEW b, NEW held, Held(b, held), NEW amount \in Nat,
         b.totalReserve + amount <= b.accounted[Usdc]
  PROVE  Held(Debit(b, amount), [held EXCEPT ![Usdc] = @ - amount])
<1> DEFINE c == Debit(b, amount)
           h == [held EXCEPT ![Usdc] = @ - amount]
<1>1. /\ IsBook(b) /\ Exact(b) /\ held \in [Token -> Nat] /\ Usdc \in Token
      /\ b.accounted \in [Token -> Nat] /\ b.totalReserve \in Nat
  BY Names DEF Held, Sound, Exact, IsBook
<1>2. /\ DOMAIN c = Field
      /\ c.accounted = [b.accounted EXCEPT ![Usdc] = @ - amount]
      /\ c.pending = b.pending
      /\ c.reserve = b.reserve /\ c.totalReserve = b.totalReserve
      /\ c.remainder = b.remainder /\ c.bridgeRemainder = b.bridgeRemainder
      /\ c.revenue = b.revenue /\ c.funded = b.funded /\ c.paid = b.paid
  BY <1>1 DEF Debit, IsBook, Field
<1> HIDE DEF c
<1>3. b.accounted[Usdc] - amount \in Nat
  BY <1>1
<1>4. IsBook(c)
  <2>1. c.accounted \in [Token -> Nat]
    BY <1>1, <1>2, <1>3
  <2> QED BY <1>1, <1>2, <2>1 DEF IsBook
<1>5. Exact(c)
  BY <1>1, <1>2, <1>4, BudgetsUntouched
<1>6. c.totalReserve <= c.accounted[Usdc]
  BY <1>1, <1>2
<1>7. ASSUME NEW u \in Token PROVE c.accounted[u] <= h[u] /\ h[u] \in Nat
  <2>1. /\ b.accounted[u] \in Nat /\ held[u] \in Nat /\ b.accounted[u] <= held[u]
        /\ b.accounted[Usdc] \in Nat /\ held[Usdc] \in Nat /\ b.accounted[Usdc] <= held[Usdc]
    BY <1>1 DEF Held
  <2> QED BY <1>1, <1>2, <1>3, <2>1
<1>8. h \in [Token -> Nat]
  BY <1>1, <1>7
<1>9. PendingAdds(c)
  <2>1. \A t \in FeeToken : c.accounted[t] = b.accounted[t]
    BY <1>1, <1>2, Names
  <2> QED BY <1>2, <2>1, PendingSame DEF Held
<1> QED BY <1>5, <1>6, <1>7, <1>8, <1>9 DEF Held, Sound, c

(* A bounty leaves the budget it is paid from and the total alike.           *)
LEMMA SpendHeld ==
  ASSUME NEW b, NEW held, Held(b, held), NEW s \in Source, NEW amount \in Nat,
         MaySpend(b, s, amount)
  PROVE  Held(Spend(b, s, amount), [held EXCEPT ![Usdc] = @ - amount])
<1> DEFINE c == Spend(b, s, amount)
           h == [held EXCEPT ![Usdc] = @ - amount]
<1>1. /\ IsBook(b) /\ Exact(b) /\ held \in [Token -> Nat] /\ Usdc \in Token
      /\ b.accounted \in [Token -> Nat] /\ b.totalReserve \in Nat
      /\ b.reserve \in [Source -> Nat] /\ b.paid \in [Source -> Nat]
      /\ b.totalReserve <= b.accounted[Usdc]
  BY Names DEF Held, Sound, Exact, IsBook
<1>2. /\ DOMAIN c = Field
      /\ c.accounted = [b.accounted EXCEPT ![Usdc] = @ - amount]
      /\ c.pending = b.pending
      /\ c.reserve = [b.reserve EXCEPT ![s] = @ - amount]
      /\ c.totalReserve = b.totalReserve - amount
      /\ c.remainder = b.remainder /\ c.bridgeRemainder = b.bridgeRemainder
      /\ c.revenue = b.revenue /\ c.funded = b.funded
      /\ c.paid = [b.paid EXCEPT ![s] = @ + amount]
  BY <1>1 DEF Spend, IsBook, Field
<1> HIDE DEF c
<1>3. /\ b.accounted[Usdc] - amount \in Nat /\ b.totalReserve - amount \in Nat
      /\ b.reserve[s] - amount \in Nat
  BY <1>1 DEF MaySpend
<1>4. IsBook(c)
  <2>1. /\ c.accounted \in [Token -> Nat] /\ c.totalReserve \in Nat
        /\ c.reserve \in [Source -> Nat] /\ c.paid \in [Source -> Nat]
    BY <1>1, <1>2, <1>3
  <2> QED BY <1>1, <1>2, <2>1 DEF IsBook
<1>5. ASSUME NEW x \in Source PROVE CarryExact(c, x)
  BY <1>1, <1>2, SourceUntouched DEF Exact, BudgetsExact
<1>6. ASSUME NEW x \in Pool PROVE PoolBudgetExact(c, x)
  <2>1. x \in Source /\ PoolBudgetExact(b, x)
    BY <1>1, Names DEF Exact, BudgetsExact
  <2>2. CASE x # s
    <3>1. c.reserve[x] = b.reserve[x] /\ c.paid[x] = b.paid[x]
      BY <1>1, <1>2, <2>1, <2>2
    <3> QED BY <1>2, <2>1, <3>1, PoolUntouched
  <2>3. CASE x = s
    <3>1. /\ c.reserve[x] = b.reserve[x] - amount /\ c.paid[x] = b.paid[x] + amount
          /\ b.reserve[x] \in Nat /\ b.paid[x] \in Nat
      BY <1>1, <1>2, <2>1, <2>3
    <3>2. c.reserve[x] + c.paid[x] = b.reserve[x] + b.paid[x]
      BY <3>1
    <3>3. /\ c.bridgeRemainder[x] = Allocated(c, x) % BRIDGE_SHARE
          /\ Allocated(c, x) = Allocated(b, x) /\ ForBridges(c, x) = ForBridges(b, x)
          /\ b.reserve[x] + b.paid[x] = b.funded[x] + Allocated(b, x) - ForBridges(b, x)
      BY <1>2, <2>1 DEF PoolBudgetExact, Allocated, ForBridges
    <3> QED BY <1>2, <3>2, <3>3 DEF PoolBudgetExact
  <2> QED BY <2>2, <2>3
<1>10. ReservesAdd(c)
  <2> DEFINE v == b.reserve[s] - amount
  <2>1. /\ b.reserve[s] \in Nat /\ b.funded[s] \in Nat /\ b.paid[s] \in Nat /\ ReservesAdd(b)
    BY <1>1 DEF IsBook, Exact
  <2>2. v \in Nat /\ c.reserve = [b.reserve EXCEPT ![s] = v]
        /\ c.totalReserve = b.totalReserve - b.reserve[s] + v
    BY <1>1, <1>2, <1>3, <2>1
  <2>3. /\ Root # s => c.paid[Root] = b.paid[Root] /\ c.funded[Root] = b.funded[Root]
        /\ c.paid[s] \in Nat /\ c.funded[s] \in Nat
        /\ v + c.paid[s] - c.funded[s] = b.reserve[s] + b.paid[s] - b.funded[s]
    BY <1>1, <1>2, <2>1, Names
  <2> HIDE DEF v
  <2> QED BY <1>1, <1>2, <2>1, <2>2, <2>3, OneBudget
<1>11. PendingAdds(c)
  <2>1. \A t \in FeeToken : c.accounted[t] = b.accounted[t]
    BY <1>1, <1>2, Names
  <2> QED BY <1>2, <2>1, PendingSame DEF Held
<1>7. Sound(c)
  <2>1. c.totalReserve <= c.accounted[Usdc]
    BY <1>1, <1>2, <1>3
  <2> QED BY <1>4, <1>5, <1>6, <1>10, <2>1 DEF Sound, Exact, BudgetsExact
<1>8. ASSUME NEW u \in Token PROVE c.accounted[u] <= h[u] /\ h[u] \in Nat
  <2>1. /\ b.accounted[u] \in Nat /\ held[u] \in Nat /\ b.accounted[u] <= held[u]
        /\ b.accounted[Usdc] \in Nat /\ held[Usdc] \in Nat /\ b.accounted[Usdc] <= held[Usdc]
    BY <1>1 DEF Held
  <2> QED BY <1>1, <1>2, <1>3, <2>1
<1>9. h \in [Token -> Nat]
  BY <1>1, <1>8
<1> QED BY <1>7, <1>8, <1>9, <1>11 DEF Held, c

(***************************************************************************)
(* The Treasury's handlers.                                                  *)
(***************************************************************************)
Daily   == /\ limits \in [Actor -> [day : Nat, spent : Nat, epoch : Nat]]
           /\ today \in [Actor -> Nat]
           /\ LimitsCurrent
Pausing == /\ pause \in [on : BOOLEAN, until : Nat]
           /\ nextPauseAt \in Nat
           /\ PauseSound

Windows == /\ clock \in Time
           /\ windows \in [Source -> [FeeToken -> [started : Nat, spent : Nat]]]
           /\ sold \in [Source -> [FeeToken -> [Time -> Nat]]]
           /\ WindowsSound

LEMMA Times == IsFiniteSet(Time) /\ Time \subseteq Nat
<1>1. Genesis \in Nat /\ Horizon \in Nat
  BY TreasuryAssumption DEF TreasuryAssumption
<1> QED BY <1>1, FS_Interval DEF Time

LEMMA Parts == IInv <=> clock \in Nat /\ Held(book, balance) /\ Windows /\ Daily /\ Pausing
BY Times
   DEF IInv, TypeOK, Windows, Held, Sound, Exact, BooksBalance, ReservesHeld, Daily, Pausing

LEMMA PartsNext ==
  Held(book', balance') /\ Windows' /\ Daily' /\ Pausing' => IInv'
BY DEF IInv, TypeOK, Windows, Held, Sound, Exact, BooksBalance, ReservesHeld, Daily, Pausing

(* A bounty within the cap of its contract, paid from the contract's pool.   *)
LEMMA BountyStep ==
  ASSUME IInv, NEW a \in Actor, NEW e \in Nat, ConsumeDailyLimit(a, e), PayBounty(a),
         clock' = clock
  PROVE  /\ Held(book', balance') /\ Daily'
         /\ DailyCapHolds => DailyCapHolds'
<1> DEFINE n == Bounty[RoleOf[a]]
<1>1. n \in Nat /\ SourceOf[a] \in Source /\ Usdc \in Token
  BY TreasuryAssumption, Names DEF TreasuryAssumption
<1>2. Held(book, balance) /\ Daily /\ clock \in Nat
  BY Parts
<1>3. Held(book', balance')
  <2>1. Held(Synced(book, balance, Usdc), balance)
    BY <1>1, <1>2, SyncedHeld
  <2>2. /\ MaySpend(Synced(book, balance, Usdc), SourceOf[a], n)
        /\ book' = Spend(Synced(book, balance, Usdc), SourceOf[a], n)
        /\ balance' = [balance EXCEPT ![Usdc] = @ - n]
    BY DEF PayBounty, PaidOut
  <2> HIDE DEF n
  <2> QED BY <1>1, <2>1, <2>2, SpendHeld
<1>4. /\ today' = [today EXCEPT ![a] = @ + n]
      /\ limits' = [limits EXCEPT ![a] = [day |-> Day, spent |-> SpentToday(a) + n, epoch |-> e]]
  BY DEF PayBounty, ConsumeDailyLimit
<1>5. Day \in Nat /\ Day' = Day
  BY <1>2, TreasuryAssumption, DayGrows DEF Day, TreasuryAssumption
<1>6. /\ limits \in [Actor -> [day : Nat, spent : Nat, epoch : Nat]]
      /\ today \in [Actor -> Nat]
      /\ \A x \in Actor : limits[x].day <= Day /\ today[x] = SpentToday(x)
  BY <1>2 DEF Daily, LimitsCurrent
<1>7. SpentToday(a) \in Nat
  BY <1>6
<1>8. Daily'
  <2>1. /\ limits' \in [Actor -> [day : Nat, spent : Nat, epoch : Nat]]
        /\ today' \in [Actor -> Nat]
    <3>1. [day |-> Day, spent |-> SpentToday(a) + n, epoch |-> e]
            \in [day : Nat, spent : Nat, epoch : Nat]
      BY <1>1, <1>5, <1>7
    <3>2. today[a] + n \in Nat
      BY <1>1, <1>6
    <3> HIDE DEF n
    <3> QED BY <1>4, <1>6, <3>1, <3>2
  <2>2. ASSUME NEW x \in Actor
        PROVE  limits'[x].day <= Day' /\ today'[x] = SpentToday(x)'
    <3> HIDE DEF n
    <3>1. CASE x = a
      <4>1. /\ limits'[x] = [day |-> Day, spent |-> SpentToday(a) + n, epoch |-> e]
            /\ today'[x] = today[a] + n
        BY <1>4, <1>6, <3>1
      <4>2. SpentToday(x)' = SpentToday(a) + n
        BY <1>5, <4>1 DEF SpentToday
      <4> QED BY <1>5, <1>6, <4>1, <4>2
    <3>2. CASE x # a
      <4>1. limits'[x] = limits[x] /\ today'[x] = today[x]
        BY <1>4, <1>6, <3>2
      <4>2. SpentToday(x)' = SpentToday(x)
        BY <1>5, <4>1 DEF SpentToday
      <4> QED BY <1>5, <1>6, <4>1, <4>2
    <3> QED BY <3>1, <3>2
  <2> QED BY <2>1, <2>2 DEF Daily, LimitsCurrent
<1>9. ASSUME DailyCapHolds PROVE DailyCapHolds'
  <2>1. ASSUME NEW x \in Actor
        PROVE  (Cap[RoleOf[x]] = 0 /\ RoleOf[x] # "checkpoint") \/ today'[x] <= Cap[RoleOf[x]]
    <3>1. CASE x = a
      BY <1>4, <1>6, <3>1 DEF ConsumeDailyLimit, WithinDailyCap
    <3>2. CASE x # a
      BY <1>4, <1>6, <1>9, <3>2 DEF DailyCapHolds
    <3> QED BY <3>1, <3>2
  <2> QED BY <2>1 DEF DailyCapHolds
<1> QED BY <1>3, <1>8, <1>9

(* Handlers that leave the daily limits and the clock alone.                 *)
LEMMA DailyUntouched ==
  ASSUME Daily, limits' = limits, today' = today, clock' = clock
  PROVE  Daily' /\ (DailyCapHolds => DailyCapHolds')
<1>1. Day' = Day
  BY DEF Day
<1>2. ASSUME NEW x \in Actor PROVE SpentToday(x)' = SpentToday(x)
  BY <1>1 DEF SpentToday
<1> QED BY <1>1, <1>2 DEF Daily, LimitsCurrent, DailyCapHolds

LEMMA PausingUntouched ==
  ASSUME Pausing, pause' = pause, nextPauseAt' = nextPauseAt, clock' = clock
  PROVE  Pausing'
BY DEF Pausing, PauseSound, DistributionsPaused

LEMMA ProtectedHeld ==
  ASSUME NEW b, Held(b, balance), b.accounted[Usdc] = balance[Usdc]
  PROVE  /\ ProtectedBalance(b, balance) \in Nat
         /\ b.totalReserve <= ProtectedBalance(b, balance)
<1> DEFINE u == balance[Usdc]
           x == b.remainder[Root]
           z == b.totalReserve
<1>1. u \in Nat /\ x \in Nat /\ z \in Nat
  BY Names DEF Held, Sound, Exact, IsBook
<1>2. ProtectedBalance(b, balance) = z + ((u - u) * 500 + x) \div 10000
  BY DEF ProtectedBalance, RESERVE_BPS, BPS
<1> HIDE DEF u, x, z
<1>3. (u - u) * 500 + x = x
  BY <1>1
<1>4. x \div 10000 \in Nat
  BY <1>1
<1> QED BY <1>1, <1>2, <1>3, <1>4 DEF z

LEMMA DistributableTyped ==
  ASSUME NEW b, Held(b, balance), b.accounted[Usdc] = balance[Usdc]
  PROVE  Distributable(b, balance) \in Nat
<1>1. balance[Usdc] \in Nat
  BY Names DEF Held
<1> QED BY <1>1, ProtectedHeld DEF Distributable

(* What may be settled leaves every reserve.                                 *)
LEMMA SettledHeld ==
  ASSUME NEW b, Held(b, balance), b.accounted[Usdc] = balance[Usdc],
         NEW amount \in Nat, MaySettle(b, amount)
  PROVE  b.totalReserve + amount <= b.accounted[Usdc]
<1>1. balance[Usdc] \in Nat /\ b.totalReserve \in Nat
  BY Names DEF Held, Sound, Exact, IsBook
<1>2. 0 < amount /\ amount <= Distributable(b, balance)
  BY DEF MaySettle
<1> QED BY <1>1, <1>2, ProtectedHeld DEF Distributable

(* Counting USDC says nothing of the fee tokens.                             *)
LEMMA SyncedFees ==
  ASSUME NEW b, Held(b, balance), NEW t \in FeeToken
  PROVE  /\ Synced(b, balance, Usdc).pending = b.pending
         /\ Synced(b, balance, Usdc).accounted[t] = b.accounted[t]
<1> DEFINE n == balance[Usdc] - b.accounted[Usdc]
           c == Counted(b, Usdc, n)
<1>1. n \in Nat /\ Exact(b) /\ b.accounted \in [Token -> Nat] /\ t \in Token /\ t # Usdc
  BY Names DEF Held, Sound, Exact, IsBook
<1>2. Synced(b, balance, Usdc) = CreditRoot(c, n)
  BY DEF Synced, Receive, Credit
<1>3. Exact(c) /\ c.accounted = [b.accounted EXCEPT ![Usdc] = @ + n] /\ c.pending = b.pending
  <2>1. c.pending = b.pending
    BY <1>1 DEF Counted, Exact, IsBook, Field
  <2> HIDE DEF n
  <2> QED BY <1>1, <2>1, Names, CountedExact
<1> HIDE DEF c, n
<1>4. CreditRoot(c, n).pending = c.pending /\ CreditRoot(c, n).accounted = c.accounted
  BY <1>3 DEF CreditRoot, Exact, IsBook, Field
<1> QED BY <1>1, <1>2, <1>3, <1>4

LEMMA ConvertedStep ==
  ASSUME NEW b, Held(b, balance), NEW s \in Source, NEW t \in FeeToken, NEW amountIn \in Nat,
         ConvertSource(b, s, t, amountIn)
  PROVE  Held(book', balance')
<1>1. PICK amountOut \in {Floor(amountIn), amountIn} :
         /\ book' = Converted(Synced(b, balance, Usdc), s, t, amountIn, amountOut)
         /\ balance' = [balance EXCEPT ![t] = @ - amountIn, ![Usdc] = @ + amountOut]
  BY DEF ConvertSource
<1>2. amountOut \in Nat
  <2>1. SlippageBps \in Nat /\ SlippageBps <= 10000
    BY TreasuryAssumption DEF TreasuryAssumption, BPS
  <2>2. 10000 - SlippageBps \in Nat
    BY <2>1
  <2>3. amountIn * (10000 - SlippageBps) \in Nat
    <3> DEFINE k == 10000 - SlippageBps
    <3> HIDE DEF k
    <3>1. k \in Nat
      BY <2>2 DEF k
    <3>2. amountIn * k \in Nat
      BY <3>1
    <3> QED BY <3>2 DEF k
  <2>4. Floor(amountIn) \in Nat
    <3> DEFINE k == amountIn * (10000 - SlippageBps)
    <3>1. Floor(amountIn) = k \div 10000
      BY DEF Floor, BPS
    <3> HIDE DEF k
    <3>2. k \in Nat
      BY <2>3 DEF k
    <3> QED BY <3>1, <3>2
  <2> QED BY <2>4
<1>3. Held(Synced(b, balance, Usdc), balance)
  BY Names, SyncedHeld
<1>4. MayConvert(b, s, t, amountIn)
  BY DEF ConvertSource
<1>5. MayConvert(Synced(b, balance, Usdc), s, t, amountIn)
  BY <1>4, SyncedFees DEF MayConvert
<1> QED BY <1>1, <1>2, <1>3, <1>5, ConvertedHeld

(* Every step keeps the books, the daily sums and the pause.                 *)
LEMMA MoneyIn ==
  ASSUME IInv, NEW t \in Token, NEW amount \in Nat,
         \/ Donate(t, amount)
         \/ \E a \in Actor : RecordRevenue(a, t, amount)
         \/ t \in FeeToken /\ WrapNativeFees(t, amount)
         \/ t = Usdc /\ \E s \in Source : FundBounties(s, amount)
  PROVE  Held(book', balance')
<1> DEFINE h == [balance EXCEPT ![t] = @ + amount]
<1>1. Held(book, balance) /\ book.accounted \in [Token -> Nat] /\ balance \in [Token -> Nat]
  BY Parts DEF Held, Sound, Exact, IsBook
<1>2. Held(Synced(book, balance, t), balance)
  BY <1>1, SyncedHeld
<1>3. Held(book, h)
  <2>1. h \in [Token -> Nat] /\ \A u \in Token : balance[u] <= h[u]
    BY <1>1
  <2> HIDE DEF h
  <2>2. ASSUME NEW u \in Token PROVE book.accounted[u] <= h[u]
    <3>1. book.accounted[u] \in Nat /\ book.accounted[u] <= balance[u] /\ balance[u] \in Nat /\ h[u] \in Nat
      BY <1>1, <2>1 DEF Held
    <3> QED BY <2>1, <3>1
  <2> QED BY <1>1, <2>1, <2>2 DEF Held
<1>4. CASE Donate(t, amount)
  BY <1>3, <1>4 DEF Donate
<1>5. CASE \E a \in Actor : RecordRevenue(a, t, amount)
  <2>1. PICK a \in Actor : RecordRevenue(a, t, amount)
    BY <1>5
  <2>2. SourceOf[a] \in Source
    BY Names, TreasuryAssumption DEF TreasuryAssumption
  <2> QED BY <1>2, <2>1, <2>2, ReceiveHeld DEF RecordRevenue
<1>6. CASE WrapNativeFees(t, amount)
  <2>1. book' = Synced(book, balance', t) /\ balance' = h
    BY <1>6 DEF WrapNativeFees
  <2> HIDE DEF h
  <2>2. Held(Synced(book, h, t), h)
    BY <1>3, SyncedHeld
  <2> QED BY <2>1, <2>2
<1>7. CASE t = Usdc /\ \E s \in Source : FundBounties(s, amount)
  <2>1. PICK s \in Source : FundBounties(s, amount)
    BY <1>7
  <2>2. /\ book' = Fund(Synced(book, balance, Usdc), s, amount)
        /\ balance' = [balance EXCEPT ![Usdc] = @ + amount]
    BY <2>1 DEF FundBounties
  <2> QED BY <1>2, <1>7, <2>2, FundHeld
<1> QED BY <1>4, <1>5, <1>6, <1>7

LEMMA MoneyOut ==
  ASSUME IInv, AdminWithdraw \/ ForwardRevenue \/ BridgeRevenue
  PROVE  Held(book', balance')
<1> DEFINE b == Synced(book, balance, Usdc)
<1>1. Held(b, balance) /\ b.accounted[Usdc] = balance[Usdc] /\ Usdc \in Token
  BY Parts, Names, SyncedHeld
<1>2. /\ b.accounted[Usdc] \in Nat /\ b.totalReserve \in Nat /\ b.totalReserve <= b.accounted[Usdc]
  BY <1>1 DEF Held, Sound, Exact, IsBook
<1> HIDE DEF b
<1>4. CASE AdminWithdraw
  <2>1. PICK amount \in Amount \cup {b.accounted[Usdc] - b.totalReserve} :
          MayDebit(b, amount) /\ book' = Debit(b, amount) /\ balance' = PaidOut(amount)
    BY <1>4 DEF AdminWithdraw, b
  <2>2. amount \in Nat
    <3>1. Amount \subseteq Nat
      BY TreasuryAssumption DEF TreasuryAssumption
    <3>2. b.accounted[Usdc] - b.totalReserve \in Nat
      BY <1>2
    <3> QED BY <3>1, <3>2
  <2>3. b.totalReserve + amount <= b.accounted[Usdc]
    BY <1>2, <2>1, <2>2 DEF MayDebit
  <2> QED BY <1>1, <2>1, <2>2, <2>3, DebitHeld DEF PaidOut
<1>5. CASE ForwardRevenue
  <2>1. PICK amount \in Amount \cup {Distributable(b, balance)} :
          MaySettle(b, amount) /\ book' = Debit(b, amount) /\ balance' = PaidOut(amount)
    BY <1>5 DEF ForwardRevenue, b
  <2>2. amount \in Nat
    BY <1>1, TreasuryAssumption, DistributableTyped DEF TreasuryAssumption
  <2>3. b.totalReserve + amount <= b.accounted[Usdc]
    BY <1>1, <2>1, <2>2, SettledHeld
  <2> QED BY <1>1, <2>1, <2>2, <2>3, DebitHeld DEF PaidOut
<1>6. CASE BridgeRevenue
  <2>1. PICK amount \in Amount \cup {Distributable(b, balance)} :
          /\ MaySettle(b, amount)
          /\ \/ /\ MaySpend(Debit(b, amount), Root, BridgeBounty)
                /\ book' = Spend(Debit(b, amount), Root, BridgeBounty)
                /\ balance' = PaidOut(amount + BridgeBounty)
             \/ /\ book' = Debit(b, amount)
                /\ balance' = PaidOut(amount)
    BY <1>6 DEF BridgeRevenue, b
  <2>2. amount \in Nat /\ BridgeBounty \in Nat
    BY <1>1, TreasuryAssumption, DistributableTyped DEF TreasuryAssumption
  <2>3. Held(Debit(b, amount), PaidOut(amount))
    <3>1. b.totalReserve + amount <= b.accounted[Usdc]
      BY <1>1, <2>1, <2>2, SettledHeld
    <3> QED BY <1>1, <2>2, <3>1, DebitHeld DEF PaidOut
  <2>4. CASE book' = Debit(b, amount) /\ balance' = PaidOut(amount)
    BY <2>3, <2>4
  <2>5. CASE /\ MaySpend(Debit(b, amount), Root, BridgeBounty)
             /\ book' = Spend(Debit(b, amount), Root, BridgeBounty)
             /\ balance' = PaidOut(amount + BridgeBounty)
    <3>1. PaidOut(amount + BridgeBounty) = [PaidOut(amount) EXCEPT ![Usdc] = @ - BridgeBounty]
      <4>1. balance \in [Token -> Nat] /\ balance[Usdc] \in Nat
        BY <1>1 DEF Held
      <4>2. balance[Usdc] - (amount + BridgeBounty) = (balance[Usdc] - amount) - BridgeBounty
        BY <2>2, <4>1
      <4> QED BY <1>1, <4>1, <4>2 DEF PaidOut
    <3> QED BY <2>2, <2>3, <2>5, <3>1, Names, SpendHeld
  <2> QED BY <2>1, <2>4, <2>5
<1> QED BY <1>4, <1>5, <1>6

(* Both entry points offer a natural amount of a sound book.                 *)
LEMMA Sales ==
  ASSUME IInv, NEW s \in Source, NEW t \in FeeToken, ConvertChunk(s, t) \/ ConvertSourceFees(s, t)
  PROVE  \E b, n : Held(b, balance) /\ n \in Nat /\ ConvertSource(b, s, t, n)
<1>1. /\ Held(book, balance) /\ t \in Token /\ book.pending[s][t] \in Nat
      /\ book.accounted[t] \in Nat /\ balance[t] \in Nat /\ book.accounted[t] <= balance[t]
  BY Parts, Names DEF Held, Sound, Exact, IsBook
<1>2. ConversionRemaining(s, t) \in Nat
  <2>1. windows[s][t].spent \in Nat
    BY Parts DEF Windows
  <2> QED BY <2>1, TreasuryAssumption DEF ConversionRemaining, TreasuryAssumption
<1>3. CASE ConvertChunk(s, t)
  <2> DEFINE b == IF s = Root THEN Synced(book, balance, t) ELSE book
             all == Least(b.pending[s][t], ConversionRemaining(s, t))
  <2>1. Held(b, balance)
    BY <1>1, SyncedHeld
  <2>2. PICK amountIn \in Chunk \cup {all} : ConvertSource(b, s, t, amountIn)
    BY <1>3 DEF ConvertChunk
  <2>3. b.pending[s][t] \in Nat
    <3> HIDE DEF b
    <3> QED BY <2>1 DEF Held, Sound, Exact, IsBook
  <2>4. amountIn \in Nat
    BY <1>2, <2>3, TreasuryAssumption DEF Least, TreasuryAssumption
  <2> HIDE DEF b
  <2> QED BY <2>1, <2>2, <2>4
<1>4. CASE ConvertSourceFees(s, t)
  <2> DEFINE uncounted == IF s = Root THEN balance[t] - book.accounted[t] ELSE 0
             amountIn == Least(book.pending[s][t] + uncounted, ConversionRemaining(s, t))
  <2>1. amountIn \in Nat
    BY <1>1, <1>2 DEF Least
  <2>2. ConvertSource(book, s, t, amountIn)
    BY <1>4 DEF ConvertSourceFees
  <2> HIDE DEF amountIn
  <2> QED BY <1>1, <2>1, <2>2
<1> QED BY <1>3, <1>4

(* Time passes: a new day starts with nothing paid.                          *)
LEMMA TickStep ==
  ASSUME IInv, Tick
  PROVE  Daily' /\ Pausing' /\ (DailyCapHolds => DailyCapHolds')
<1>1. /\ clock \in Nat /\ clock' = clock + 1 /\ limits' = limits
      /\ pause' = pause /\ nextPauseAt' = nextPauseAt
      /\ today' = IF Day' = Day THEN today ELSE [a \in Actor |-> 0]
  BY Parts DEF Tick, Day, deadlines, pausing
<1>2. Day \in Nat /\ Day' \in Nat /\ Day <= Day'
  <2>1. DayLength \in Nat \ {0} /\ clock + 1 \in Nat
    BY <1>1, TreasuryAssumption DEF TreasuryAssumption
  <2>2. /\ clock \div DayLength \in Nat /\ clock \div DayLength <= (clock + 1) \div DayLength
        /\ (clock + 1) \div DayLength \in Nat
    BY <1>1, <2>1, DayGrows
  <2>3. Day = clock \div DayLength /\ Day' = (clock + 1) \div DayLength
    BY <1>1 DEF Day
  <2> QED BY <2>2, <2>3
<1>3. /\ limits \in [Actor -> [day : Nat, spent : Nat, epoch : Nat]]
      /\ today \in [Actor -> Nat]
      /\ \A a \in Actor : limits[a].day <= Day /\ today[a] = SpentToday(a)
  BY Parts DEF Daily, LimitsCurrent
<1>4. ASSUME NEW a \in Actor
      PROVE  limits'[a].day <= Day' /\ today'[a] = SpentToday(a)' /\ today'[a] \in Nat
             /\ today'[a] <= today[a]
  <2>1. limits[a].day \in Nat /\ limits[a].day <= Day /\ today[a] = SpentToday(a) /\ today[a] \in Nat
    BY <1>3
  <2>2. limits'[a] = limits[a]
    BY <1>1
  <2>3. CASE Day' = Day
    BY <1>1, <1>2, <2>1, <2>2, <2>3 DEF SpentToday
  <2>4. CASE Day' # Day
    <3>1. SpentToday(a)' = 0
      BY <1>2, <2>1, <2>2, <2>4 DEF SpentToday
    <3>2. today'[a] = 0
      BY <1>1, <2>4
    <3> QED BY <1>2, <2>1, <2>2, <3>1, <3>2
  <2> QED BY <2>3, <2>4
<1>5. Daily'
  <2>1. today' \in [Actor -> Nat]
    BY <1>1, <1>3
  <2> QED BY <1>1, <1>3, <1>4, <2>1 DEF Daily, LimitsCurrent
<1>6. Pausing'
  <2>1. Pausing
    BY Parts
  <2>2. MaxPause \in Nat
    BY TreasuryAssumption DEF TreasuryAssumption
  <2> QED BY <1>1, <2>1, <2>2 DEF Pausing, PauseSound, DistributionsPaused
<1>7. ASSUME DailyCapHolds PROVE DailyCapHolds'
  <2>1. ASSUME NEW a \in Actor
        PROVE  (Cap[RoleOf[a]] = 0 /\ RoleOf[a] # "checkpoint") \/ today'[a] <= Cap[RoleOf[a]]
    <3>1. Cap[RoleOf[a]] \in Nat
      BY TreasuryAssumption DEF TreasuryAssumption
    <3> QED BY <1>3, <1>4, <1>7, <3>1 DEF DailyCapHolds
  <2> QED BY <2>1 DEF DailyCapHolds
<1> QED BY <1>5, <1>6, <1>7

LEMMA PauseStep ==
  ASSUME IInv, (\E duration \in MinPause .. MaxPause : PauseRevenue(duration)) \/ ResumeRevenue
  PROVE  Pausing'
<1>1. Pausing /\ clock \in Nat
  BY Parts
<1>2. MinPause \in Nat /\ MaxPause \in Nat /\ PauseGap \in Nat
  BY TreasuryAssumption DEF TreasuryAssumption
<1>3. CASE \E duration \in MinPause .. MaxPause : PauseRevenue(duration)
  BY <1>1, <1>2, <1>3 DEF PauseRevenue, Pausing, PauseSound, DistributionsPaused
<1>4. CASE ResumeRevenue
  BY <1>1, <1>2, <1>4 DEF ResumeRevenue, Pausing, PauseSound, DistributionsPaused
<1> QED BY <1>3, <1>4

(***************************************************************************)
(* The conversion windows.                                                   *)
(***************************************************************************)
LEMMA SoldNumbers ==
  ASSUME NEW f \in [Time -> Nat], NEW S \in SUBSET Time
  PROVE  Numbers(f, S) /\ SumFunctionOnSet(f, S) \in Nat
<1>1. Numbers(f, S)
  BY Times, FS_Subset DEF Numbers
<1> QED BY <1>1, SumNat

(* A sale at time c adds to the sums over c and to no other.                 *)
LEMMA SoldMore ==
  ASSUME NEW f \in [Time -> Nat], NEW c \in Time, NEW n \in Nat, NEW S, S \in SUBSET Time,
         NEW g, g[c] = f[c] + n, \A x \in Time \ {c} : g[x] = f[x]
  PROVE  /\ c \in S => SumFunctionOnSet(g, S) = SumFunctionOnSet(f, S) + n
         /\ c \notin S => SumFunctionOnSet(g, S) = SumFunctionOnSet(f, S)
<1>1. Numbers(f, S)
  BY SoldNumbers
<1>2. ASSUME c \in S PROVE SumFunctionOnSet(g, S) = SumFunctionOnSet(f, S) + n
  <2>1. \A x \in S \ {c} : g[x] = f[x]
    OBVIOUS
  <2>2. g[c] = f[c] + n /\ c \in S
    BY <1>2
  <2> QED BY ONLY <1>1, <2>1, <2>2, n \in Nat, SumMore
<1>3. ASSUME c \notin S PROVE SumFunctionOnSet(g, S) = SumFunctionOnSet(f, S)
  <2>1. \A x \in S : f[x] = g[x]
    BY <1>3
  <2> QED BY ONLY <1>1, <2>1, SumSame
<1> QED BY <1>2, <1>3

LEMMA WindowsUntouched ==
  ASSUME Windows, windows' = windows, sold' = sold, clock' = clock
  PROVE  Windows'
BY DEF Windows, WindowsSound

LEMMA RecentTimes ==
  ASSUME NEW c \in Nat, NEW x
  PROVE  /\ Recent(c) \in SUBSET Time /\ Since(x) \in SUBSET Time
         /\ Recent(c) \ Since(x) \in SUBSET Time
BY DEF Recent, Since

(* A tick makes no sale recent.                                              *)
LEMMA WindowTick ==
  ASSUME NEW c \in Nat, NEW w \in [started : Nat, spent : Nat], NEW f \in [Time -> Nat],
         WindowSound(w, f, c)
  PROVE  WindowSound(w, f, c + 1)
<1> DEFINE old == Recent(c) \ Since(w.started)
           new == Recent(c + 1) \ Since(w.started)
<1>1. /\ Cooldown \in Nat /\ MaxInput \in Nat /\ w.started \in Nat /\ w.started <= c
  BY TreasuryAssumption DEF TreasuryAssumption, WindowSound
<1>2. ASSUME NEW u \in new PROVE u \in old
  <2>1. u \in Time /\ u \in Nat /\ c + 1 < u + Cooldown /\ u < w.started
    BY <1>1, <1>2, Times DEF Recent, Since
  <2>2. u <= c /\ c < u + Cooldown /\ ~(w.started <= u)
    BY <1>1, <2>1
  <2> QED BY <2>1, <2>2 DEF Recent, Since
<1>3. new \in SUBSET old /\ old \in SUBSET Time
  BY <1>2, RecentTimes
<1>4. SumFunctionOnSet(f, old) <= MaxInput
  BY DEF WindowSound
<1> HIDE DEF old, new
<1>5. Numbers(f, old) /\ SumFunctionOnSet(f, old) \in Nat /\ SumFunctionOnSet(f, new) \in Nat
  BY <1>3, SoldNumbers
<1>6. SumFunctionOnSet(f, new) <= SumFunctionOnSet(f, old)
  BY <1>3, <1>5, SumPart
<1>7. SumFunctionOnSet(f, new) <= MaxInput
  BY <1>1, <1>4, <1>5, <1>6
<1>8. w.started <= c + 1 /\ \A u \in Time : c + 1 < u => c < u
  BY <1>1, Times
<1> QED BY <1>7, <1>8 DEF WindowSound, new

LEMMA WindowsTick ==
  ASSUME Windows, Tick
  PROVE  Windows'
<1>1. /\ clock' = clock + 1 /\ windows' = windows /\ sold' = sold
      /\ clock \in Nat /\ clock < Horizon
  BY Times DEF Tick, Windows
<1>2. clock' \in Time
  BY <1>1, TreasuryAssumption DEF Windows, Time, TreasuryAssumption
<1>3. ASSUME NEW s \in Source, NEW t \in FeeToken
      PROVE  WindowSound(windows[s][t], sold[s][t], clock + 1)
  <2>1. /\ windows[s][t] \in [started : Nat, spent : Nat] /\ sold[s][t] \in [Time -> Nat]
        /\ WindowSound(windows[s][t], sold[s][t], clock)
    BY DEF Windows, WindowsSound
  <2> QED BY <1>1, <2>1, WindowTick
<1>4. WindowsSound'
  BY <1>1, <1>3 DEF WindowsSound
<1> QED BY <1>1, <1>2, <1>4 DEF Windows

(* A sale in a window that has not ended.                                    *)
LEMMA SaleInWindow ==
  ASSUME NEW c \in Time, NEW w \in [started : Nat, spent : Nat], NEW f \in [Time -> Nat],
         NEW n \in Nat, WindowSound(w, f, c), c < w.started + Cooldown,
         w.spent + n <= MaxInput
  PROVE  WindowSound([w EXCEPT !.spent = @ + n], [f EXCEPT ![c] = @ + n], c)
<1> DEFINE v == [w EXCEPT !.spent = @ + n]
           g == [f EXCEPT ![c] = @ + n]
           rest == Recent(c) \ Since(w.started)
<1>1. /\ w.started \in Nat /\ w.spent \in Nat /\ v.started = w.started /\ v.spent = w.spent + n
      /\ w.started <= c /\ c \in Nat
  BY Times DEF WindowSound
<1>2. c \in Since(w.started) /\ c \notin rest
  BY <1>1 DEF Since
<1>3. Since(w.started) \in SUBSET Time /\ rest \in SUBSET Time
  BY <1>1, RecentTimes
<1>4. SumFunctionOnSet(f, Since(w.started)) = w.spent /\ SumFunctionOnSet(f, rest) <= MaxInput
  BY DEF WindowSound
<1> HIDE DEF rest
<1>5. /\ SumFunctionOnSet(g, Since(w.started)) = w.spent + n
      /\ SumFunctionOnSet(g, rest) <= MaxInput
  <2>1. g[c] = f[c] + n /\ \A x \in Time \ {c} : g[x] = f[x]
    OBVIOUS
  <2> HIDE DEF g
  <2>2. SumFunctionOnSet(g, Since(w.started)) = SumFunctionOnSet(f, Since(w.started)) + n
    <3> DEFINE S == Since(w.started)
    <3>1. S \in SUBSET Time /\ c \in S
      BY <1>2, <1>3
    <3> HIDE DEF S
    <3>2. SumFunctionOnSet(g, S) = SumFunctionOnSet(f, S) + n
      BY ONLY <2>1, <3>1, f \in [Time -> Nat], c \in Time, n \in Nat, SoldMore
    <3> QED BY <3>2 DEF S
  <2>3. SumFunctionOnSet(g, rest) = SumFunctionOnSet(f, rest)
    <3>1. rest \in SUBSET Time /\ c \notin rest
      BY <1>2, <1>3
    <3> QED BY ONLY <2>1, <3>1, f \in [Time -> Nat], c \in Time, n \in Nat, SoldMore
  <2> QED BY <1>4, <2>2, <2>3
<1>6. ASSUME NEW u \in Time, c < u \/ w.started + Cooldown <= u PROVE g[u] = 0
  <2>1. u # c
    <3>1. u \in Nat /\ Cooldown \in Nat
      BY Times, TreasuryAssumption DEF TreasuryAssumption
    <3> QED BY <1>1, <1>6, <3>1
  <2>2. f[u] = 0
    BY <1>6 DEF WindowSound
  <2> QED BY <2>1, <2>2
<1> HIDE DEF g, v
<1>7. WindowSound(v, g, c)
  BY <1>1, <1>5, <1>6 DEF WindowSound, rest
<1> QED BY <1>7 DEF v, g

(* A sale that starts a window: what is recent was sold in the one before.   *)
LEMMA SaleInNewWindow ==
  ASSUME NEW c \in Time, NEW w \in [started : Nat, spent : Nat], NEW f \in [Time -> Nat],
         NEW n \in Nat, WindowSound(w, f, c), w.started + Cooldown <= c,
         n <= MaxInput, Cooldown # 0
  PROVE  WindowSound([started |-> c, spent |-> n], [f EXCEPT ![c] = @ + n], c)
<1> DEFINE v == [started |-> c, spent |-> n]
           g == [f EXCEPT ![c] = @ + n]
           rest == Recent(c) \ Since(c)
           last == Since(w.started)
<1>1. /\ w.started \in Nat /\ w.spent \in Nat /\ c \in Nat /\ Cooldown \in Nat
      /\ MaxInput \in Nat /\ w.spent <= MaxInput /\ SumFunctionOnSet(f, last) = w.spent
  BY Times, TreasuryAssumption DEF TreasuryAssumption, WindowSound
<1>2. ASSUME NEW u \in Time, c <= u PROVE f[u] = 0
  <2>1. w.started + Cooldown <= u
    BY <1>1, <1>2, Times
  <2> QED BY <2>1 DEF WindowSound
<1>3. Since(c) \in SUBSET Time /\ rest \in SUBSET Time /\ last \in SUBSET Time
  BY <1>1, RecentTimes
<1>4. c \in Since(c) /\ c \notin rest
  BY <1>1 DEF Since
<1>5. SumFunctionOnSet(f, Since(c)) = 0
  <2>1. \A u \in Since(c) : f[u] = 0
    BY <1>2 DEF Since
  <2>2. IsFiniteSet(Since(c))
    BY <1>3, Times, FS_Subset
  <2> QED BY <2>1, <2>2, SumZero
<1>6. ASSUME NEW u \in rest PROVE u \in last
  <2>1. u \in Time /\ u \in Nat /\ c < u + Cooldown
    BY <1>6, Times DEF Recent
  <2>2. w.started <= u
    BY <1>1, <2>1
  <2> QED BY <2>1, <2>2 DEF Since
<1>7. rest \in SUBSET last
  BY <1>6
<1> HIDE DEF rest, last
<1>8. SumFunctionOnSet(f, rest) <= MaxInput
  <2>1. Numbers(f, last) /\ SumFunctionOnSet(f, rest) \in Nat
    BY <1>3, SoldNumbers
  <2>2. SumFunctionOnSet(f, rest) <= SumFunctionOnSet(f, last)
    BY <1>7, <2>1, SumPart
  <2> QED BY <1>1, <2>1, <2>2
<1>9. SumFunctionOnSet(g, Since(c)) = n /\ SumFunctionOnSet(g, rest) <= MaxInput
  <2>1. g[c] = f[c] + n /\ \A x \in Time \ {c} : g[x] = f[x]
    OBVIOUS
  <2> HIDE DEF g
  <2>2. SumFunctionOnSet(g, Since(c)) = SumFunctionOnSet(f, Since(c)) + n
    <3> DEFINE S == Since(c)
    <3>1. S \in SUBSET Time /\ c \in S
      BY <1>3, <1>4
    <3> HIDE DEF S
    <3>2. SumFunctionOnSet(g, S) = SumFunctionOnSet(f, S) + n
      BY ONLY <2>1, <3>1, f \in [Time -> Nat], c \in Time, n \in Nat, SoldMore
    <3> QED BY <3>2 DEF S
  <2>3. SumFunctionOnSet(g, rest) = SumFunctionOnSet(f, rest)
    <3>1. rest \in SUBSET Time /\ c \notin rest
      BY <1>3, <1>4
    <3> QED BY ONLY <2>1, <3>1, f \in [Time -> Nat], c \in Time, n \in Nat, SoldMore
  <2> QED BY <1>5, <1>8, <2>2, <2>3
<1>10. ASSUME NEW u \in Time, c < u \/ c + Cooldown <= u PROVE g[u] = 0
  <2>1. u # c /\ c <= u
    BY <1>1, <1>10, Times
  <2>2. f[u] = 0
    BY <1>2, <2>1
  <2> QED BY <2>1, <2>2
<1>11. v.started = c /\ v.spent = n /\ c <= c
  BY <1>1
<1> HIDE DEF g, v
<1>12. WindowSound(v, g, c)
  BY <1>9, <1>10, <1>11 DEF WindowSound, rest
<1> QED BY <1>12 DEF v, g

(* A sale is recorded in the window of its source and token.                 *)
LEMMA WindowStep ==
  ASSUME IInv, NEW s \in Source, NEW t \in FeeToken, NEW b, NEW n \in Nat,
         ConvertSource(b, s, t, n)
  PROVE  Windows'
<1> DEFINE w == windows[s][t]
           f == sold[s][t]
           v == Consumed(s, t, n)
           g == [f EXCEPT ![clock] = @ + n]
<1>1. /\ Windows /\ clock \in Nat /\ Cooldown \in Nat /\ MaxInput \in Nat
      /\ MaxInput # 0 => Cooldown # 0
  BY Parts, TreasuryAssumption DEF TreasuryAssumption
<1>2. /\ w \in [started : Nat, spent : Nat] /\ w.started \in Nat /\ w.spent \in Nat
      /\ f \in [Time -> Nat] /\ clock \in Time /\ WindowSound(w, f, clock)
  BY <1>1 DEF Windows, WindowsSound
<1>3. v \in [started : Nat, spent : Nat]
  BY <1>1, <1>2 DEF Consumed
<1>4. g \in [Time -> Nat]
  <2> HIDE DEF f
  <2> QED BY <1>2
<1>5. /\ windows' = [windows EXCEPT ![s][t] = v]
      /\ sold' = [sold EXCEPT ![s][t] = g]
      /\ clock' = clock
  BY <1>1 DEF ConvertSource, Windows
<1>6. 0 < n /\ n <= ConversionRemaining(s, t)
  BY DEF ConvertSource
<1>7. WindowSound(v, g, clock)
  <2>1. CASE clock < w.started + Cooldown
    <3>1. /\ v = [w EXCEPT !.spent = @ + n] /\ w.spent + n <= MaxInput
      BY <1>1, <1>2, <1>6, <2>1 DEF Consumed, ConversionRemaining
    <3> HIDE DEF f, w, v
    <3> QED BY <1>2, <2>1, <3>1, SaleInWindow
  <2>2. CASE ~(clock < w.started + Cooldown)
    <3>1. /\ v = [started |-> clock, spent |-> n] /\ n <= MaxInput /\ Cooldown # 0
          /\ w.started + Cooldown <= clock
      BY <1>1, <1>2, <1>6, <2>2 DEF Consumed, ConversionRemaining
    <3> HIDE DEF f, w, v
    <3> QED BY <1>2, <3>1, SaleInNewWindow
  <2> QED BY <2>1, <2>2
<1>8. /\ windows' \in [Source -> [FeeToken -> [started : Nat, spent : Nat]]]
      /\ sold' \in [Source -> [FeeToken -> [Time -> Nat]]]
  <2> HIDE DEF v, g
  <2> QED BY <1>1, <1>3, <1>4, <1>5 DEF Windows
<1>9. ASSUME NEW x \in Source, NEW y \in FeeToken
      PROVE  WindowSound(windows'[x][y], sold'[x][y], clock)
  <2>1. CASE x = s /\ y = t
    <3>1. windows'[x][y] = v /\ sold'[x][y] = g
      <4> HIDE DEF v, g
      <4> QED BY <1>1, <1>5, <2>1 DEF Windows
    <3> HIDE DEF v, g
    <3> QED BY <1>7, <3>1
  <2>2. CASE ~(x = s /\ y = t)
    <3>1. windows'[x][y] = windows[x][y] /\ sold'[x][y] = sold[x][y]
      <4> HIDE DEF v, g
      <4> QED BY <1>1, <1>5, <2>2 DEF Windows
    <3>2. WindowSound(windows[x][y], sold[x][y], clock)
      BY <1>1 DEF Windows, WindowsSound
    <3> QED BY <3>1, <3>2
  <2> QED BY <2>1, <2>2
<1>10. WindowsSound'
  BY <1>5, <1>9 DEF WindowsSound
<1> QED BY <1>2, <1>5, <1>8, <1>10 DEF Windows

(* Two windows bound what is recent.                                         *)
LEMMA TwoWindows ==
  ASSUME IInv
  PROVE  ConversionVolume
<1> SUFFICES ASSUME NEW s \in Source, NEW t \in FeeToken
             PROVE  SumFunctionOnSet(sold[s][t], Recent(clock)) <= 2 * MaxInput
  BY DEF ConversionVolume
<1> DEFINE w == windows[s][t]
           f == sold[s][t]
           all == Recent(clock)
           since == Since(w.started)
           before == all \ since
           rest == all \ before
<1>1. /\ w.spent \in Nat /\ MaxInput \in Nat /\ f \in [Time -> Nat] /\ clock \in Nat
      /\ w.spent <= MaxInput
      /\ SumFunctionOnSet(f, since) = w.spent
      /\ SumFunctionOnSet(f, before) <= MaxInput
  BY Parts, TreasuryAssumption DEF Windows, WindowsSound, WindowSound, TreasuryAssumption
<1>2. all \in SUBSET Time /\ since \in SUBSET Time
  BY <1>1, RecentTimes
<1> HIDE DEF f, w, all, since
<1>3. before \in SUBSET all /\ before \in SUBSET Time /\ rest \in SUBSET since /\ rest \in SUBSET Time
  BY <1>2
<1>4. SumFunctionOnSet(f, all) = SumFunctionOnSet(f, before) + SumFunctionOnSet(f, rest)
  <2> HIDE DEF before
  <2>1. Numbers(f, all)
    BY <1>1, <1>2, SoldNumbers
  <2> QED BY <1>3, <2>1, SumSplit
<1> HIDE DEF rest, before
<1>5. SumFunctionOnSet(f, rest) <= SumFunctionOnSet(f, since)
  <2>1. Numbers(f, since)
    BY <1>1, <1>2, SoldNumbers
  <2> QED BY <1>3, <2>1, SumPart
<1>6. SumFunctionOnSet(f, rest) \in Nat /\ SumFunctionOnSet(f, before) \in Nat
  BY <1>1, <1>3, SoldNumbers
<1>7. SumFunctionOnSet(f, all) <= 2 * MaxInput
  BY <1>1, <1>4, <1>5, <1>6
<1> QED BY <1>7 DEF all, f

(***************************************************************************)
(* The theorems.                                                             *)
(***************************************************************************)
LEMMA InitSound == Init => IInv /\ DailyCapHolds
<1> SUFFICES ASSUME Init PROVE IInv /\ DailyCapHolds
  OBVIOUS
<1>1. clock \in Nat /\ DayLength \in Nat \ {0}
  BY TreasuryAssumption DEF Init, TreasuryAssumption
<1>2. Held(book, balance)
  <2>1. book = EmptyBook /\ balance = [t \in Token |-> 0]
    BY DEF Init
  <2>2. \A t \in Token : EmptyBook.accounted[t] = 0
    BY DEF EmptyBook
  <2> QED BY <2>1, <2>2, NewBookSound DEF Held
<1>3. Windows
  <2>1. /\ clock = Genesis /\ clock \in Time
        /\ windows = [s \in Source |-> [t \in FeeToken |-> [started |-> 0, spent |-> 0]]]
        /\ sold = [s \in Source |-> [t \in FeeToken |-> [u \in Time |-> 0]]]
    BY TreasuryAssumption DEF Init, Time, TreasuryAssumption
  <2>2. ASSUME NEW s \in Source, NEW t \in FeeToken
        PROVE  WindowSound(windows[s][t], sold[s][t], clock)
    <3> DEFINE f == sold[s][t]
               w == windows[s][t]
    <3>1. w.started = 0 /\ w.spent = 0 /\ \A u \in Time : f[u] = 0
      BY <2>1
    <3> HIDE DEF f, w
    <3>2. ASSUME NEW S \in SUBSET Time PROVE SumFunctionOnSet(f, S) = 0
      <4>1. IsFiniteSet(S) /\ \A u \in S : f[u] = 0
        BY <3>1, Times, FS_Subset
      <4> QED BY <4>1, SumZero
    <3>3. MaxInput \in Nat /\ 0 <= clock
      BY <1>1, TreasuryAssumption DEF TreasuryAssumption
    <3>4. /\ SumFunctionOnSet(f, Since(w.started)) = 0
          /\ SumFunctionOnSet(f, Recent(clock) \ Since(w.started)) = 0
      BY <1>1, <3>2, RecentTimes
    <3>5. WindowSound(w, f, clock)
      BY <3>1, <3>3, <3>4 DEF WindowSound
    <3> QED BY <3>5 DEF f, w
  <2>3. WindowsSound
    BY <2>2 DEF WindowsSound
  <2> QED BY <2>1, <2>3 DEF Windows
<1>4. Daily
  <2>1. Day \in Nat
    BY <1>1, DayGrows DEF Day
  <2> QED BY <2>1 DEF Init, Daily, LimitsCurrent, SpentToday
<1>5. Pausing
  BY DEF Init, Pausing, PauseSound, DistributionsPaused
<1>6. DailyCapHolds
  <2>1. \A a \in Actor : Cap[RoleOf[a]] \in Nat
    BY TreasuryAssumption DEF TreasuryAssumption
  <2> QED BY <2>1 DEF Init, DailyCapHolds
<1> QED BY <1>1, <1>2, <1>3, <1>4, <1>5, <1>6, Parts

LEMMA NextSound ==
  ASSUME IInv, [Next]_vars
  PROVE  IInv' /\ (DailyCapHolds => DailyCapHolds')
<1>0. clock \in Nat /\ Held(book, balance) /\ Windows /\ Daily /\ Pausing
  BY Parts
<1> DEFINE Kept  == limits' = limits /\ today' = today /\ clock' = clock
           Open  == pause' = pause /\ nextPauseAt' = nextPauseAt
           Goal  == /\ clock' \in Nat /\ Held(book', balance') /\ Windows' /\ Daily' /\ Pausing'
                    /\ (DailyCapHolds => DailyCapHolds')
<1>1. Amount \subseteq Nat
  BY TreasuryAssumption DEF TreasuryAssumption
<1>2. ASSUME NEW t \in Token, NEW amount \in Amount,
             \/ Donate(t, amount)
             \/ \E a \in Actor : RecordRevenue(a, t, amount)
             \/ t \in FeeToken /\ WrapNativeFees(t, amount)
             \/ t = Usdc /\ \E s \in Source : FundBounties(s, amount)
      PROVE  Goal
  <2>1. Kept /\ Open /\ windows' = windows /\ sold' = sold
    BY <1>2 DEF Donate, RecordRevenue, WrapNativeFees, FundBounties,
                deadlines, pausing, history
  <2>2. Held(book', balance')
    BY <1>1, <1>2, MoneyIn
  <2> QED BY <1>0, <2>1, <2>2, DailyUntouched, PausingUntouched, WindowsUntouched
<1>3. ASSUME NEW t \in Token, SyncRevenue(t)
      PROVE  Goal
  <2>1. Kept /\ Open /\ windows' = windows /\ sold' = sold
    BY <1>3 DEF SyncRevenue, deadlines, pausing, history
  <2>2. Held(book', balance')
    BY <1>0, <1>3, SyncedHeld DEF SyncRevenue
  <2> QED BY <1>0, <2>1, <2>2, DailyUntouched, PausingUntouched, WindowsUntouched
<1>4. ASSUME NEW s \in Source, NEW t \in FeeToken, ConvertChunk(s, t) \/ ConvertSourceFees(s, t)
      PROVE  Goal
  <2>1. PICK b, n : Held(b, balance) /\ n \in Nat /\ ConvertSource(b, s, t, n)
    BY <1>4, Sales
  <2>2. Kept /\ Open
    BY <2>1 DEF ConvertSource, deadlines, pausing
  <2>3. Held(book', balance') /\ Windows'
    BY <1>4, <2>1, ConvertedStep, WindowStep
  <2> QED BY <1>0, <2>2, <2>3, DailyUntouched, PausingUntouched
<1>5. ASSUME AdminWithdraw \/ ForwardRevenue \/ BridgeRevenue
      PROVE  Goal
  <2>1. Kept /\ Open /\ windows' = windows /\ sold' = sold
    BY <1>5 DEF AdminWithdraw, ForwardRevenue, BridgeRevenue, deadlines, pausing, history
  <2>2. Held(book', balance')
    BY <1>5, MoneyOut
  <2> QED BY <1>0, <2>1, <2>2, DailyUntouched, PausingUntouched, WindowsUntouched
<1>6. ASSUME NEW a \in Actor,
             \/ PayActionBounty(a)
             \/ PayStrategyCheckpointBounty(a)
             \/ \E k \in Keeper : PayDepositBounty(a, k)
      PROVE  Goal
  <2>1. PICK e : ConsumeDailyLimit(a, e) /\ PayBounty(a) /\ e \in {limits[a].epoch, Epoch}
    BY <1>6 DEF PayActionBounty, PayStrategyCheckpointBounty, PayDepositBounty
  <2>2. e \in Nat
    <3>1. limits[a].epoch \in Nat
      BY <1>0 DEF Daily
    <3>2. Epoch \in Nat
      BY <1>0, TreasuryAssumption, DayGrows DEF Epoch, TreasuryAssumption
    <3> QED BY <2>1, <3>1, <3>2
  <2>3. clock' = clock /\ windows' = windows /\ sold' = sold /\ Open
    BY <1>6 DEF PayActionBounty, PayStrategyCheckpointBounty, PayDepositBounty, pausing
  <2>4. Held(book', balance') /\ Daily' /\ (DailyCapHolds => DailyCapHolds')
    BY <2>1, <2>2, <2>3, BountyStep
  <2> QED BY <1>0, <2>3, <2>4, PausingUntouched, WindowsUntouched
<1>7. ASSUME (\E duration \in MinPause .. MaxPause : PauseRevenue(duration)) \/ ResumeRevenue
      PROVE  Goal
  <2>1. Kept /\ windows' = windows /\ sold' = sold /\ book' = book /\ balance' = balance
    BY <1>7 DEF PauseRevenue, ResumeRevenue, deadlines, history
  <2>2. Pausing'
    BY <1>7, PauseStep
  <2> QED BY <1>0, <2>1, <2>2, DailyUntouched, WindowsUntouched
<1>8. ASSUME Tick
      PROVE  Goal
  <2>1. clock' = clock + 1 /\ windows' = windows /\ book' = book /\ balance' = balance
    BY <1>8 DEF Tick
  <2> QED BY <1>0, <1>8, <2>1, TickStep, WindowsTick
<1>9. ASSUME UNCHANGED vars
      PROVE  Goal
  <2>1. /\ Kept /\ Open /\ windows' = windows /\ sold' = sold
        /\ book' = book /\ balance' = balance
    BY <1>9 DEF vars
  <2> QED BY <1>0, <2>1, DailyUntouched, PausingUntouched, WindowsUntouched
<1>10. Goal
  <2> HIDE DEF Goal
  <2>1. CASE Next
    <3>1. Usdc \in Token /\ FeeToken \subseteq Token
      BY Names
    <3> QED BY <1>2, <1>3, <1>4, <1>5, <1>6, <1>7, <1>8, <2>1, <3>1 DEF Next
  <2> QED BY <1>9, <2>1
<1> QED BY <1>10, PartsNext

(* The books of the Treasury: every pool's budget is exactly what the rules  *)
(* give it, however its receipts were split, synchronised late or            *)
(* interleaved with those of others (_credit, recordRevenue, fundBounties),  *)
(* and conversions, withdrawals and bounties never reach a reserve that is   *)
(* not theirs (withdraw, _spend, consumeConversion).                         *)
THEOREM InductiveInvariant == Spec => []IInv
<1>1. Init => IInv
  BY InitSound
<1>2. IInv /\ [Next]_vars => IInv'
  BY NextSound
<1> QED BY <1>1, <1>2, PTL DEF Spec

(* Within any period as long as the cooldown, a source converts no more of a  *)
(* token than two windows allow (consumeConversion).                         *)
THEOREM VolumeBounded == Spec => []ConversionVolume
<1>1. IInv => ConversionVolume
  BY TwoWindows
<1> QED BY InductiveInvariant, <1>1, PTL

(* No contract is paid more than its cap in one day (consumeDailyLimit).     *)
THEOREM DailyCap == Spec => []DailyCapHolds
<1>1. Init => IInv /\ DailyCapHolds
  BY InitSound
<1>2. IInv /\ DailyCapHolds /\ [Next]_vars => IInv' /\ DailyCapHolds'
  BY NextSound
<1> QED BY <1>1, <1>2, PTL DEF Spec
=============================================================================

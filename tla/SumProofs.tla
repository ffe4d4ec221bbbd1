------------------------------ MODULE SumProofs ------------------------------
(***************************************************************************)
(* Facts about natural numbers, finite sets and the sums of the community     *)
(* modules (SumFunctionOnSet) that the other proofs rest on.  Where one would  *)
(* use induction, the library's well-founded orderings give a smallest        *)
(* counterexample instead.                                                  *)
(***************************************************************************)
EXTENDS Integers, FiniteSets, Functions, WellFoundedInduction,
        FiniteSetTheorems, TLAPS

(* A set of natural numbers that is not empty has a smallest element. *)
LEMMA LeastNat ==
    ASSUME NEW S \in SUBSET Nat, S # {}
    PROVE  \E m \in S : \A s \in S : m <= s
<1> DEFINE R == OpToRel(<, Nat)
<1>1. \E m \in S : \A s \in S : ~(<<s, m>> \in R)
  <2>1. IsWellFoundedOn(R, Nat)
    BY NatLessThanWellFounded
  <2> HIDE DEF R
  <2> QED
    BY <2>1, WFMin
<1>2. \A s, m \in Nat : s < m => <<s, m>> \in R
  BY DEF OpToRel
<1> HIDE DEF R
<1>3. PICK m \in S : \A s \in S : ~(<<s, m>> \in R)
  BY <1>1
<1>4. ASSUME NEW s \in S PROVE ~(s < m)
  <2>1. s \in Nat /\ m \in Nat
    OBVIOUS
  <2> QED
    BY <2>1, <1>2, <1>3, Zenon
<1>5. m \in Nat /\ \A s \in S : s \in Nat /\ ~(s < m)
  BY <1>4
<1>6. \A s \in S : m <= s
  BY <1>5
<1> QED
  BY <1>6

(* A finite set of natural numbers that is not empty has a largest element:   *)
(* of the sets without one, take one of the fewest elements.                 *)
LEMMA GreatestNat ==
    ASSUME NEW S \in SUBSET Nat, IsFiniteSet(S), S # {}
    PROVE  \E m \in S : \A s \in S : s <= m
<1> DEFINE Bad == {X \in SUBSET Nat : /\ IsFiniteSet(X) /\ X # {}
                                      /\ ~ \E m \in X : \A s \in X : s <= m}
           Sizes == {Cardinality(X) : X \in Bad}
<1>1. SUFFICES ASSUME S \in Bad PROVE FALSE
  OBVIOUS
<1>2. Sizes \in SUBSET Nat /\ Sizes # {}
  BY <1>1, FS_CardinalityType
<1>3. PICK n \in Sizes : \A k \in Sizes : n <= k
  BY <1>2, LeastNat
<1>4. PICK X \in Bad : Cardinality(X) = n
  BY <1>3
<1>5. PICK x \in X : TRUE
  BY <1>4
<1> DEFINE Y == X \ {x}
<1>6. Y \in SUBSET Nat /\ IsFiniteSet(Y) /\ Cardinality(Y) = Cardinality(X) - 1
  BY <1>4, <1>5, FS_RemoveElement
<1>7. Cardinality(X) \in Nat /\ Cardinality(X) = n
  BY <1>4, FS_CardinalityType
<1>8. Y \notin Bad
  <2>1. SUFFICES ASSUME Y \in Bad PROVE FALSE
    OBVIOUS
  <2>2. Cardinality(Y) \in Sizes
    BY <2>1
  <2>3. n <= Cardinality(Y)
    BY <2>2, <1>3
  <2> QED
    BY <2>3, <1>6, <1>7
<1>9. Y # {}
  BY <1>4, <1>5
<1>10. PICK m \in Y : \A s \in Y : s <= m
  BY <1>6, <1>8, <1>9
<1>11. x \in Nat /\ m \in Nat /\ X = Y \cup {x}
  BY <1>4, <1>5, <1>6, <1>10
<1>12. CASE x <= m
  <2>1. m \in X /\ \A s \in X : s <= m
    BY <1>10, <1>11, <1>12
  <2> QED
    BY <2>1, <1>4
<1>13. CASE ~(x <= m)
  <2>1. \A s \in Y : s <= x
    BY <1>6, <1>10, <1>11, <1>13
  <2>2. x \in X /\ \A s \in X : s <= x
    BY <2>1, <1>5, <1>11
  <2> QED
    BY <2>2, <1>4
<1> QED
  BY <1>12, <1>13

-----------------------------------------------------------------------------
(* The recursive function inside SumFunctionOnSet *)

Pick(T) == CHOOSE x \in T : TRUE
Term(g, f, T) == IF T = {} THEN 0 ELSE f[Pick(T)] + g[T \ {Pick(T)}]
IsIter(g, f, S) == g = [T \in SUBSET S |-> Term(g, f, T)]
Iter(f, S) == CHOOSE g : IsIter(g, f, S)

Numbers(f, S) == IsFiniteSet(S) /\ \A x \in S : f[x] \in Nat

LEMMA SumIsIter ==
    ASSUME NEW f, NEW S
    PROVE  SumFunctionOnSet(f, S) = Iter(f, S)[S]
BY DEF SumFunctionOnSet, FoldFunctionOnSet, MapThenFoldSet, Iter, IsIter, Term, Pick

LEMMA Picked ==
    ASSUME NEW T, T # {}
    PROVE  Pick(T) \in T
BY DEF Pick

LEMMA SubsetSize ==
    ASSUME NEW S, IsFiniteSet(S), NEW T \in SUBSET S
    PROVE  /\ IsFiniteSet(T) /\ Cardinality(T) \in Nat /\ Cardinality(T) <= Cardinality(S)
           /\ \A x \in T : /\ T \ {x} \in SUBSET S
                           /\ Cardinality(T \ {x}) = Cardinality(T) - 1
<1>1. IsFiniteSet(T) /\ Cardinality(T) <= Cardinality(S)
  BY FS_Subset
<1>2. Cardinality(T) \in Nat
  BY <1>1, FS_CardinalityType
<1> QED
  BY <1>1, <1>2, FS_RemoveElement

(* It exists: of the sizes up to which it does not, there is no smallest.     *)
LEMMA IterExists ==
    ASSUME NEW f, NEW S, Numbers(f, S)
    PROVE  IsIter(Iter(f, S), f, S)
<1> DEFINE Up(n) == {T \in SUBSET S : Cardinality(T) < n}
           Partial(n) == \E g \in [Up(n) -> Nat] : \A T \in Up(n) : g[T] = Term(g, f, T)
           Bad == {n \in Nat : ~Partial(n)}
<1>1. IsFiniteSet(S) /\ \A x \in S : f[x] \in Nat
  BY DEF Numbers
<1>2. Bad = {}
  <2>1. SUFFICES ASSUME Bad # {} PROVE FALSE
    OBVIOUS
  <2>2. PICK n \in Bad : \A k \in Bad : n <= k
    BY <2>1, LeastNat
  <2>3. n # 0
    <3>1. Up(0) = {}
      BY <1>1, SubsetSize
    <3>2. [T \in Up(0) |-> 0] \in [Up(0) -> Nat]
      OBVIOUS
    <3>3. Partial(0)
      BY <3>1, <3>2
    <3> QED
      BY <2>2, <3>3
  <2>4. n \in Nat /\ n - 1 \in Nat /\ ~Partial(n)
    <3> HIDE DEF Partial
    <3> QED
      BY <2>2, <2>3
  <2>5. n - 1 \notin Bad
    <3> HIDE DEF Bad
    <3> QED
      BY <2>2, <2>4
  <2>6. PICK g \in [Up(n - 1) -> Nat] : \A T \in Up(n - 1) : g[T] = Term(g, f, T)
    BY <2>4, <2>5
  <2> DEFINE h == [T \in Up(n) |-> Term(g, f, T)]
  <2>7. ASSUME NEW T \in Up(n), T # {} PROVE T \ {Pick(T)} \in Up(n - 1)
    BY <1>1, <2>4, <2>7, Picked, SubsetSize
  <2>8. \A T \in Up(n) : Term(g, f, T) \in Nat
    <3>1. SUFFICES ASSUME NEW T \in Up(n), T # {} PROVE f[Pick(T)] + g[T \ {Pick(T)}] \in Nat
      BY DEF Term
    <3>2. g[T \ {Pick(T)}] \in Nat
      BY <2>6, <2>7, <3>1
    <3>3. f[Pick(T)] \in Nat
      BY <1>1, <3>1, Picked
    <3> QED
      BY <3>2, <3>3
  <2>9. \A T \in Up(n - 1) : T \in Up(n) /\ h[T] = g[T]
    BY <1>1, <2>4, <2>6, SubsetSize
  <2>10. \A T \in Up(n) : h[T] = Term(h, f, T)
    <3>1. SUFFICES ASSUME NEW T \in Up(n), T # {}
          PROVE  h[T \ {Pick(T)}] = g[T \ {Pick(T)}]
      BY DEF Term
    <3> QED
      BY <2>7, <2>9, <3>1
  <2>11. h \in [Up(n) -> Nat]
    BY <2>8
  <2> HIDE DEF h
  <2>12. Partial(n)
    BY <2>10, <2>11
  <2> QED
    BY <2>4, <2>12
<1>3. Cardinality(S) + 1 \in Nat
  BY <1>1, FS_CardinalityType
<1>4. Up(Cardinality(S) + 1) = SUBSET S
  BY <1>1, SubsetSize
<1>5. PICK g \in [SUBSET S -> Nat] : \A T \in SUBSET S : g[T] = Term(g, f, T)
  <2>1. Partial(Cardinality(S) + 1)
    BY <1>2, <1>3
  <2> QED
    BY <1>4, <2>1
<1>6. g = [T \in SUBSET S |-> Term(g, f, T)]
  BY <1>5
<1>7. IsIter(g, f, S)
  BY <1>6 DEF IsIter
<1> QED
  BY <1>7 DEF Iter

LEMMA IterStep ==
    ASSUME NEW f, NEW S, Numbers(f, S)
    PROVE  /\ Iter(f, S)[{}] = 0
           /\ \A T \in SUBSET S : T # {} =>
                 /\ Pick(T) \in T
                 /\ Iter(f, S)[T] = f[Pick(T)] + Iter(f, S)[T \ {Pick(T)}]
<1> DEFINE g == Iter(f, S)
<1>1. g = [T \in SUBSET S |-> Term(g, f, T)]
  <2>1. IsIter(g, f, S)
    BY IterExists
  <2> HIDE DEF g
  <2> QED
    BY <2>1 DEF IsIter
<1> HIDE DEF g
<1>2. \A T \in SUBSET S : g[T] = Term(g, f, T)
  BY <1>1
<1>3. g[{}] = 0 /\ \A T \in SUBSET S : T # {} => g[T] = f[Pick(T)] + g[T \ {Pick(T)}]
  BY <1>2 DEF Term
<1> QED
  BY <1>3, Picked DEF g

(* A family of finite sets that is not empty has a member of least size. *)
LEMMA SmallestSet ==
    ASSUME NEW S, IsFiniteSet(S), NEW F \in SUBSET SUBSET S, F # {}
    PROVE  \E T \in F : \A U \in F : Cardinality(T) <= Cardinality(U)
<1> DEFINE Sizes == {Cardinality(T) : T \in F}
<1>1. Sizes \in SUBSET Nat /\ Sizes # {}
  BY SubsetSize
<1>2. PICK n \in Sizes : \A k \in Sizes : n <= k
  BY <1>1, LeastNat
<1> QED
  BY <1>2

LEMMA IterNat ==
    ASSUME NEW f, NEW S, Numbers(f, S)
    PROVE  \A T \in SUBSET S : Iter(f, S)[T] \in Nat
<1> DEFINE g == Iter(f, S)
           Bad == {T \in SUBSET S : g[T] \notin Nat}
<1>1. IsFiniteSet(S) /\ \A x \in S : f[x] \in Nat
  BY DEF Numbers
<1>2. SUFFICES ASSUME Bad # {} PROVE FALSE
  OBVIOUS
<1>3. PICK T \in Bad : \A U \in Bad : Cardinality(T) <= Cardinality(U)
  BY <1>1, <1>2, SmallestSet
<1>4. T # {}
  <2>1. g[{}] = 0
    BY IterStep
  <2>2. g[T] \notin Nat
    BY <1>3
  <2> HIDE DEF g, Bad
  <2> QED
    BY <2>1, <2>2
<1>5. Pick(T) \in T /\ g[T] = f[Pick(T)] + g[T \ {Pick(T)}]
  BY <1>4, IterStep
<1>6. T \ {Pick(T)} \in SUBSET S /\ T \ {Pick(T)} \notin Bad
  BY <1>1, <1>3, <1>5, SubsetSize
<1>7. f[Pick(T)] \in Nat /\ g[T \ {Pick(T)}] \in Nat
  BY <1>1, <1>5, <1>6
<1> QED
  BY <1>5, <1>7

(* The order in which the elements are taken does not matter. *)
LEMMA IterAny ==
    ASSUME NEW f, NEW S, Numbers(f, S)
    PROVE  \A T \in SUBSET S : \A x \in T : Iter(f, S)[T] = f[x] + Iter(f, S)[T \ {x}]
<1> DEFINE g == Iter(f, S)
           Bad == {T \in SUBSET S : \E x \in T : g[T] # f[x] + g[T \ {x}]}
<1>1. IsFiniteSet(S) /\ \A x \in S : f[x] \in Nat
  BY DEF Numbers
<1>2. SUFFICES ASSUME Bad # {} PROVE FALSE
  OBVIOUS
<1>3. PICK T \in Bad : \A U \in Bad : Cardinality(T) <= Cardinality(U)
  BY <1>1, <1>2, SmallestSet
<1>4. PICK x \in T : g[T] # f[x] + g[T \ {x}]
  BY <1>3
<1> DEFINE y == Pick(T)
<1>5. y \in T /\ g[T] = f[y] + g[T \ {y}]
  BY <1>4, IterStep
<1> HIDE DEF y
<1>6. x # y
  BY <1>4, <1>5
<1>7. ASSUME NEW z \in T PROVE T \ {z} \in SUBSET S /\ T \ {z} \notin Bad
  <2>1. T \in SUBSET S
    BY <1>3
  <2>2. /\ Cardinality(T) \in Nat /\ T \ {z} \in SUBSET S
        /\ Cardinality(T \ {z}) = Cardinality(T) - 1
    BY <1>1, <2>1, SubsetSize
  <2> HIDE DEF Bad
  <2> QED
    BY <1>3, <2>2
<1>8. g[T \ {y}] = f[x] + g[(T \ {y}) \ {x}]
  BY <1>5, <1>6, <1>7
<1>9. g[T \ {x}] = f[y] + g[(T \ {x}) \ {y}]
  BY <1>5, <1>6, <1>7
<1>10. (T \ {y}) \ {x} = (T \ {x}) \ {y} /\ (T \ {x}) \ {y} \in SUBSET S
  BY <1>3
<1>11. f[x] \in Nat /\ f[y] \in Nat /\ g[(T \ {x}) \ {y}] \in Nat
  BY <1>1, <1>3, <1>4, <1>5, <1>10, IterNat
<1>12. g[(T \ {y}) \ {x}] = g[(T \ {x}) \ {y}]
  BY <1>10
<1> HIDE DEF g
<1>13. f[x] + (f[y] + g[(T \ {x}) \ {y}]) = f[y] + (f[x] + g[(T \ {x}) \ {y}])
  BY <1>11
<1> QED
  BY <1>4, <1>5, <1>8, <1>9, <1>12, <1>13

(* The set over which the recursion is defined does not matter either. *)
LEMMA IterAgree ==
    ASSUME NEW f, NEW S, Numbers(f, S), NEW g, NEW R, Numbers(g, R)
    PROVE  \A T \in SUBSET (S \cap R) :
              (\A x \in T : f[x] = g[x]) => Iter(f, S)[T] = Iter(g, R)[T]
<1> DEFINE Bad == {T \in SUBSET (S \cap R) : /\ \A x \in T : f[x] = g[x]
                                             /\ Iter(f, S)[T] # Iter(g, R)[T]}
<1>1. IsFiniteSet(S)
  BY DEF Numbers
<1>2. SUFFICES ASSUME Bad # {} PROVE FALSE
  OBVIOUS
<1>3. PICK T \in Bad : \A U \in Bad : Cardinality(T) <= Cardinality(U)
  <2>1. Bad \in SUBSET SUBSET S
    OBVIOUS
  <2> HIDE DEF Bad
  <2> QED
    BY <1>1, <1>2, <2>1, SmallestSet
<1>4. T \in SUBSET S /\ T \in SUBSET R /\ Iter(f, S)[T] # Iter(g, R)[T]
  BY <1>3
<1>5. T # {}
  <2>1. Iter(f, S)[{}] = 0 /\ Iter(g, R)[{}] = 0
    BY IterStep
  <2> HIDE DEF Bad
  <2> QED
    BY <1>4, <2>1
<1> DEFINE y == Pick(T)
           U == T \ {y}
<1>6. y \in T /\ Iter(f, S)[T] = f[y] + Iter(f, S)[U] /\ Iter(g, R)[T] = g[y] + Iter(g, R)[U]
  BY <1>4, <1>5, IterStep
<1>7. U \notin Bad
  <2>1. Cardinality(T) \in Nat /\ Cardinality(U) = Cardinality(T) - 1
    BY <1>1, <1>4, <1>6, SubsetSize
  <2> HIDE DEF Bad, U
  <2> QED
    BY <1>3, <2>1
<1>8. f[y] = g[y] /\ U \in SUBSET (S \cap R) /\ \A x \in U : f[x] = g[x]
  BY <1>3, <1>6
<1>9. Iter(f, S)[U] = Iter(g, R)[U]
  BY <1>7, <1>8
<1> HIDE DEF Bad, U, y
<1> QED
  BY <1>4, <1>6, <1>8, <1>9

-----------------------------------------------------------------------------
(* Sums *)

LEMMA SumEmpty ==
    ASSUME NEW f
    PROVE  SumFunctionOnSet(f, {}) = 0
<1>1. Numbers(f, {})
  BY FS_EmptySet DEF Numbers
<1>2. Iter(f, {})[{}] = 0
  BY <1>1, IterStep
<1> QED
  BY <1>2, SumIsIter

LEMMA SumNat ==
    ASSUME NEW f, NEW S, Numbers(f, S)
    PROVE  SumFunctionOnSet(f, S) \in Nat
<1>1. S \in SUBSET S
  OBVIOUS
<1> QED
  BY <1>1, IterNat, SumIsIter

(* A sum depends on the values at the elements only. *)
LEMMA SumSame ==
    ASSUME NEW f, NEW g, NEW S, Numbers(f, S), \A x \in S : f[x] = g[x]
    PROVE  SumFunctionOnSet(f, S) = SumFunctionOnSet(g, S)
<1>1. Numbers(g, S) /\ S \in SUBSET (S \cap S)
  BY DEF Numbers
<1>2. Iter(f, S)[S] = Iter(g, S)[S]
  BY <1>1, IterAgree
<1> QED
  BY <1>2, SumIsIter

(* One element's share of a sum *)
LEMMA SumTake ==
    ASSUME NEW f, NEW S, Numbers(f, S), NEW x \in S
    PROVE  /\ Numbers(f, S \ {x})
           /\ SumFunctionOnSet(f, S) = f[x] + SumFunctionOnSet(f, S \ {x})
<1> DEFINE R == S \ {x}
<1>1. Numbers(f, R)
  BY FS_RemoveElement DEF Numbers
<1>2. S \in SUBSET S /\ R \in SUBSET (S \cap R)
  OBVIOUS
<1>3. Iter(f, S)[S] = f[x] + Iter(f, S)[R]
  BY <1>2, IterAny
<1>4. Iter(f, S)[R] = Iter(f, R)[R]
  BY <1>1, <1>2, IterAgree
<1> QED
  BY <1>1, <1>3, <1>4, SumIsIter

LEMMA SumAdd ==
    ASSUME NEW f, NEW S, NEW x, Numbers(f, S), x \notin S, f[x] \in Nat
    PROVE  /\ Numbers(f, S \cup {x})
           /\ SumFunctionOnSet(f, S \cup {x}) = f[x] + SumFunctionOnSet(f, S)
<1> DEFINE R == S \cup {x}
<1>1. Numbers(f, R)
  BY FS_AddElement DEF Numbers
<1>2. R \ {x} = S /\ x \in R
  OBVIOUS
<1> HIDE DEF R
<1>3. SumFunctionOnSet(f, R) = f[x] + SumFunctionOnSet(f, R \ {x})
  BY <1>1, <1>2, SumTake
<1> QED
  BY <1>1, <1>2, <1>3 DEF R

(* A sum of which one term changes *)
LEMMA SumChange ==
    ASSUME NEW f, NEW g, NEW S, Numbers(f, S), NEW x \in S, g[x] \in Nat,
           \A y \in S \ {x} : g[y] = f[y]
    PROVE  /\ Numbers(g, S)
           /\ f[x] <= SumFunctionOnSet(f, S)
           /\ SumFunctionOnSet(g, S) = SumFunctionOnSet(f, S) - f[x] + g[x]
<1>1. Numbers(g, S) /\ f[x] \in Nat
  BY DEF Numbers
<1>2. /\ SumFunctionOnSet(f, S) = f[x] + SumFunctionOnSet(f, S \ {x})
      /\ Numbers(f, S \ {x})
  BY SumTake
<1>3. SumFunctionOnSet(g, S) = g[x] + SumFunctionOnSet(g, S \ {x})
  BY <1>1, SumTake
<1>4. SumFunctionOnSet(g, S \ {x}) = SumFunctionOnSet(f, S \ {x})
  BY <1>2, SumSame
<1>5. SumFunctionOnSet(f, S \ {x}) \in Nat
  BY <1>2, SumNat
<1> QED
  BY <1>1, <1>2, <1>3, <1>4, <1>5

(* A sum of which one term grows by n *)
LEMMA SumMore ==
    ASSUME NEW f, NEW g, NEW S, Numbers(f, S), NEW x \in S, NEW n \in Nat,
           g[x] = f[x] + n, \A y \in S \ {x} : g[y] = f[y]
    PROVE  SumFunctionOnSet(g, S) = SumFunctionOnSet(f, S) + n
<1>1. f[x] \in Nat /\ g[x] \in Nat /\ Numbers(g, S)
  BY DEF Numbers
<1>2. /\ SumFunctionOnSet(f, S) = f[x] + SumFunctionOnSet(f, S \ {x})
      /\ Numbers(f, S \ {x})
  BY SumTake
<1>3. SumFunctionOnSet(g, S) = g[x] + SumFunctionOnSet(g, S \ {x})
  BY <1>1, SumTake
<1>4. SumFunctionOnSet(g, S \ {x}) = SumFunctionOnSet(f, S \ {x})
  BY <1>2, SumSame
<1>5. SumFunctionOnSet(f, S \ {x}) \in Nat
  BY <1>2, SumNat
<1> QED
  BY <1>1, <1>2, <1>3, <1>4, <1>5

(* Terms that are zero do not count. *)
LEMMA SumOutside ==
    ASSUME NEW f, NEW S, Numbers(f, S), NEW T \in SUBSET S, \A x \in S \ T : f[x] = 0
    PROVE  SumFunctionOnSet(f, S) = SumFunctionOnSet(f, T)
<1> DEFINE Bad == {R \in SUBSET S : T \subseteq R
                                    /\ SumFunctionOnSet(f, R) # SumFunctionOnSet(f, T)}
<1>1. IsFiniteSet(S) /\ Bad \in SUBSET SUBSET S
  BY DEF Numbers
<1>2. SUFFICES ASSUME S \in Bad PROVE FALSE
  OBVIOUS
<1>3. PICK R \in Bad : \A U \in Bad : Cardinality(R) <= Cardinality(U)
  <2>1. Bad # {}
    BY <1>2
  <2> HIDE DEF Bad
  <2> QED
    BY <1>1, <2>1, SmallestSet
<1>4. /\ R \in SUBSET S /\ T \subseteq R /\ Numbers(f, R)
      /\ SumFunctionOnSet(f, R) # SumFunctionOnSet(f, T)
  BY <1>1, <1>3, SubsetSize DEF Numbers
<1>5. PICK x \in R : x \notin T
  BY <1>4
<1> DEFINE U == R \ {x}
<1>6. /\ SumFunctionOnSet(f, R) = f[x] + SumFunctionOnSet(f, U) /\ f[x] = 0
      /\ SumFunctionOnSet(f, U) \in Nat
  BY <1>4, <1>5, SumTake, SumNat
<1>7. U \in SUBSET S /\ T \subseteq U /\ Cardinality(R) \in Nat
      /\ Cardinality(U) = Cardinality(R) - 1
  BY <1>1, <1>4, <1>5, SubsetSize
<1> HIDE DEF U
<1>8. U \notin Bad
  <2> HIDE DEF Bad
  <2> QED
    BY <1>3, <1>7
<1>9. SumFunctionOnSet(f, U) = SumFunctionOnSet(f, T)
  BY <1>7, <1>8
<1> HIDE DEF Bad
<1> QED
  BY <1>4, <1>6, <1>9

(* A sum is that of a part and of the rest. *)
LEMMA SumSplit ==
    ASSUME NEW f, NEW S, Numbers(f, S), NEW T \in SUBSET S
    PROVE  /\ Numbers(f, T) /\ Numbers(f, S \ T)
           /\ SumFunctionOnSet(f, S) = SumFunctionOnSet(f, T) + SumFunctionOnSet(f, S \ T)
<1> DEFINE Total == SumFunctionOnSet(f, S)
           Bad == {R \in SUBSET S :
                     Total # SumFunctionOnSet(f, R) + SumFunctionOnSet(f, S \ R)}
<1>1. IsFiniteSet(S) /\ Bad \in SUBSET SUBSET S
  BY DEF Numbers
<1>2. \A R \in SUBSET S : Numbers(f, R) /\ Numbers(f, S \ R)
  BY <1>1, FS_Subset DEF Numbers
<1>3. SUFFICES ASSUME T \in Bad PROVE FALSE
  BY <1>2
<1>4. PICK R \in Bad : \A U \in Bad : Cardinality(R) <= Cardinality(U)
  <2>1. Bad # {}
    BY <1>3
  <2> HIDE DEF Bad
  <2> QED
    BY <1>1, <2>1, SmallestSet
<1>5. R \in SUBSET S /\ Total # SumFunctionOnSet(f, R) + SumFunctionOnSet(f, S \ R)
  BY <1>1, <1>4
<1>6. Total \in Nat
  BY SumNat
<1> HIDE DEF Total
<1>7. R # {}
  <2>1. S \ {} = S
    OBVIOUS
  <2> QED
    BY <1>5, <1>6, <2>1, SumEmpty DEF Total
<1>8. PICK x \in R : TRUE
  BY <1>7
<1> DEFINE U == R \ {x}
<1>9. U \in SUBSET S /\ Cardinality(R) \in Nat /\ Cardinality(U) = Cardinality(R) - 1
  BY <1>1, <1>5, <1>8, SubsetSize
<1>10. /\ SumFunctionOnSet(f, R) = f[x] + SumFunctionOnSet(f, U)
       /\ SumFunctionOnSet(f, U) \in Nat
  BY <1>2, <1>5, <1>8, <1>9, SumTake, SumNat
<1>11. /\ SumFunctionOnSet(f, S \ U) = f[x] + SumFunctionOnSet(f, S \ R)
       /\ SumFunctionOnSet(f, S \ R) \in Nat /\ f[x] \in Nat
  <2> DEFINE V == S \ U
  <2>1. x \in V /\ V \ {x} = S \ R /\ V \in SUBSET S
    BY <1>5, <1>8
  <2> HIDE DEF V
  <2>2. Numbers(f, V) /\ f[x] \in Nat
    BY <1>2, <1>5, <1>8, <2>1 DEF Numbers
  <2>4. SumFunctionOnSet(f, V) = f[x] + SumFunctionOnSet(f, V \ {x})
    BY <2>1, <2>2, SumTake
  <2>3. SumFunctionOnSet(f, S \ R) \in Nat
    BY <1>2, <1>5, SumNat
  <2> QED
    BY <2>1, <2>2, <2>3, <2>4 DEF V
<1> HIDE DEF U
<1>12. U \notin Bad
  <2> HIDE DEF Bad
  <2> QED
    BY <1>4, <1>9
<1>13. Total = SumFunctionOnSet(f, U) + SumFunctionOnSet(f, S \ U)
  BY <1>9, <1>12
<1> HIDE DEF Bad
<1> QED
  BY <1>5, <1>10, <1>11, <1>13

(* A part is no more than the whole. *)
LEMMA SumPart ==
    ASSUME NEW f, NEW S, Numbers(f, S), NEW T \in SUBSET S
    PROVE  SumFunctionOnSet(f, T) <= SumFunctionOnSet(f, S)
<1>1. /\ Numbers(f, T) /\ Numbers(f, S \ T)
      /\ SumFunctionOnSet(f, S) = SumFunctionOnSet(f, T) + SumFunctionOnSet(f, S \ T)
  BY SumSplit
<1>2. SumFunctionOnSet(f, T) \in Nat /\ SumFunctionOnSet(f, S \ T) \in Nat
  BY <1>1, SumNat
<1> QED
  BY <1>1, <1>2

LEMMA SumZero ==
    ASSUME NEW f, NEW S, IsFiniteSet(S), \A x \in S : f[x] = 0
    PROVE  SumFunctionOnSet(f, S) = 0
<1>1. Numbers(f, S)
  BY DEF Numbers
<1>2. SumFunctionOnSet(f, S) = SumFunctionOnSet(f, {})
  BY <1>1, SumOutside
<1> QED
  BY <1>2, SumEmpty

(* What holds of the empty set and is never lost by one more element holds   *)
(* of every finite set.                                                     *)
LEMMA SubsetsReached ==
    ASSUME NEW S, IsFiniteSet(S), NEW Good, {} \in Good,
           \A T \in SUBSET S : \A x \in T : T \ {x} \in Good => T \in Good
    PROVE  S \in Good
<1> DEFINE Bad == {T \in SUBSET S : T \notin Good}
<1>1. SUFFICES ASSUME Bad # {} PROVE FALSE
  OBVIOUS
<1>2. PICK T \in Bad : \A U \in Bad : Cardinality(T) <= Cardinality(U)
  <2>1. Bad \in SUBSET SUBSET S
    OBVIOUS
  <2> HIDE DEF Bad
  <2> QED
    BY <1>1, <2>1, SmallestSet
<1>3. T \in SUBSET S /\ T \notin Good /\ T # {}
  BY <1>2
<1>4. PICK x \in T : TRUE
  BY <1>3
<1>5. T \ {x} \in SUBSET S /\ T \ {x} \in Bad
  BY <1>3
<1>6. Cardinality(T) \in Nat /\ Cardinality(T \ {x}) = Cardinality(T) - 1
  BY <1>3, SubsetSize
<1> HIDE DEF Bad
<1>7. Cardinality(T) <= Cardinality(T \ {x})
  BY <1>2, <1>5
<1> QED
  BY <1>6, <1>7

LEMMA NumbersPart ==
    ASSUME NEW f, NEW S, Numbers(f, S), NEW T \in SUBSET S
    PROVE  Numbers(f, T)
BY FS_Subset DEF Numbers

(* A sum of sums *)
LEMMA SumPlus ==
    ASSUME NEW f, NEW g, NEW h, NEW S, Numbers(f, S), Numbers(g, S),
           \A x \in S : h[x] = f[x] + g[x]
    PROVE  /\ Numbers(h, S)
           /\ SumFunctionOnSet(h, S) = SumFunctionOnSet(f, S) + SumFunctionOnSet(g, S)
<1> DEFINE Good == {T \in SUBSET S : SumFunctionOnSet(h, T)
                                        = SumFunctionOnSet(f, T) + SumFunctionOnSet(g, T)}
<1>1. IsFiniteSet(S) /\ Numbers(h, S)
  BY DEF Numbers
<1>2. {} \in Good
  BY SumEmpty
<1>3. ASSUME NEW T \in SUBSET S, NEW x \in T, T \ {x} \in Good PROVE T \in Good
  <2> DEFINE U == T \ {x}
  <2>1. /\ Numbers(f, T) /\ Numbers(g, T) /\ Numbers(h, T)
        /\ f[x] \in Nat /\ g[x] \in Nat /\ h[x] = f[x] + g[x]
    BY <1>1, NumbersPart DEF Numbers
  <2>2. SumFunctionOnSet(f, T) = f[x] + SumFunctionOnSet(f, U) /\ Numbers(f, U)
    BY ONLY <2>1, x \in T, SumTake
  <2>3. SumFunctionOnSet(g, T) = g[x] + SumFunctionOnSet(g, U) /\ Numbers(g, U)
    BY ONLY <2>1, x \in T, SumTake
  <2>4. SumFunctionOnSet(h, T) = h[x] + SumFunctionOnSet(h, U)
    BY ONLY <2>1, x \in T, SumTake
  <2>5. SumFunctionOnSet(f, U) \in Nat /\ SumFunctionOnSet(g, U) \in Nat
    BY <2>2, <2>3, SumNat
  <2>6. SumFunctionOnSet(h, U) = SumFunctionOnSet(f, U) + SumFunctionOnSet(g, U)
    BY <1>3
  <2>7. SumFunctionOnSet(h, T) = SumFunctionOnSet(f, T) + SumFunctionOnSet(g, T)
    BY <2>1, <2>2, <2>3, <2>4, <2>5, <2>6
  <2> QED
    BY <2>7
<1> HIDE DEF Good
<1>4. S \in Good
  BY <1>1, <1>2, <1>3, SubsetsReached
<1> QED
  BY <1>1, <1>4 DEF Good

(* A common factor *)
LEMMA SumTimes ==
    ASSUME NEW f, NEW h, NEW S, Numbers(f, S), NEW k \in Nat,
           \A x \in S : h[x] = f[x] * k
    PROVE  /\ Numbers(h, S)
           /\ SumFunctionOnSet(h, S) = SumFunctionOnSet(f, S) * k
<1> DEFINE Good == {T \in SUBSET S : SumFunctionOnSet(h, T) = SumFunctionOnSet(f, T) * k}
<1>1. IsFiniteSet(S) /\ Numbers(h, S)
  BY DEF Numbers
<1>2. {} \in Good
  <2>1. 0 = 0 * k
    OBVIOUS
  <2> QED
    BY <2>1, SumEmpty
<1>3. ASSUME NEW T \in SUBSET S, NEW x \in T, T \ {x} \in Good PROVE T \in Good
  <2> DEFINE U == T \ {x}
  <2>1. /\ Numbers(f, T) /\ Numbers(h, T)
        /\ f[x] \in Nat /\ h[x] = f[x] * k
    BY <1>1, NumbersPart DEF Numbers
  <2>2. SumFunctionOnSet(f, T) = f[x] + SumFunctionOnSet(f, U) /\ Numbers(f, U)
    BY ONLY <2>1, x \in T, SumTake
  <2>3. SumFunctionOnSet(h, T) = h[x] + SumFunctionOnSet(h, U)
    BY ONLY <2>1, x \in T, SumTake
  <2>4. SumFunctionOnSet(f, U) \in Nat
    BY <2>2, SumNat
  <2>5. SumFunctionOnSet(h, U) = SumFunctionOnSet(f, U) * k
    BY <1>3
  <2>6. \A a, b \in Nat : (a + b) * k = a * k + b * k
    OBVIOUS
  <2>7. SumFunctionOnSet(h, T) = SumFunctionOnSet(f, T) * k
    BY <2>1, <2>2, <2>3, <2>4, <2>5, <2>6
  <2> QED
    BY <2>7
<1> HIDE DEF Good
<1>4. S \in Good
  BY <1>1, <1>2, <1>3, SubsetsReached
<1> QED
  BY <1>1, <1>4 DEF Good

(* Smaller terms *)
LEMMA SumAtMost ==
    ASSUME NEW f, NEW g, NEW S, Numbers(f, S), Numbers(g, S), \A x \in S : f[x] <= g[x]
    PROVE  SumFunctionOnSet(f, S) <= SumFunctionOnSet(g, S)
<1> DEFINE Good == {T \in SUBSET S : SumFunctionOnSet(f, T) <= SumFunctionOnSet(g, T)}
<1>1. IsFiniteSet(S)
  BY DEF Numbers
<1>2. {} \in Good
  <2>1. 0 <= 0
    OBVIOUS
  <2> QED
    BY <2>1, SumEmpty
<1>3. ASSUME NEW T \in SUBSET S, NEW x \in T, T \ {x} \in Good PROVE T \in Good
  <2> DEFINE U == T \ {x}
  <2>1. /\ Numbers(f, T) /\ Numbers(g, T)
        /\ f[x] \in Nat /\ g[x] \in Nat /\ f[x] <= g[x]
    BY NumbersPart DEF Numbers
  <2>2. SumFunctionOnSet(f, T) = f[x] + SumFunctionOnSet(f, U) /\ Numbers(f, U)
    BY ONLY <2>1, x \in T, SumTake
  <2>3. SumFunctionOnSet(g, T) = g[x] + SumFunctionOnSet(g, U) /\ Numbers(g, U)
    BY ONLY <2>1, x \in T, SumTake
  <2>4. SumFunctionOnSet(f, U) \in Nat /\ SumFunctionOnSet(g, U) \in Nat
    BY <2>2, <2>3, SumNat
  <2>5. SumFunctionOnSet(f, U) <= SumFunctionOnSet(g, U)
    BY <1>3
  <2>6. SumFunctionOnSet(f, T) <= SumFunctionOnSet(g, T)
    BY <2>1, <2>2, <2>3, <2>4, <2>5
  <2> QED
    BY <2>6
<1> HIDE DEF Good
<1>4. S \in Good
  BY <1>1, <1>2, <1>3, SubsetsReached
<1> QED
  BY <1>4 DEF Good

(* A term that another one replaces, leaving a zero behind *)
LEMMA SumMove ==
    ASSUME NEW f, NEW g, NEW S, Numbers(f, S), NEW x \in S, NEW y \in S, x # y,
           g[x] = f[y], g[y] = 0, \A z \in S \ {x, y} : g[z] = f[z]
    PROVE  SumFunctionOnSet(g, S) = SumFunctionOnSet(f, S) - f[x]
<1> DEFINE R == S \ {x}
           U == R \ {y}
<1>1. f[x] \in Nat /\ f[y] \in Nat /\ Numbers(g, S) /\ y \in R
  BY DEF Numbers
<1>2. /\ SumFunctionOnSet(f, S) = f[x] + SumFunctionOnSet(f, R) /\ Numbers(f, R)
      /\ SumFunctionOnSet(g, S) = g[x] + SumFunctionOnSet(g, R) /\ Numbers(g, R)
  BY <1>1, SumTake
<1>3. \A z \in U : f[z] = g[z]
  OBVIOUS
<1> HIDE DEF R, U
<1>4. /\ SumFunctionOnSet(f, R) = f[y] + SumFunctionOnSet(f, R \ {y}) /\ Numbers(f, R \ {y})
      /\ SumFunctionOnSet(g, R) = g[y] + SumFunctionOnSet(g, R \ {y})
  BY <1>1, <1>2, SumTake
<1>5. SumFunctionOnSet(f, U) = SumFunctionOnSet(g, U) /\ SumFunctionOnSet(f, U) \in Nat
  BY <1>3, <1>4, SumSame, SumNat DEF U
<1> QED
  BY <1>1, <1>2, <1>4, <1>5 DEF U
=============================================================================

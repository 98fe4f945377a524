------------------------------ MODULE SumProofs ------------------------------
(***************************************************************************)
(* Facts about the sum of a function over a finite set, which the ledgers  *)
(* of this project are stated with.  The library defines the sum by        *)
(* recursion over a set; it equals the number of the pairs <<x, k>> with   *)
(* 1 <= k <= f[x], and its laws are those of Cardinality.                  *)
(***************************************************************************)
EXTENDS Sums, FiniteSetTheorems, TLAPS

Units(f, S) == {u \in S \X Nat : 1 <= u[2] /\ u[2] <= f[u[1]]}

UnitCount(f, S) == Cardinality(Units(f, S))

LEMMA UnitsOne ==
  ASSUME NEW x, NEW f, f[x] \in Nat
  PROVE  IsFiniteSet(Units(f, {x})) /\ Cardinality(Units(f, {x})) = f[x]
<1> DEFINE n == f[x]
           I == 1..n
<1>1. Units(f, {x}) = {x} \X I
  BY DEF Units
<1>2. IsFiniteSet({x}) /\ Cardinality({x}) = 1
  BY FS_Singleton
<1>3. IsFiniteSet(I) /\ Cardinality(I) = n
  BY FS_Interval
<1>4. n \in Nat
  OBVIOUS
<1> HIDE DEF n, I
<1>5. IsFiniteSet({x} \X I) /\ Cardinality({x} \X I) = 1 * n
  BY <1>2, <1>3, FS_Product
<1>6. 1 * n = n
  BY <1>4
<1> QED
  BY <1>1, <1>5, <1>6 DEF n

LEMMA UnitsAdd ==
  ASSUME NEW S, NEW x \in S, NEW f, f[x] \in Nat, IsFiniteSet(Units(f, S \ {x}))
  PROVE  /\ IsFiniteSet(Units(f, S))
         /\ UnitCount(f, S) = f[x] + UnitCount(f, S \ {x})
<1> DEFINE A == Units(f, {x})
           B == Units(f, S \ {x})
<1>1. Units(f, S) = A \cup B /\ A \cap B = {}
  BY DEF Units
<1>2. IsFiniteSet(A) /\ Cardinality(A) = f[x]
  BY UnitsOne
<1>3. Cardinality({}) = 0
  BY FS_EmptySet
<1>4. IsFiniteSet(B) /\ Cardinality(B) \in Nat
  BY FS_CardinalityType
<1>5. UnitCount(f, S) = Cardinality(Units(f, S)) /\ UnitCount(f, S \ {x}) = Cardinality(B)
  BY DEF UnitCount
<1> HIDE DEF A, B
<1>6. /\ IsFiniteSet(A \cup B)
      /\ Cardinality(A \cup B) = Cardinality(A) + Cardinality(B) - Cardinality(A \cap B)
  BY <1>2, <1>4, FS_Union
<1>7. IsFiniteSet(Units(f, S))
  BY <1>1, <1>6
<1>8. UnitCount(f, S) = Cardinality(A) + Cardinality(B) - 0
  BY <1>1, <1>3, <1>5, <1>6
<1>9. UnitCount(f, S) = f[x] + UnitCount(f, S \ {x})
  BY <1>2, <1>4, <1>5, <1>8
<1> QED
  BY <1>7, <1>9

\* Induction over the subsets of a finite set, said of a set of subsets: one
\* that holds every set whose proper subsets it holds, holds them all.
LEMMA AllSubsets ==
  ASSUME NEW S, IsFiniteSet(S), NEW Good,
         \A T \in SUBSET S : (\A x \in T : T \ {x} \in Good) => T \in Good
  PROVE  SUBSET S \subseteq Good
<1> DEFINE Bad == (SUBSET S) \ Good
<1> SUFFICES ASSUME Bad # {} PROVE FALSE
  OBVIOUS
<1>1. IsWellFoundedOn(StrictSubsetOrdering(S), FiniteSubsetsOf(S))
  BY FS_StrictSubsetOrderingWellFounded
<1>2. FiniteSubsetsOf(S) = SUBSET S
  BY FS_FiniteSubsetsOfFinite
<1>3. PICK T \in Bad : \A U \in Bad : ~ (<<U, T>> \in StrictSubsetOrdering(S))
  <2>1. Bad \subseteq SUBSET S
    OBVIOUS
  <2> HIDE DEF Bad
  <2> QED
    BY <1>1, <1>2, <2>1, WFMin
<1>4. ASSUME NEW x \in T
      PROVE  T \ {x} \in Good
  <2>1. T \ {x} \in SUBSET S /\ <<T \ {x}, T>> \in StrictSubsetOrdering(S)
    BY DEF StrictSubsetOrdering
  <2> QED
    BY <1>3, <2>1
<1> QED
  BY <1>4

LEMMA UnitsFinite ==
  ASSUME NEW S, IsFiniteSet(S), NEW f, \A x \in S : f[x] \in Nat
  PROVE  \A T \in SUBSET S : IsFiniteSet(Units(f, T)) /\ UnitCount(f, T) \in Nat
<1> DEFINE Good == {T \in SUBSET S : IsFiniteSet(Units(f, T))}
<1>1. {} \in Good
  <2>1. Units(f, {}) = {}
    BY DEF Units
  <2> QED
    BY <2>1, FS_EmptySet
<1>2. ASSUME NEW T \in SUBSET S, \A x \in T : T \ {x} \in Good
      PROVE  T \in Good
  <2>1. CASE T = {}
    BY <1>1, <2>1
  <2>2. CASE T # {}
    BY <1>2, <2>2, UnitsAdd
  <2> QED
    BY <2>1, <2>2
<1>3. SUBSET S \subseteq Good
  <2> HIDE DEF Good
  <2> QED
    BY <1>2, AllSubsets
<1> QED
  BY <1>3, FS_CardinalityType DEF UnitCount

\* The library's sum is the number of units.
LEMMA SumIsCount ==
  ASSUME NEW S, IsFiniteSet(S), NEW f, \A x \in S : f[x] \in Nat
  PROVE  Sum(f, S) = UnitCount(f, S)
<1> DEFINE Pick(T) == CHOOSE x \in T : TRUE
           Step(g) == [T \in SUBSET S |->
                         IF T = {} THEN 0 ELSE f[Pick(T)] + g[T \ {Pick(T)}]]
           iter == CHOOSE g : g = Step(g)
           count == [T \in SUBSET S |-> UnitCount(f, T)]
<1>1. Sum(f, S) = iter[S]
  BY DEF Sum, MapThenSumSet, MapThenFoldSet
<1>2. UnitCount(f, {}) = 0
  BY FS_EmptySet DEF Units, UnitCount
<1>3. ASSUME NEW T \in SUBSET S, T # {}
      PROVE  Pick(T) \in T /\ UnitCount(f, T) = f[Pick(T)] + UnitCount(f, T \ {Pick(T)})
  <2>1. Pick(T) \in T
    BY <1>3
  <2> HIDE DEF Pick
  <2> QED
    BY <2>1, UnitsAdd, UnitsFinite
<1>4. count = Step(count)
  BY <1>2, <1>3
<1>5. iter = Step(iter)
  BY <1>4
<1> HIDE DEF iter, Pick
<1> DEFINE Good == {T \in SUBSET S : iter[T] = UnitCount(f, T)}
<1>6. ASSUME NEW T \in SUBSET S, \A x \in T : T \ {x} \in Good
      PROVE  T \in Good
  <2>1. CASE T = {}
    BY <1>2, <1>5, <2>1
  <2>2. CASE T # {}
    BY <1>3, <1>5, <1>6, <2>2
  <2> QED
    BY <2>1, <2>2
<1>7. SUBSET S \subseteq Good
  <2> HIDE DEF Good
  <2> QED
    BY <1>6, AllSubsets
<1> QED
  BY <1>1, <1>7

-----------------------------------------------------------------------------
(* The laws of sums.                                                       *)

LEMMA SumType ==
  ASSUME NEW S, IsFiniteSet(S), NEW f, \A x \in S : f[x] \in Nat
  PROVE  Sum(f, S) \in Nat
BY SumIsCount, UnitsFinite

LEMMA SumEmpty ==
  ASSUME NEW f
  PROVE  Sum(f, {}) = 0
<1>1. Units(f, {}) = {} /\ IsFiniteSet({}) /\ Cardinality({}) = 0
  BY FS_EmptySet DEF Units
<1>2. Sum(f, {}) = UnitCount(f, {})
  BY <1>1, SumIsCount
<1> QED
  BY <1>1, <1>2 DEF UnitCount

LEMMA SumRemove ==
  ASSUME NEW S, IsFiniteSet(S), NEW f, \A x \in S : f[x] \in Nat, NEW x \in S
  PROVE  Sum(f, S) = f[x] + Sum(f, S \ {x})
<1>1. IsFiniteSet(S \ {x})
  BY FS_RemoveElement
<1>2. IsFiniteSet(Units(f, S \ {x}))
  BY UnitsFinite
<1>3. UnitCount(f, S) = f[x] + UnitCount(f, S \ {x})
  BY <1>2, UnitsAdd
<1>4. Sum(f, S) = UnitCount(f, S)
  BY SumIsCount
<1>5. Sum(f, S \ {x}) = UnitCount(f, S \ {x})
  BY <1>1, SumIsCount
<1> QED
  BY <1>3, <1>4, <1>5

\* Where two functions agree, so do their sums.
LEMMA SumSame ==
  ASSUME NEW S, IsFiniteSet(S), NEW f, NEW g,
         \A x \in S : f[x] \in Nat /\ g[x] = f[x]
  PROVE  Sum(g, S) = Sum(f, S)
<1>1. Units(g, S) = Units(f, S)
  BY DEF Units
<1>2. Sum(f, S) = UnitCount(f, S)
  BY SumIsCount
<1>3. Sum(g, S) = UnitCount(g, S)
  BY SumIsCount
<1> QED
  BY <1>1, <1>2, <1>3 DEF UnitCount

\* A change at one place changes the sum by as much.
LEMMA SumChange ==
  ASSUME NEW S, IsFiniteSet(S), NEW f, NEW g, NEW x \in S,
         \A y \in S : f[y] \in Nat /\ g[y] \in Nat,
         \A y \in S \ {x} : g[y] = f[y]
  PROVE  Sum(g, S) + f[x] = Sum(f, S) + g[x]
<1>1. IsFiniteSet(S \ {x})
  BY FS_RemoveElement
<1>2. Sum(g, S \ {x}) = Sum(f, S \ {x}) /\ Sum(f, S \ {x}) \in Nat
  BY <1>1, SumSame, SumType
<1>3. Sum(f, S) = f[x] + Sum(f, S \ {x})
  BY SumRemove
<1>4. Sum(g, S) = g[x] + Sum(g, S \ {x})
  BY SumRemove
<1> QED
  BY <1>2, <1>3, <1>4

\* Pairs of functions compared place by place have sums compared alike.
LEMMA SumLeq ==
  ASSUME NEW S, IsFiniteSet(S), NEW f, NEW g, NEW h, NEW k,
         \A x \in S : /\ f[x] \in Nat /\ g[x] \in Nat /\ h[x] \in Nat /\ k[x] \in Nat
                      /\ f[x] + g[x] <= h[x] + k[x]
  PROVE  Sum(f, S) + Sum(g, S) <= Sum(h, S) + Sum(k, S)
<1> DEFINE Good == {T \in SUBSET S : Sum(f, T) + Sum(g, T) <= Sum(h, T) + Sum(k, T)}
<1>1. ASSUME NEW T \in SUBSET S, \A x \in T : T \ {x} \in Good
      PROVE  T \in Good
  <2>1. CASE T = {}
    BY <2>1, SumEmpty
  <2>2. CASE T # {}
    <3>1. PICK x \in T : TRUE
      BY <2>2
    <3>2. IsFiniteSet(T) /\ IsFiniteSet(T \ {x})
      BY FS_Subset, FS_RemoveElement
    <3>3. /\ Sum(f, T \ {x}) \in Nat /\ Sum(g, T \ {x}) \in Nat
          /\ Sum(h, T \ {x}) \in Nat /\ Sum(k, T \ {x}) \in Nat
      BY <3>2, SumType
    <3>4. Sum(f, T) = f[x] + Sum(f, T \ {x}) /\ Sum(g, T) = g[x] + Sum(g, T \ {x})
      BY <3>2, SumRemove
    <3>5. Sum(h, T) = h[x] + Sum(h, T \ {x}) /\ Sum(k, T) = k[x] + Sum(k, T \ {x})
      BY <3>2, SumRemove
    <3>6. Sum(f, T \ {x}) + Sum(g, T \ {x}) <= Sum(h, T \ {x}) + Sum(k, T \ {x})
      BY <1>1
    <3>7. x \in S
      OBVIOUS
    <3> QED
      BY <3>3, <3>4, <3>5, <3>6, <3>7
  <2> QED
    BY <2>1, <2>2
<1>2. SUBSET S \subseteq Good
  <2> HIDE DEF Good
  <2> QED
    BY <1>1, AllSubsets
<1> QED
  BY <1>2

LEMMA SumEqual ==
  ASSUME NEW S, IsFiniteSet(S), NEW f, NEW g, NEW h, NEW k,
         \A x \in S : /\ f[x] \in Nat /\ g[x] \in Nat /\ h[x] \in Nat /\ k[x] \in Nat
                      /\ f[x] + g[x] = h[x] + k[x]
  PROVE  Sum(f, S) + Sum(g, S) = Sum(h, S) + Sum(k, S)
<1>1. /\ Sum(f, S) \in Nat /\ Sum(g, S) \in Nat
      /\ Sum(h, S) \in Nat /\ Sum(k, S) \in Nat
  BY SumType
<1>2. Sum(f, S) + Sum(g, S) <= Sum(h, S) + Sum(k, S)
  BY SumLeq
<1>3. Sum(h, S) + Sum(k, S) <= Sum(f, S) + Sum(g, S)
  BY SumLeq
<1> QED
  BY <1>1, <1>2, <1>3

\* Nothing outside T counts.
LEMMA SumWithin ==
  ASSUME NEW S, IsFiniteSet(S), NEW T \in SUBSET S, NEW f, NEW g,
         \A x \in T : f[x] \in Nat /\ g[x] = f[x],
         \A x \in S \ T : g[x] = 0
  PROVE  Sum(f, T) = Sum(g, S)
<1>1. Units(g, S) = Units(f, T)
  BY DEF Units
<1>2. IsFiniteSet(T)
  BY FS_Subset
<1>3. Sum(f, T) = UnitCount(f, T)
  BY <1>2, SumIsCount
<1>4. Sum(g, S) = UnitCount(g, S)
  BY SumIsCount
<1> QED
  BY <1>1, <1>3, <1>4 DEF UnitCount

LEMMA SumZero ==
  ASSUME NEW S, IsFiniteSet(S), NEW f, \A x \in S : f[x] = 0
  PROVE  Sum(f, S) = 0
<1>1. Sum(f, {}) = Sum(f, S)
  BY SumWithin
<1> QED
  BY <1>1, SumEmpty

\* A product grows with its factors.
LEMMA ProductGrows ==
  ASSUME NEW a \in Nat, NEW b \in Nat, NEW c \in Nat, a <= b
  PROVE  a * c \in Nat /\ b * c \in Nat /\ a * c <= b * c
<1>1. PICK d \in Nat : b = a + d
  <2>1. b - a \in Nat /\ b = a + (b - a)
    OBVIOUS
  <2> QED
    BY <2>1
<1>2. b * c = a * c + d * c
  BY <1>1
<1>3. a * c \in Nat /\ d * c \in Nat
  BY <1>1
<1> QED
  BY <1>2, <1>3

\* A common factor.
LEMMA SumScaled ==
  ASSUME NEW S, IsFiniteSet(S), NEW f, NEW g, NEW c \in Nat,
         \A x \in S : f[x] \in Nat /\ g[x] \in Nat /\ g[x] = c * f[x]
  PROVE  Sum(g, S) = c * Sum(f, S)
<1> DEFINE Good == {T \in SUBSET S : Sum(g, T) = c * Sum(f, T)}
<1>1. ASSUME NEW T \in SUBSET S, \A x \in T : T \ {x} \in Good
      PROVE  T \in Good
  <2>1. CASE T = {}
    <3>1. Sum(f, T) = 0 /\ Sum(g, T) = 0
      BY <2>1, SumEmpty
    <3> QED
      BY <3>1
  <2>2. CASE T # {}
    <3>1. PICK x \in T : TRUE
      BY <2>2
    <3>2. IsFiniteSet(T) /\ IsFiniteSet(T \ {x}) /\ x \in S
      BY FS_Subset, FS_RemoveElement
    <3>3. Sum(f, T \ {x}) \in Nat /\ f[x] \in Nat /\ g[x] = c * f[x]
      BY <3>2, SumType
    <3>4. Sum(f, T) = f[x] + Sum(f, T \ {x})
      BY <3>2, SumRemove
    <3>5. Sum(g, T) = g[x] + Sum(g, T \ {x})
      BY <3>2, SumRemove
    <3>6. Sum(g, T \ {x}) = c * Sum(f, T \ {x})
      BY <1>1
    <3>7. c * (f[x] + Sum(f, T \ {x})) = c * f[x] + c * Sum(f, T \ {x})
      BY <3>3
    <3> QED
      BY <3>3, <3>4, <3>5, <3>6, <3>7
  <2> QED
    BY <2>1, <2>2
<1>2. SUBSET S \subseteq Good
  <2> HIDE DEF Good
  <2> QED
    BY <1>1, AllSubsets
<1> QED
  BY <1>2

\* A sum grows with its terms.
LEMMA SumGrows ==
  ASSUME NEW S, IsFiniteSet(S), NEW f, NEW g,
         \A x \in S : f[x] \in Nat /\ g[x] \in Nat /\ f[x] <= g[x]
  PROVE  Sum(f, S) <= Sum(g, S)
<1> DEFINE zero == [x \in S |-> 0]
<1>1. Sum(zero, S) = 0
  BY SumZero
<1>2. \A x \in S : /\ f[x] \in Nat /\ zero[x] \in Nat /\ g[x] \in Nat
                   /\ f[x] + zero[x] <= g[x] + zero[x]
  OBVIOUS
<1>3. Sum(f, S) \in Nat /\ Sum(g, S) \in Nat
  BY SumType
<1> HIDE DEF zero
<1>4. Sum(f, S) + Sum(zero, S) <= Sum(g, S) + Sum(zero, S)
  BY <1>2, SumLeq
<1> QED
  BY <1>1, <1>3, <1>4
=============================================================================

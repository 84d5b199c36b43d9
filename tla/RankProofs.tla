----------------------------- MODULE RankProofs -----------------------------
(***************************************************************************)
(* The rank of a number in a finite set of numbers: how many of the set    *)
(* are at most that number.  The grid proxy lists nodes in this order, and *)
(* a call that makes several contracts numbers them in it.                 *)
(***************************************************************************)
EXTENDS Integers, FiniteSets, FiniteSetTheorems, TLAPS

UpTo(S, n) == {m \in S : m <= n}

\* A set of r members ranks them from 1 to r.
LEMMA RankRange ==
  ASSUME NEW S \in SUBSET Int, IsFiniteSet(S), NEW n \in S
  PROVE  Cardinality({m \in S : m <= n}) \in 1..Cardinality(S)
<1>1. UpTo(S, n) \in SUBSET S /\ n \in UpTo(S, n)
  BY DEF UpTo
<1>2. /\ IsFiniteSet(UpTo(S, n)) /\ Cardinality(UpTo(S, n)) \in Nat
      /\ Cardinality(UpTo(S, n)) <= Cardinality(S) /\ Cardinality(S) \in Nat
  BY <1>1, FS_Subset, FS_CardinalityType
<1>3. Cardinality(UpTo(S, n)) # 0
  BY <1>1, <1>2, FS_EmptySet
<1> QED
  BY <1>2, <1>3 DEF UpTo

\* The smaller number has the smaller rank.
LEMMA RankOrder ==
  ASSUME NEW S \in SUBSET Int, IsFiniteSet(S), NEW n \in S, NEW k \in S, n < k
  PROVE  Cardinality({m \in S : m <= n}) < Cardinality({m \in S : m <= k})
<1>1. UpTo(S, n) \in SUBSET UpTo(S, k) /\ k \in UpTo(S, k) /\ k \notin UpTo(S, n)
  <2>1. \A m \in S : m \in Int
    OBVIOUS
  <2>2. \A m \in S : m <= n => m <= k
    BY <2>1
  <2>3. k <= k /\ ~(k <= n)
    BY <2>1
  <2> QED
    BY <2>2, <2>3 DEF UpTo
<1>2. UpTo(S, n) \in SUBSET S /\ UpTo(S, k) \in SUBSET S
  BY DEF UpTo
<1>3. IsFiniteSet(UpTo(S, k)) /\ IsFiniteSet(UpTo(S, n))
  BY <1>2, FS_Subset
<1>4. /\ Cardinality(UpTo(S, n)) \in Nat /\ Cardinality(UpTo(S, k)) \in Nat
      /\ Cardinality(UpTo(S, n)) <= Cardinality(UpTo(S, k))
      /\ Cardinality(UpTo(S, n)) # Cardinality(UpTo(S, k))
  BY <1>1, <1>3, FS_Subset, FS_CardinalityType
<1>5. Cardinality(UpTo(S, n)) < Cardinality(UpTo(S, k))
  BY <1>4
<1> QED
  BY <1>5 DEF UpTo

\* Numbers of one rank are equal.
LEMMA RankInjective ==
  ASSUME NEW S \in SUBSET Int, IsFiniteSet(S), NEW n \in S, NEW k \in S,
         Cardinality({m \in S : m <= n}) = Cardinality({m \in S : m <= k})
  PROVE  n = k
<1>1. /\ Cardinality({m \in S : m <= n}) \in Int
      /\ Cardinality({m \in S : m <= k}) \in Int
  BY RankRange
<1>2. n \in Int /\ k \in Int
  OBVIOUS
<1>3. CASE n < k
  BY <1>1, <1>3, RankOrder
<1>4. CASE k < n
  BY <1>1, <1>4, RankOrder
<1> QED
  BY <1>2, <1>3, <1>4

\* No rank is left out.
LEMMA RankReached ==
  ASSUME NEW S \in SUBSET Int, IsFiniteSet(S), NEW r \in 1..Cardinality(S)
  PROVE  \E n \in S : Cardinality({m \in S : m <= n}) = r
<1> DEFINE rank(n) == Cardinality({m \in S : m <= n})
           others == 1..Cardinality(S) \ {r}
           f == [n \in S |-> rank(n)]
<1>1. SUFFICES ASSUME \A n \in S : rank(n) # r PROVE FALSE
  OBVIOUS
<1>2. Cardinality(S) \in Nat
  BY FS_CardinalityType
<1>3. /\ IsFiniteSet(1..Cardinality(S))
      /\ Cardinality(1..Cardinality(S)) = Cardinality(S)
  <2>1. /\ IsFiniteSet(1..Cardinality(S))
        /\ Cardinality(1..Cardinality(S)) =
             IF 1 > Cardinality(S) THEN 0 ELSE Cardinality(S) - 1 + 1
    BY <1>2, FS_Interval
  <2> QED
    BY <1>2, <2>1
<1>4. IsFiniteSet(others) /\ Cardinality(others) = Cardinality(S) - 1
  BY <1>3, FS_RemoveElement
<1>5. f \in [S -> others]
  <2>1. \A n \in S : rank(n) \in others
    BY <1>1, RankRange
  <2> QED
    BY <2>1
<1>6. PICK x, y \in S : x # y /\ f[x] = f[y]
  <2>1. Cardinality(others) < Cardinality(S)
    BY <1>2, <1>4
  <2> HIDE DEF others, f
  <2> QED
    BY <1>4, <1>5, <2>1, FS_PigeonHole
<1>7. rank(x) = rank(y)
  BY <1>6
<1> QED
  BY <1>6, <1>7, RankInjective
============================================================================

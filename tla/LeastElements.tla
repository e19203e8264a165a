---------------------------- MODULE LeastElements ----------------------------
(***************************************************************************)
(* That bounded sets of natural numbers have least elements, which the      *)
(* searches of NullTermArray and the descriptors of Harness rest on.        *)
(***************************************************************************)
EXTENDS Integers, FiniteSets, TLAPS, FiniteSetTheorems, WellFoundedInduction

(* A non-empty set of natural numbers with a bound has a least element: the   *)
(* sets of its elements below each of them are well-founded under inclusion.  *)
LEMMA HasLeast ==
  ASSUME NEW k \in Nat, NEW S \in SUBSET (0 .. k), S # {}
  PROVE  \E m \in S : \A n \in S : m <= n
<1> DEFINE Below(i) == {j \in S : j <= i}
           T == {Below(i) : i \in S}
           R == StrictSubsetOrdering(S)
<1>1. IsFiniteSet(S)
  <2>1. IsFiniteSet(0 .. k)
    BY FS_Interval
  <2> QED BY <2>1, FS_Subset
<1>2. IsWellFoundedOn(R, SUBSET S)
  BY <1>1, FS_StrictSubsetOrderingWellFounded, FS_FiniteSubsetsOfFinite
<1>3. T \subseteq SUBSET S /\ T # {}
  OBVIOUS
<1>4. \E X \in T : \A Y \in T : <<Y, X>> \notin R
  <2> HIDE DEF R, T
  <2> QED BY <1>2, <1>3, WFMin
<1>5. PICK m \in S : \A Y \in T : <<Y, Below(m)>> \notin R
  BY <1>4
<1>6. S \subseteq Int
  OBVIOUS
<1>7. ASSUME NEW n \in S PROVE m <= n
  <2> SUFFICES ASSUME n < m PROVE FALSE
    BY <1>6
  <2>1. n \in Int /\ m \in Int
    BY <1>6
  <2>2. \A j \in S : j <= n => j <= m
    BY <2>1, <1>6
  <2>3. Below(n) \subseteq Below(m)
    BY <2>2
  <2>4. m \in Below(m) /\ m \notin Below(n)
    BY <2>1
  <2>5. <<Below(n), Below(m)>> \in R
    BY <2>3, <2>4, <1>3 DEF StrictSubsetOrdering
  <2> QED BY <2>5, <1>5
<1> QED BY <1>7

(* A non-empty set of natural numbers with a bound has a greatest element too. *)
LEMMA HasGreatest ==
  ASSUME NEW k \in Nat, NEW S \in SUBSET (0 .. k), S # {}
  PROVE  \E m \in S : \A n \in S : n <= m
<1> DEFINE R == {k - i : i \in S}
<1>1. R \in SUBSET (0 .. k) /\ R # {}
  <2>1. \A i \in S : k - i \in 0 .. k
    OBVIOUS
  <2> QED BY <2>1
<1>2. PICK r \in R : \A n \in R : r <= n
  <2> HIDE DEF R
  <2> QED BY <1>1, HasLeast
<1>3. PICK m \in S : r = k - m
  OBVIOUS
<1>4. ASSUME NEW n \in S PROVE n <= m
  <2>1. k - n \in R
    OBVIOUS
  <2>2. k - m <= k - n /\ m \in 0 .. k /\ n \in 0 .. k
    BY <1>2, <1>3, <2>1
  <2> QED BY <2>2
<1> QED BY <1>4

(* Such a set has a k-th element for each k up to how many there are: the     *)
(* least of those that are not greater than at least k of them.               *)
LEMMA HasNth ==
  ASSUME NEW b \in Nat, NEW S \in SUBSET (0 .. b), NEW k \in 1 .. Cardinality(S)
  PROVE  \E i \in S : Cardinality({j \in S : j <= i}) = k
<1> DEFINE Upto(i) == {j \in S : j <= i}
           T == {i \in S : k <= Cardinality(Upto(i))}
<1>1. IsFiniteSet(S) /\ Cardinality(S) \in Nat
  <2>1. IsFiniteSet(0 .. b)
    BY FS_Interval
  <2> QED BY <2>1, FS_Subset, FS_CardinalityType
<1>2. ASSUME NEW U \in SUBSET S PROVE IsFiniteSet(U) /\ Cardinality(U) \in Nat
  BY <1>1, <1>2, FS_Subset, FS_CardinalityType
<1>3. \A i \in S : i \in 0 .. b /\ i \in Nat
  OBVIOUS
<1>4. S # {}
  <2>1. k # 0 /\ 1 <= Cardinality(S)
    BY <1>1
  <2> QED BY <2>1, FS_EmptySet
<1>5. T # {}
  <2>1. PICK m \in S : \A n \in S : n <= m
    BY <1>4, HasGreatest
  <2>2. Upto(m) = S
    BY <2>1
  <2>3. m \in T
    <3> HIDE DEF Upto
    <3> QED BY <2>2, <1>1
  <2> QED BY <2>3
<1>6. PICK m \in T : \A n \in T : m <= n
  <2>1. T \in SUBSET (0 .. b)
    OBVIOUS
  <2> HIDE DEF T
  <2> QED BY <1>5, <2>1, HasLeast
<1>7. m \in S /\ m \in Nat /\ k <= Cardinality(Upto(m))
  BY <1>3
<1> DEFINE L == Upto(m) \ {m}
<1>8. L = {j \in S : j < m} /\ m \in Upto(m) /\ Upto(m) \in SUBSET S
  <2>1. \A j \in S : (j <= m /\ j # m) <=> j < m
    BY <1>3, <1>7
  <2>2. m <= m
    BY <1>7
  <2> QED BY <2>1, <2>2, <1>7
<1>9. /\ Cardinality(L) \in Nat /\ Cardinality(Upto(m)) \in Nat
      /\ Cardinality(L) = Cardinality(Upto(m)) - 1
  <2> HIDE DEF Upto
  <2>1. IsFiniteSet(Upto(m)) /\ Cardinality(Upto(m)) \in Nat
    BY <1>2, <1>8
  <2>2. L \in SUBSET S
    BY <1>8
  <2>3. Cardinality(L) \in Nat
    BY <1>2, <2>2
  <2>4. Cardinality(L) = Cardinality(Upto(m)) - 1
    BY <1>8, <2>1, FS_RemoveElement
  <2> QED BY <2>1, <2>3, <2>4
<1>10. Cardinality(L) < k
  <2>1. CASE L = {}
    <3>1. Cardinality(L) = 0
      BY <2>1, FS_EmptySet
    <3> HIDE DEF L
    <3> QED BY <3>1
  <2>2. CASE L # {}
    <3>1. L \in SUBSET (0 .. b)
      BY <1>8
    <3>2. PICK p \in L : \A n \in L : n <= p
      <4> HIDE DEF L
      <4> QED BY <2>2, <3>1, HasGreatest
    <3>3. p \in S /\ p < m
      BY <1>8
    <3>4. Upto(p) = L
      <4>1. \A j \in S : j < m => j <= p
        BY <1>8, <3>2
      <4>2. \A j \in S : j <= p => j < m
        BY <1>3, <1>7, <3>3
      <4> QED BY <1>8, <4>1, <4>2
    <3>5. p \notin T
      BY <1>3, <1>6, <1>7, <3>3
    <3>6. ~(k <= Cardinality(Upto(p)))
      BY <3>3, <3>5
    <3> HIDE DEF L, Upto
    <3> QED BY <1>9, <3>4, <3>6
  <2> QED BY <2>1, <2>2
<1>11. Cardinality(Upto(m)) = k
  <2> HIDE DEF Upto, L
  <2> QED BY <1>7, <1>9, <1>10
<1> QED BY <1>7, <1>11

=============================================================================

---------------------------- MODULE FiniteNats -----------------------------
(***************************************************************************)
(* Facts about sets of natural numbers that the proofs about the model     *)
(* rest on: a least element, a greatest one, a sorted sequence of them     *)
(* all, and induction over an interval stated with a set, which the        *)
(* provers can instantiate.                                                *)
(***************************************************************************)
EXTENDS Integers, FiniteSets, FiniteSetTheorems, FunctionTheorems, SequenceTheorems,
        WellFoundedInduction, TLAPS

(***************************************************************************)
(* A set of natural numbers that is not empty has a least element.         *)
(***************************************************************************)
LEMMA LeastNat ==
    ASSUME NEW T \in SUBSET Nat, T # {}
    PROVE  \E x \in T : \A y \in T : x <= y
<1> DEFINE R == OpToRel(<, Nat)
<1>1. IsWellFoundedOn(R, Nat)
  BY NatLessThanWellFounded
<1>2. \A x, y \in Nat : y < x => <<y, x>> \in R
  BY DEF OpToRel
<1> HIDE DEF R
<1>3. \E x \in T : \A y \in T : ~ (<<y, x>> \in R)
  BY <1>1, WFMin
<1>4. PICK x \in T : \A y \in T : ~ (y < x)
  BY <1>2, <1>3
<1>5. \A y \in T : x <= y
  BY <1>4
<1> QED BY <1>5

(***************************************************************************)
(* A set that contains 0 and, with each number below K, the next one,      *)
(* contains all of 0..K.                                                   *)
(***************************************************************************)
LEMMA IntervalInduction ==
    ASSUME NEW K \in Nat, NEW S, 0 \in S,
           \A k \in 0..K : k < K /\ k \in S => k + 1 \in S
    PROVE  0..K \subseteq S
<1> SUFFICES ASSUME (0..K) \ S # {} PROVE FALSE
  OBVIOUS
<1> DEFINE Missing == (0..K) \ S
<1>1. Missing \in SUBSET Nat /\ Missing # {}
  OBVIOUS
<1> HIDE DEF Missing
<1>2. PICK x \in Missing : \A y \in Missing : x <= y
  BY <1>1, LeastNat
<1> USE DEF Missing
<1>3. x # 0 /\ x - 1 \in 0..K /\ x - 1 \in S
  BY <1>2
<1> QED BY <1>2, <1>3

(***************************************************************************)
(* A finite set of natural numbers that is not empty has a greatest        *)
(* element: otherwise one with the fewest elements would have none, but    *)
(* one element fewer gives it one.                                         *)
(***************************************************************************)
LEMMA FiniteBounded ==
    ASSUME NEW T \in SUBSET Nat, IsFiniteSet(T)
    PROVE  \E b \in Nat : \A y \in T : y <= b
<1> DEFINE Bounded(U) == \E b \in Nat : \A y \in U : y <= b
           Sizes == {c \in Nat : \E U \in SUBSET Nat :
                        IsFiniteSet(U) /\ Cardinality(U) = c /\ ~Bounded(U)}
<1> SUFFICES ASSUME ~Bounded(T) PROVE FALSE
  OBVIOUS
<1>1. Sizes # {}
  BY FS_CardinalityType
<1>2. PICK c \in Sizes : \A d \in Sizes : c <= d
  BY <1>1, LeastNat
<1>3. PICK U \in SUBSET Nat : IsFiniteSet(U) /\ Cardinality(U) = c /\ ~Bounded(U)
  BY <1>2
<1>4. U # {}
  BY <1>3
<1>5. PICK x \in U : TRUE
  BY <1>4
<1>6. IsFiniteSet(U \ {x}) /\ Cardinality(U \ {x}) = c - 1
  BY <1>3, <1>5, FS_RemoveElement
<1>7. c - 1 \in Nat
  BY <1>6, FS_CardinalityType
<1>8. Bounded(U \ {x})
  BY <1>2, <1>6, <1>7
<1>9. PICK b \in Nat : \A y \in U \ {x} : y <= b
  BY <1>8
<1>10. \A y \in U : y <= b + x
  BY <1>5, <1>9
<1> QED BY <1>3, <1>5, <1>9, <1>10

LEMMA GreatestNat ==
    ASSUME NEW T \in SUBSET Nat, IsFiniteSet(T), T # {}
    PROVE  \E x \in T : \A y \in T : y <= x
<1> DEFINE Bounds == {b \in Nat : \A y \in T : y <= b}
<1>1. Bounds # {}
  BY FiniteBounded
<1>2. PICK b \in Bounds : \A c \in Bounds : b <= c
  BY <1>1, LeastNat
<1>3. b \in T
  <2> SUFFICES ASSUME b \notin T PROVE FALSE
    OBVIOUS
  <2>1. \A y \in T : y <= b - 1
    BY <1>2
  <2>2. b - 1 \in Bounds
    <3>1. PICK y \in T : y <= b - 1
      BY <2>1
    <3> QED BY <2>1, <3>1
  <2> QED BY <1>2, <2>2
<1> QED BY <1>2, <1>3

---------------------------------------------------------------------------
(* Sorting. *)

Increasing(s, K) == \A j, k \in 1..K : j < k => s[j] < s[k]

(***************************************************************************)
(* A finite set of numbers can be sorted: if a set with the fewest         *)
(* elements could not, it could when its greatest one is put last.         *)
(***************************************************************************)
LEMMA Sortable ==
    ASSUME NEW S \in SUBSET Nat, IsFiniteSet(S)
    PROVE  \E s \in [1..Cardinality(S) -> S] : Increasing(s, Cardinality(S))
<1> DEFINE CanSort(U) == \E s \in [1..Cardinality(U) -> U] : Increasing(s, Cardinality(U))
           Sizes == {c \in Nat : \E U \in SUBSET Nat :
                        IsFiniteSet(U) /\ Cardinality(U) = c /\ ~CanSort(U)}
<1> SUFFICES ASSUME ~CanSort(S) PROVE FALSE
  OBVIOUS
<1>1. Sizes # {}
  BY FS_CardinalityType
<1>2. PICK c \in Sizes : \A d \in Sizes : c <= d
  BY <1>1, LeastNat
<1>3. PICK U \in SUBSET Nat : IsFiniteSet(U) /\ Cardinality(U) = c /\ ~CanSort(U)
  BY <1>2
<1>4. U # {}
  <2> SUFFICES ASSUME U = {} PROVE FALSE
    OBVIOUS
  <2>1. Cardinality(U) = 0
    BY FS_EmptySet
  <2>2. 1..0 = {}
    OBVIOUS
  <2>3. [x \in {} |-> x] \in [1..0 -> U] /\ Increasing([x \in {} |-> x], 0)
    BY <2>2 DEF Increasing
  <2> QED BY <1>3, <2>1, <2>3
<1>5. PICK x \in U : \A y \in U : y <= x
  BY <1>3, <1>4, GreatestNat
<1> DEFINE V == U \ {x}
<1>6. IsFiniteSet(V) /\ Cardinality(V) = c - 1 /\ c - 1 \in Nat /\ V \in SUBSET Nat
  <2>1. IsFiniteSet(V) /\ Cardinality(V) = c - 1
    BY <1>3, <1>5, FS_RemoveElement
  <2>2. Cardinality(V) \in Nat
    BY <2>1, FS_CardinalityType
  <2> QED BY <2>1, <2>2
<1>7. CanSort(V)
  <2> SUFFICES ASSUME ~CanSort(V) PROVE FALSE
    OBVIOUS
  <2> HIDE DEF CanSort, V
  <2>1. c - 1 \in Sizes
    BY <1>6
  <2> QED BY <1>2, <1>6, <2>1
<1>8. PICK s \in [1..(c - 1) -> V] : Increasing(s, c - 1)
  BY <1>6, <1>7
<1> DEFINE t == [k \in 1..c |-> IF k = c THEN x ELSE s[k]]
<1>9. \A k \in 1..c : k # c => k \in 1..(c - 1) /\ s[k] \in V /\ t[k] = s[k]
  BY <1>6, <1>8
<1>10. c \in 1..c /\ t[c] = x
  BY <1>6
<1>11. t \in [1..c -> U]
  BY <1>5, <1>9
<1> HIDE DEF t
<1>12. Increasing(t, c)
  <2> SUFFICES ASSUME NEW j \in 1..c, NEW k \in 1..c, j < k PROVE t[j] < t[k]
    BY DEF Increasing
  <2>1. j # c /\ s[j] \in V /\ t[j] = s[j] /\ j \in 1..(c - 1)
    BY <1>6, <1>9
  <2>2. CASE k = c
    <3>1. s[j] \in Nat /\ x \in Nat /\ s[j] # x /\ s[j] <= x
      BY <1>3, <1>5, <2>1
    <3> QED BY <1>10, <2>1, <2>2, <3>1
  <2>3. CASE k # c
    BY <1>8, <1>9, <2>1, <2>3 DEF Increasing
  <2> QED BY <2>2, <2>3
<1> QED BY <1>3, <1>11, <1>12

LEMMA IncreasingIsOnto ==
    ASSUME NEW S \in SUBSET Nat, IsFiniteSet(S),
           NEW s \in [1..Cardinality(S) -> S], Increasing(s, Cardinality(S))
    PROVE  \A x \in S : \E k \in 1..Cardinality(S) : s[k] = x
<1> DEFINE K == Cardinality(S)
<1>1. K \in Nat /\ IsFiniteSet(1..K) /\ Cardinality(1..K) = K
  BY FS_CardinalityType, FS_Interval
<1> HIDE DEF K
<1>2. s \in [1..K -> S] /\ Increasing(s, K)
  BY DEF K
<1>3. \A j, k \in 1..K : s[j] = s[k] => j = k
  <2> SUFFICES ASSUME NEW j \in 1..K, NEW k \in 1..K, j < k PROVE s[j] # s[k]
    BY <1>1
  <2>1. s[j] < s[k] /\ s[j] \in Nat /\ s[k] \in Nat
    BY <1>2 DEF Increasing
  <2> QED BY <2>1
<1>4. s \in Injection(1..K, S)
  BY <1>2, <1>3 DEF Injection, IsInjective
<1>5. s \in Surjection(1..K, S)
  BY <1>1, <1>4, FS_Injection DEF K
<1> QED BY <1>5 DEF Surjection, K

LEMMA FunctionIsSeq ==
    ASSUME NEW S, NEW K \in Nat, NEW s \in [1..K -> S]
    PROVE  s \in Seq(S) /\ Len(s) = K /\ DOMAIN s = 1..K
<1>1. s \in Seq(S)
  BY SeqDef
<1> QED BY <1>1, LenProperties
=============================================================================

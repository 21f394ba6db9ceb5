---------------------------- MODULE NaturalFacts ----------------------------
(***************************************************************************)
(* What the proofs need to know of sets of natural numbers: they have a    *)
(* least element, a set that holds 0 and with each number the next one     *)
(* holds all (both said of a set, not of a predicate), and the n elements  *)
(* of a finite set are the first, the second, ... and the n-th of it.      *)
(***************************************************************************)
EXTENDS Integers, FiniteSets, FiniteSetTheorems, FunctionTheorems, WellFoundedInduction, TLAPS

\* A set of natural numbers that is not empty has a least element.
LEMMA LeastNat ==
    ASSUME NEW T \in SUBSET Nat, T # {}
    PROVE  \E m \in T : \A n \in T : m <= n
<1> DEFINE R == {ss \in Nat \X Nat : ss[1] < ss[2]}
<1>1. IsWellFoundedOn(R, Nat)
    BY NatLessThanWellFounded DEF OpToRel
<1> HIDE DEF R
<1>2. PICK x \in T : \A y \in T : ~(<<y, x>> \in R)
    BY <1>1, WFMin
<1>3. ASSUME NEW y \in T, y < x
      PROVE  <<y, x>> \in R
    <2>1. <<y, x>> \in Nat \X Nat
        OBVIOUS
    <2>2. <<y, x>>[1] = y /\ <<y, x>>[2] = x
        OBVIOUS
    <2> QED
        BY <1>3, <2>1, <2>2 DEF R
<1>4. \A y \in T : ~(y < x)
    BY <1>2, <1>3
<1> QED
    BY <1>4

\* A set that holds 0 and with every number the next one holds every number.
LEMMA AllNat ==
    ASSUME NEW T \in SUBSET Nat, 0 \in T, \A n \in T : n + 1 \in T
    PROVE  T = Nat
<1> SUFFICES ASSUME Nat \ T # {}
             PROVE  FALSE
    OBVIOUS
<1>1. PICK m \in Nat \ T : \A n \in Nat \ T : m <= n
    <2>1. Nat \ T \in SUBSET Nat
        OBVIOUS
    <2> QED
        BY <2>1, LeastNat
<1>2. m - 1 \in T
    <2>1. m # 0
        BY <1>1
    <2>2. m - 1 \in Nat /\ m - 1 < m
        BY <1>1, <2>1
    <2> QED
        BY <1>1, <2>2
<1>3. m = (m - 1) + 1
    BY <1>1
<1> QED
    BY <1>1, <1>2, <1>3

\* The elements of S up to m; their number says which element of S m is.
UpTo(S, m) == {k \in S : k <= m}

LEMMA CountRange ==
    ASSUME NEW S \in SUBSET Nat, IsFiniteSet(S), NEW m \in S
    PROVE  Cardinality(UpTo(S, m)) \in 1..Cardinality(S)
<1>1. UpTo(S, m) \in SUBSET S /\ m \in UpTo(S, m)
    BY DEF UpTo
<1>2. IsFiniteSet(UpTo(S, m)) /\ Cardinality(UpTo(S, m)) <= Cardinality(S)
    BY <1>1, FS_Subset
<1>3. Cardinality(UpTo(S, m)) \in Nat /\ Cardinality(S) \in Nat /\ Cardinality(UpTo(S, m)) # 0
    BY <1>1, <1>2, FS_CardinalityType, FS_EmptySet
<1> QED
    BY <1>2, <1>3

LEMMA CountGrows ==
    ASSUME NEW S \in SUBSET Nat, IsFiniteSet(S), NEW m \in S, NEW n \in S, m < n
    PROVE  Cardinality(UpTo(S, m)) < Cardinality(UpTo(S, n))
<1>1. UpTo(S, m) \in SUBSET UpTo(S, n) /\ UpTo(S, n) \in SUBSET S
    <2>1. m \in Nat /\ n \in Nat /\ \A k \in S : k \in Nat
        OBVIOUS
    <2>2. \A k \in S : k <= m => k <= n
        BY <2>1
    <2> QED
        BY <2>2 DEF UpTo
<1>2. n \in UpTo(S, n) /\ n \notin UpTo(S, m)
    BY DEF UpTo
<1>3. IsFiniteSet(UpTo(S, n))
    BY <1>1, FS_Subset
<1>4. /\ Cardinality(UpTo(S, m)) <= Cardinality(UpTo(S, n)) /\ IsFiniteSet(UpTo(S, m))
      /\ Cardinality(UpTo(S, n)) = Cardinality(UpTo(S, m)) => UpTo(S, n) = UpTo(S, m)
    BY <1>1, <1>3, FS_Subset
<1>5. Cardinality(UpTo(S, m)) \in Nat /\ Cardinality(UpTo(S, n)) \in Nat
    BY <1>3, <1>4, FS_CardinalityType
<1> QED
    BY <1>2, <1>4, <1>5

LEMMA CountOnce ==
    ASSUME NEW S \in SUBSET Nat, IsFiniteSet(S), NEW m \in S, NEW n \in S,
           Cardinality(UpTo(S, m)) = Cardinality(UpTo(S, n))
    PROVE  m = n
<1>1. m \in Nat /\ n \in Nat
    OBVIOUS
<1>2. Cardinality(UpTo(S, m)) \in Int
    <2>1. Cardinality(UpTo(S, m)) \in 1..Cardinality(S)
        BY CountRange
    <2> QED
        BY <2>1
<1>3. ~(m < n) /\ ~(n < m)
    BY <1>2, CountGrows
<1> QED
    BY <1>1, <1>3

LEMMA CountOnto ==
    ASSUME NEW S \in SUBSET Nat, IsFiniteSet(S), NEW n \in 1..Cardinality(S)
    PROVE  \E m \in S : Cardinality(UpTo(S, m)) = n
<1> DEFINE T == 1..Cardinality(S)
           F == [m \in S |-> Cardinality(UpTo(S, m))]
<1>1. Cardinality(S) \in Nat
    BY FS_CardinalityType
<1>2. F \in [S -> T]
    BY CountRange
<1>3. \A a, b \in S : F[a] = F[b] => a = b
    BY CountOnce
<1>4. F \in Injection(S, T)
    BY <1>2, <1>3, Fun_IsInj
<1>5. IsFiniteSet(T) /\ Cardinality(T) = Cardinality(S)
    <2>1. /\ IsFiniteSet(T)
          /\ Cardinality(T) = IF 1 > Cardinality(S) THEN 0 ELSE Cardinality(S) - 1 + 1
        BY <1>1, FS_Interval
    <2> QED
        BY <1>1, <2>1
<1>6. F \in Surjection(S, T)
    <2> HIDE DEF F, T
    <2> QED
        BY <1>4, <1>5, FS_Injection
<1>7. \A t \in T : \E m \in S : F[m] = t
    <2> HIDE DEF F, T
    <2> QED
        BY <1>6, Fun_SurjectionProperties
<1> QED
    BY <1>7
=============================================================================

------------------------------- MODULE Counting -------------------------------
(* Facts about numbers, finite sets, their cardinalities and their orders that   *)
(* the proofs of the components share. Where one would expect an induction, a    *)
(* minimal counterexample is taken.                                              *)
EXTENDS Integers, FiniteSets, FiniteSetTheorems, TLAPS

\* A nonempty collection of subsets of a finite set has a minimal one.
LEMMA LeastSet ==
    ASSUME NEW S, IsFiniteSet(S), NEW T \in SUBSET (SUBSET S), T # {}
    PROVE  \E x \in T : \A y \in T : y \subseteq x => y = x
<1>1. IsWellFoundedOn(StrictSubsetOrdering(S), FiniteSubsetsOf(S))
  BY FS_StrictSubsetOrderingWellFounded
<1>2. FiniteSubsetsOf(S) = SUBSET S
  BY FS_FiniteSubsetsOfFinite
<1>3. PICK x \in T : \A y \in T : ~ (<<y, x>> \in StrictSubsetOrdering(S))
  BY <1>1, <1>2, WFMin
<1>. QED
  BY <1>3 DEF StrictSubsetOrdering

\* A nonempty set of natural numbers has a least one.
LEMMA LeastNat ==
    ASSUME NEW T \in SUBSET Nat, T # {}
    PROVE  \E x \in T : \A y \in T : x <= y
<1>1. PICK n \in T : TRUE
  OBVIOUS
<1>. DEFINE Low == {x \in T : x <= n}
            Inits == {1..x : x \in Low}
            N == 1..n
<1>2. IsFiniteSet(N)
  BY FS_Interval
<1>3. Inits \in SUBSET (SUBSET N) /\ Inits # {}
  BY <1>1
<1>. HIDE DEF Inits, N
<1>4. PICK X \in Inits : \A Y \in Inits : Y \subseteq X => Y = X
  BY <1>2, <1>3, LeastSet
<1>5. PICK x \in Low : X = 1..x
  BY <1>4 DEF Inits
<1>6. ASSUME NEW y \in T, y < x
      PROVE  FALSE
  <2>1. y \in Low
    BY <1>6, <1>5
  <2>2. 1..y \in Inits
    BY <2>1 DEF Inits
  <2>3. 1..y \subseteq X
    BY <1>5, <1>6
  <2>4. 1..y = X
    BY <2>2, <2>3, <1>4
  <2>5. x \in X /\ x \notin 1..y
    BY <1>5, <1>6
  <2>. QED
    BY <2>4, <2>5
<1>. QED
  BY <1>5, <1>6

\* Two disjoint parts of a set have as many elements as the whole.
LEMMA CountParts ==
    ASSUME NEW S, IsFiniteSet(S), NEW A, NEW B, S = A \cup B, A \cap B = {}
    PROVE  /\ IsFiniteSet(A) /\ IsFiniteSet(B)
           /\ Cardinality(A) \in Nat /\ Cardinality(B) \in Nat
           /\ Cardinality(S) = Cardinality(A) + Cardinality(B)
<1>1. IsFiniteSet(A) /\ IsFiniteSet(B)
  BY FS_Subset
<1>2. Cardinality(A) \in Nat /\ Cardinality(B) \in Nat
  BY <1>1, FS_CardinalityType
<1>3. Cardinality(A \cup B) = Cardinality(A) + Cardinality(B) - Cardinality(A \cap B)
  BY <1>1, FS_Union
<1>4. Cardinality(A \cap B) = 0
  BY FS_EmptySet
<1>. QED
  BY <1>1, <1>2, <1>3, <1>4

\* As many things as have different numbers from 1 to n are at most n.
LEMMA CountNumbered ==
    ASSUME NEW T, NEW n \in Nat, NEW f \in [T -> 1..n], \A x, y \in T : f[x] = f[y] => x = y
    PROVE  IsFiniteSet(T) /\ Cardinality(T) \in Nat /\ Cardinality(T) <= n
<1>. DEFINE N == 1..n
<1>1. IsFiniteSet(N) /\ Cardinality(N) = n
  BY FS_Interval
<1>2. f \in Injection(T, N)
  BY DEF Injection, IsInjective
<1>. HIDE DEF N
<1>3. IsFiniteSet(T) /\ Cardinality(T) <= Cardinality(N)
  BY <1>1, <1>2, FS_Injection
<1>. QED
  BY <1>1, <1>3, FS_CardinalityType

\* A division that is rounded up.
LEMMA RoundedUp ==
    ASSUME NEW n \in Nat, NEW l \in Nat \ {0}
    PROVE  (n + l - 1) \div l \in Nat /\ ((n + l - 1) \div l) * l >= n
<1>. DEFINE m == n + l - 1
            k == m \div l
            r == m % l
<1>1. m \in Nat
  OBVIOUS
<1>. HIDE DEF m
<1>2. k \in Nat /\ r \in 0..(l - 1) /\ m = l * k + r
  BY <1>1
<1>. HIDE DEF k, r
<1>3. k * l >= n
  BY <1>2 DEF m
<1>. QED
  BY <1>2, <1>3 DEF k, m

-------------------------------------------------------------------------------
\* R puts the elements of S in a row.
TotalOrder(R, S) ==
    /\ \A j \in S : <<j, j>> \notin R
    /\ \A i, j \in S : i = j \/ <<i, j>> \in R \/ <<j, i>> \in R
    /\ \A i, j, k \in S : <<i, j>> \in R /\ <<j, k>> \in R => <<i, k>> \in R

Before(R, S, j) == {k \in S : <<k, j>> \in R}

\* Who comes later has more before it.
LEMMA BeforeGrows ==
    ASSUME NEW S, IsFiniteSet(S), NEW R, TotalOrder(R, S), NEW i \in S, NEW j \in S, <<i, j>> \in R
    PROVE  /\ Before(R, S, i) \subseteq Before(R, S, j)
           /\ Cardinality(Before(R, S, i)) < Cardinality(Before(R, S, j))
<1>. DEFINE A == Before(R, S, i)
            B == Before(R, S, j)
<1>1. A \subseteq B /\ i \in B /\ i \notin A
  BY DEF TotalOrder, Before
<1>2. B \subseteq S
  BY DEF Before
<1>. HIDE DEF A, B
<1>3. IsFiniteSet(B)
  BY <1>2, FS_Subset
<1>4. IsFiniteSet(A) /\ Cardinality(A) <= Cardinality(B) /\ Cardinality(A) # Cardinality(B)
  BY <1>1, <1>3, FS_Subset
<1>5. Cardinality(A) \in Nat /\ Cardinality(B) \in Nat
  BY <1>3, <1>4, FS_CardinalityType
<1>6. A \subseteq B /\ Cardinality(A) < Cardinality(B)
  BY <1>1, <1>4, <1>5
<1>. QED
  BY <1>6 DEF A, B

\* The number of elements before one is a natural number.
LEMMA BeforeType ==
    ASSUME NEW S, IsFiniteSet(S), NEW R, NEW j
    PROVE  Cardinality(Before(R, S, j)) \in Nat
<1>1. Before(R, S, j) \subseteq S
  BY DEF Before
<1>. QED
  BY <1>1, FS_Subset, FS_CardinalityType

\* Some of S, if there are any, have a first.
LEMMA FirstOf ==
    ASSUME NEW S, IsFiniteSet(S), NEW R, TotalOrder(R, S), NEW T \in SUBSET S, T # {}
    PROVE  \E x \in T : \A y \in T : y = x \/ <<x, y>> \in R
<1>. DEFINE c(j) == Cardinality(Before(R, S, j))
            C == {c(j) : j \in T}
<1>1. C \in SUBSET Nat /\ C # {}
  BY BeforeType
<1>. HIDE DEF C
<1>2. PICK n \in C : \A m \in C : n <= m
  BY <1>1, LeastNat
<1>3. PICK x \in T : n = c(x)
  BY <1>2 DEF C
<1>4. ASSUME NEW y \in T, <<y, x>> \in R
      PROVE  FALSE
  <2>1. c(y) \in C
    BY DEF C
  <2>2. c(y) < c(x) /\ c(x) \in Nat /\ c(y) \in Nat
    BY <1>4, BeforeGrows, BeforeType
  <2>. QED
    BY <1>2, <1>3, <2>1, <2>2
<1>. QED
  BY <1>3, <1>4 DEF TotalOrder

\* The elements with fewer than n before them: at most n, and exactly n unless they are all.
LEMMA FirstN ==
    ASSUME NEW S, IsFiniteSet(S), NEW R, TotalOrder(R, S), NEW n \in Nat, NEW F,
           F = {j \in S : Cardinality(Before(R, S, j)) < n}
    PROVE  IsFiniteSet(F) /\ Cardinality(F) <= n /\ (Cardinality(F) = n \/ F = S)
<1>. DEFINE c(j) == Cardinality(Before(R, S, j))
            f == [j \in F |-> c(j) + 1]
<1>1. \A j \in S : c(j) \in Nat
  BY BeforeType
<1>2. \A i, j \in S : c(i) = c(j) => i = j
  <2>. SUFFICES ASSUME NEW i \in S, NEW j \in S, i # j PROVE c(i) # c(j)
    OBVIOUS
  <2>1. c(i) < c(j) \/ c(j) < c(i)
    BY BeforeGrows DEF TotalOrder
  <2>. QED
    BY <1>1, <2>1
<1>3. \A j \in F : j \in S /\ c(j) \in Nat /\ c(j) < n
  BY <1>1
<1>. HIDE DEF c
<1>4. f \in [F -> 1..n]
  BY <1>3
<1>5. \A i, j \in F : f[i] = f[j] => i = j
  BY <1>2, <1>3
<1>. HIDE DEF f
<1>6. IsFiniteSet(F) /\ Cardinality(F) \in Nat /\ Cardinality(F) <= n
  BY <1>4, <1>5, CountNumbered
<1>7. ASSUME F # S
      PROVE  Cardinality(F) >= n
  <2>. DEFINE rest == S \ F
  <2>1. rest # {} /\ rest \in SUBSET S
    BY <1>3, <1>7
  <2>. HIDE DEF rest
  <2>2. PICK x \in rest : \A y \in rest : y = x \/ <<x, y>> \in R
    BY <2>1, FirstOf
  <2>. USE DEF rest
  <2>3. Before(R, S, x) \subseteq F
    BY <2>2 DEF Before, TotalOrder
  <2>4. Cardinality(Before(R, S, x)) <= Cardinality(F)
    BY <1>6, <2>3, FS_Subset
  <2>5. c(x) >= n
    BY <1>1, <2>2 DEF c
  <2>6. c(x) = Cardinality(Before(R, S, x)) /\ c(x) \in Nat
    BY <1>1, <2>2 DEF c
  <2>. QED
    BY <1>6, <2>4, <2>5, <2>6
<1>. QED
  BY <1>6, <1>7
===============================================================================

--------------------------- MODULE FiniteNumbers ---------------------------
(***************************************************************************)
(* Numbers and finite sets: the library states induction for a parameter   *)
(* that is an operator, these lemmas state it for a set.  The proofs that  *)
(* pick the next item of a list or count one cite them.                    *)
(***************************************************************************)
EXTENDS Integers, FiniteSets, FiniteSetTheorems, TLAPS

\* A set of numbers that is not empty has a least one.
LEMMA Least ==
    ASSUME NEW S, S \subseteq Nat, S # {}
    PROVE  \E i \in S : \A j \in S : i <= j
<1> DEFINE Below(i) == {j \in S : j <= i}
           Family   == {Below(i) : i \in S}
<1>1. Family \subseteq FiniteSubsetsOf(Nat) /\ Family # {}
  <2> SUFFICES ASSUME NEW i \in S PROVE Below(i) \in FiniteSubsetsOf(Nat)
    OBVIOUS
  <2>1. \A j \in Below(i) : j \in Nat /\ j \in 0 .. i
    <3> SUFFICES ASSUME NEW j \in Below(i) PROVE j \in Nat /\ j \in 0 .. i
      OBVIOUS
    <3>1. i \in Nat /\ j \in Nat /\ j <= i
      OBVIOUS
    <3>2. QED
      BY <3>1
  <2>2. IsFiniteSet(0 .. i)
    BY FS_Interval
  <2>3. QED
    BY <2>1, <2>2, FS_Subset DEF FiniteSubsetsOf
<1>2. PICK B \in Family : \A C \in Family : <<C, B>> \notin StrictSubsetOrdering(Nat)
  <2> HIDE DEF Family
  <2>1. QED
    BY <1>1, WFMin, FS_StrictSubsetOrderingWellFounded
<1>3. PICK i \in S : B = Below(i)
  OBVIOUS
<1>4. ASSUME NEW j \in S, j < i PROVE FALSE
  <2>1. Below(j) \subseteq Below(i) /\ i \in Below(i) /\ i \notin Below(j)
    <3>1. i \in Nat /\ j \in Nat /\ \A k \in S : k \in Nat
      OBVIOUS
    <3>2. i \in Below(i) /\ i \notin Below(j)
      BY <1>4, <3>1
    <3>3. \A k \in S : k <= j => k <= i
      BY <1>4, <3>1
    <3>4. QED
      BY <3>2, <3>3
  <2>2. Below(i) \subseteq Nat
    OBVIOUS
  <2>3. <<Below(j), Below(i)>> \in StrictSubsetOrdering(Nat)
    BY <2>1, <2>2 DEF StrictSubsetOrdering
  <2>4. Below(j) \in Family
    OBVIOUS
  <2>5. QED
    BY <1>2, <1>3, <2>3, <2>4
<1>5. \A j \in S : i <= j
  BY <1>4
<1>6. QED
  BY <1>5

\* What holds of 0 and passes from each number to the next holds of all.
LEMMA Counting ==
    ASSUME NEW P, 0 \in P, \A n \in Nat : n \in P => n + 1 \in P
    PROVE  Nat \subseteq P
<1> DEFINE Rest == Nat \ P
<1>1. SUFFICES ASSUME Rest # {} PROVE FALSE
  OBVIOUS
<1>2. Rest \subseteq Nat
  OBVIOUS
<1>3. PICK i \in Rest : \A j \in Rest : i <= j
  <2> HIDE DEF Rest
  <2>1. QED
    BY <1>1, <1>2, Least
<1>4. i \in Nat /\ i # 0 /\ i \notin P
  OBVIOUS
<1>5. PICK j \in Nat : i = j + 1
  <2>1. i - 1 \in Nat /\ i = (i - 1) + 1
    BY <1>4
  <2>2. QED
    BY <2>1
<1>6. j \in P
  BY <1>3, <1>4, <1>5
<1>7. QED
  BY <1>4, <1>5, <1>6

\* One of finitely many values is the largest.
LEMMA Greatest ==
    ASSUME NEW A, IsFiniteSet(A), A # {}, NEW f \in [A -> Nat]
    PROVE  \E m \in A : \A n \in A : f[n] <= f[m]
<1> DEFINE Above(m) == {n \in A : f[n] >= f[m]}
           Family   == {Above(m) : m \in A}
<1>1. Family \subseteq FiniteSubsetsOf(A) /\ Family # {}
  <2>1. ASSUME NEW m \in A PROVE Above(m) \in FiniteSubsetsOf(A)
    <3>1. Above(m) \in SUBSET A
      OBVIOUS
    <3>2. QED
      BY <3>1, FS_Subset DEF FiniteSubsetsOf
  <2>2. Family \subseteq FiniteSubsetsOf(A)
    BY <2>1
  <2>3. PICK m \in A : TRUE
    OBVIOUS
  <2>4. Above(m) \in Family
    OBVIOUS
  <2>5. QED
    BY <2>2, <2>4
<1>2. PICK B \in Family : \A C \in Family : <<C, B>> \notin StrictSubsetOrdering(A)
  <2> HIDE DEF Family
  <2>1. QED
    BY <1>1, WFMin, FS_StrictSubsetOrderingWellFounded
<1>3. PICK m \in A : B = Above(m)
  OBVIOUS
<1>4. ASSUME NEW n \in A, f[n] > f[m] PROVE FALSE
  <2>1. Above(n) \subseteq Above(m) /\ m \in Above(m) /\ m \notin Above(n)
    <3>1. \A o \in A : f[o] \in Nat
      OBVIOUS
    <3>2. QED
      BY <1>4, <3>1
  <2>2. Above(m) \subseteq A
    OBVIOUS
  <2>3. <<Above(n), Above(m)>> \in StrictSubsetOrdering(A)
    BY <2>1, <2>2 DEF StrictSubsetOrdering
  <2>4. Above(n) \in Family
    OBVIOUS
  <2>5. QED
    BY <1>2, <1>3, <2>3, <2>4
<1>5. \A n \in A : f[n] \in Nat
  OBVIOUS
<1>6. QED
  BY <1>4, <1>5

\* The first k numbers are k.
LEMMA IntervalCardinality == ASSUME NEW k \in Nat PROVE IsFiniteSet(1..k) /\ Cardinality(1..k) = k
<1>1. Cardinality(1..k) = IF 1 > k THEN 0 ELSE k - 1 + 1
  BY FS_Interval
<1>2. IsFiniteSet(1..k)
  BY FS_Interval
<1>3. QED
  BY <1>1, <1>2
=============================================================================

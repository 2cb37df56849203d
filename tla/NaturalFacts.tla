----------------------------- MODULE NaturalFacts -----------------------------
(***************************************************************************)
(* Induction on natural numbers without operator parameters: over sets of  *)
(* numbers; and how many elements of a finite set come first in an order.  *)
(***************************************************************************)
EXTENDS Naturals, FiniteSets, FiniteSetTheorems, WellFoundedInduction, TLAPS

\* Every set of natural numbers that is not empty has a least one.
LEMMA LeastNatural ==
    ASSUME NEW S, S \subseteq Nat, S # {}
    PROVE  \E x \in S : \A y \in S : x <= y
<1>1. PICK top \in S : TRUE
  OBVIOUS
<1> DEFINE U == {y \in S : y <= top}
           Before(x) == {y \in U : y < x}
           T == {Before(x) : x \in U}
<1>2. IsFiniteSet(U)
  BY <1>1, FS_BoundedSetOfNaturals
<1>3. T \subseteq FiniteSubsetsOf(U)
  <2>1. \A x \in U : IsFiniteSet(Before(x))
    BY <1>2, FS_Subset
  <2> QED
    BY <2>1 DEF FiniteSubsetsOf
<1>4. T # {}
  <2>1. top \in U
    BY <1>1
  <2>2. Before(top) \in T
    BY <2>1
  <2> QED
    BY <2>2
<1>5. PICK A \in T : \A B \in T : <<B, A>> \notin StrictSubsetOrdering(U)
  BY <1>3, <1>4, FS_StrictSubsetOrderingWellFounded, WFMin
<1>6. PICK x \in U : A = Before(x)
  BY <1>5
<1>7. \A y \in U : x <= y
  <2> SUFFICES ASSUME NEW y \in U, y < x
               PROVE  FALSE
    OBVIOUS
  <2>1. y \in Before(x) /\ y \notin Before(y)
    BY <1>6
  <2>2. Before(y) \subseteq Before(x)
    <3>1. ASSUME NEW z \in U, z < y
          PROVE  z < x
      <4>1. x \in Nat /\ y \in Nat /\ z \in Nat
        BY <1>6
      <4> QED
        BY <3>1, <4>1
    <3> QED
      BY <3>1
  <2>3. Before(x) \subseteq U /\ Before(y) \subseteq U
    OBVIOUS
  <2>6. Before(y) \in T
    <3> HIDE DEF Before
    <3> QED
      OBVIOUS
  <2> HIDE DEF T, U, Before
  <2>4. Before(y) \in SUBSET U /\ A \in SUBSET U /\ Before(y) # A
    BY <1>6, <2>1, <2>3, Zenon
  <2>5. <<Before(y), A>> \in StrictSubsetOrdering(U)
    BY <1>6, <2>2, <2>4 DEF StrictSubsetOrdering
  <2> QED
    BY <1>5, <2>5, <2>6
<1> QED
  BY <1>1, <1>7

\* Induction: a set that has 0 and with every number its successor has them all.
LEMMA InductiveSet ==
    ASSUME NEW S, 0 \in S, \A n \in Nat : n \in S => n + 1 \in S
    PROVE  \A n \in Nat : n \in S
<1> DEFINE Missing == Nat \ S
<1> SUFFICES ASSUME Missing # {}
             PROVE  FALSE
  OBVIOUS
<1>1. PICK n \in Missing : \A x \in Missing : n <= x
  BY LeastNatural
<1>2. n - 1 \in Nat /\ n - 1 < n
  BY <1>1
<1>3. n - 1 \in S
  BY <1>1, <1>2
<1>4. (n - 1) + 1 = n
  BY <1>2
<1> QED
  BY <1>2, <1>3, <1>4, <1>1

\* Of a finite set in an order, as many elements as one asks for have fewer than k others
\* before them.
LEMMA FirstCount ==
    ASSUME NEW M, IsFiniteSet(M), NEW f \in [M -> Nat],
           \A x, y \in M : f[x] = f[y] => x = y, NEW k \in Nat
    PROVE  Cardinality({x \in M : Cardinality({y \in M : f[y] < f[x]}) < k}) =
             IF k <= Cardinality(M) THEN k ELSE Cardinality(M)
<1> DEFINE Below(x) == {y \in M : f[y] < f[x]}
           Rank == [x \in M |-> Cardinality(Below(x))]
           First(n) == {x \in M : Rank[x] < n}
           Full(n) == Cardinality(First(n)) =
                        IF n <= Cardinality(M) THEN n ELSE Cardinality(M)
           S == {n \in Nat : Full(n)}
<1>1. Cardinality(M) \in Nat
  BY FS_CardinalityType
<1>2. \A x \in M : f[x] \in Nat
  OBVIOUS
<1>3. \A x \in M : IsFiniteSet(Below(x)) /\ Rank[x] \in Nat
  BY FS_Subset, FS_CardinalityType
<1>4. ASSUME NEW x \in M, NEW y \in M, f[x] < f[y]
      PROVE  Rank[x] < Rank[y]
  <2>1. Below(x) \cup {x} \subseteq Below(y) /\ x \notin Below(x)
    <3>1. \A w \in M : f[w] < f[x] => f[w] < f[y]
      BY <1>2, <1>4
    <3> QED
      BY <1>2, <1>4, <3>1
  <2>2. Rank[x] = Cardinality(Below(x)) /\ Rank[y] = Cardinality(Below(y))
    OBVIOUS
  <2> HIDE DEF Below, Rank
  <2>3. Cardinality(Below(x) \cup {x}) = Cardinality(Below(x)) + 1
    BY <1>3, <2>1, FS_AddElement
  <2>4. Cardinality(Below(x) \cup {x}) <= Cardinality(Below(y))
    BY <1>3, <2>1, FS_Subset
  <2> QED
    BY <1>3, <2>2, <2>3, <2>4
<1>5. \A x \in M : Rank[x] = Cardinality(Below(x))
  OBVIOUS
<1>6. \A x \in M : Rank[x] \in Nat
  BY <1>3
<1> HIDE DEF Rank
<1>7. \A n \in Nat : First(n) \subseteq M /\ IsFiniteSet(First(n))
  BY FS_Subset
<1>8. Full(0)
  <2>1. First(0) = {}
    BY <1>6
  <2> HIDE DEF First
  <2> QED
    BY <1>1, <2>1, FS_EmptySet
<1>9. ASSUME NEW n \in Nat, Full(n)
      PROVE  Full(n + 1)
  <2>1. First(n) \subseteq First(n + 1) /\ First(n + 1) \subseteq M
    BY <1>6
  <2>2. CASE First(n) = M
    <3>1. First(n + 1) = M
      BY <2>1, <2>2
    <3> HIDE DEF First
    <3> QED
      BY <1>1, <1>9, <2>2, <3>1
  <2>3. CASE First(n) # M
    <3>1. Cardinality(First(n)) = n /\ n < Cardinality(M)
      <4> HIDE DEF First
      <4>1. Cardinality(First(n)) <= Cardinality(M) /\ Cardinality(First(n)) # Cardinality(M)
        BY <1>7, <2>3, FS_Subset
      <4> QED
        BY <1>1, <1>9, <4>1
    <3>2. PICK x \in M : x \notin First(n) /\ \A y \in M : f[y] < f[x] => y \in First(n)
      <4> DEFINE V == {f[y] : y \in M \ First(n)}
      <4>1. \E y \in M \ First(n) : TRUE
        <5> HIDE DEF First
        <5> QED
          BY <1>7, <2>3
      <4> HIDE DEF First
      <4>2. V \subseteq Nat /\ V # {}
        BY <1>2, <4>1
      <4>3. PICK z \in V : \A w \in V : z <= w
        <5> HIDE DEF V
        <5> QED
          BY <4>2, LeastNatural
      <4>4. PICK x \in M \ First(n) : f[x] = z
        BY <4>3
      <4>5. \A y \in M \ First(n) : f[x] <= f[y]
        BY <4>3, <4>4
      <4> QED
        BY <1>2, <4>4, <4>5
    <3>3. Below(x) = First(n)
      <4>1. ASSUME NEW y \in M, Rank[y] < n, ~(f[y] < f[x])
            PROVE  FALSE
        <5>1. f[x] = f[y] \/ f[x] < f[y]
          BY <1>2, <4>1
        <5>2. Rank[x] <= Rank[y]
          BY <1>6, <1>4, <4>1, <5>1
        <5> QED
          BY <1>6, <3>2, <4>1, <5>2
      <4> QED
        BY <3>2, <4>1
    <3>4. Rank[x] = n
      BY <1>5, <3>1, <3>3
    <3>5. First(n + 1) = First(n) \cup {x}
      <4>1. x \in First(n + 1)
        BY <3>4
      <4>2. ASSUME NEW y \in M, Rank[y] < n + 1, ~(Rank[y] < n)
            PROVE  y = x
        <5>1. Rank[y] = Rank[x]
          BY <1>6, <3>4, <4>2
        <5>2. ~(f[x] < f[y]) /\ ~(f[y] < f[x])
          BY <1>6, <1>4, <4>2, <5>1
        <5>3. f[x] = f[y]
          BY <1>2, <4>2, <5>2
        <5> QED
          BY <4>2, <5>3
      <4> QED
        BY <2>1, <4>1, <4>2
    <3> HIDE DEF First
    <3>6. Cardinality(First(n + 1)) = n + 1
      BY <1>7, <3>1, <3>2, <3>5, FS_AddElement
    <3> QED
      BY <1>1, <3>1, <3>6
  <2> QED
    BY <2>2, <2>3
<1>10. Full(k)
  <2> HIDE DEF Full
  <2>1. 0 \in S /\ \A n \in Nat : n \in S => n + 1 \in S
    BY <1>8, <1>9
  <2>2. k \in S
    <3> HIDE DEF S
    <3> QED
      BY <2>1, InductiveSet
  <2> QED
    BY <2>2
<1>11. First(k) = {x \in M : Cardinality(Below(x)) < k}
  <2> HIDE DEF Below
  <2> QED
    BY <1>5
<1> QED
  BY <1>10, <1>11

=============================================================================

----------------------------- MODULE ListingProofs -----------------------------
(***************************************************************************)
(* What sort.Strings, a scan for the first or last element and a loop over *)
(* a list rest on: a finite set whose elements have different keys can be  *)
(* listed in the order of the keys, and what each turn of a loop preserves *)
(* holds after the last.  Used for the zones of an event, the slugs, the   *)
(* items of a packet and the edges of a polygon.                           *)
(***************************************************************************)
EXTENDS Integers, FiniteSets, FiniteSetTheorems, FunctionTheorems, TLAPS

\* The rank of an element counts the smaller keys, and no two have the same.
LEMMA ListedByKey ==
  ASSUME NEW S, IsFiniteSet(S), NEW key \in Injection(S, Nat)
  PROVE  /\ Cardinality(S) \in Nat
         /\ \E list \in [1..Cardinality(S) -> S] :
               /\ \A i, j \in 1..Cardinality(S) : i < j => key[list[i]] < key[list[j]]
               /\ \A x \in S : \E i \in 1..Cardinality(S) : list[i] = x
<1> DEFINE n == Cardinality(S)
           Below(x) == {y \in S : key[y] < key[x]}
           rank == [x \in S |-> Cardinality(Below(x)) + 1]
<1>. key \in [S -> Nat] /\ \A x, y \in S : key[x] = key[y] => x = y
  BY DEF Injection, IsInjective
<1>1. n \in Nat /\ \A T \in SUBSET S : IsFiniteSet(T) /\ Cardinality(T) \in 0..n
  <2>1. \A T \in SUBSET S : IsFiniteSet(T) /\ Cardinality(T) <= n
    BY FS_Subset
  <2> QED BY <2>1, FS_CardinalityType
<1>2. \A x \in S : rank[x] \in 1..n
  <2> TAKE x \in S
  <2>1. Below(x) \in SUBSET (S \ {x}) /\ IsFiniteSet(S \ {x}) /\ Cardinality(S \ {x}) = n - 1
    BY FS_RemoveElement
  <2>2. Cardinality(Below(x)) <= n - 1 /\ Cardinality(Below(x)) \in Nat
    BY <2>1, <1>1, FS_Subset
  <2> QED BY <2>2, <1>1
<1>3. \A x, y \in S : key[x] < key[y] => rank[x] < rank[y]
  <2> SUFFICES ASSUME NEW x \in S, NEW y \in S, key[x] < key[y] PROVE rank[x] < rank[y]
    OBVIOUS
  <2>1. Below(x) \in SUBSET Below(y) /\ x \in Below(y) /\ x \notin Below(x)
    <3>1. \A z \in S : key[z] \in Nat /\ (key[z] < key[x] => key[z] < key[y])
      BY key[x] \in Nat, key[y] \in Nat
    <3>2. ~ (key[x] < key[x])
      BY key[x] \in Nat
    <3> QED BY <3>1, <3>2, Zenon
  <2>2. IsFiniteSet(Below(y))
    BY <1>1
  <2>3. Cardinality(Below(x)) <= Cardinality(Below(y))
        /\ Cardinality(Below(x)) # Cardinality(Below(y))
    BY <2>1, <2>2, FS_Subset
  <2> QED BY <1>1, <2>3
<1>4. rank \in Injection(S, 1..n)
  <2>1. \A x, y \in S : rank[x] = rank[y] => x = y
    <3> SUFFICES ASSUME NEW x \in S, NEW y \in S, rank[x] = rank[y] PROVE x = y
      OBVIOUS
    <3>1. rank[x] \in Int /\ rank[y] \in Int
      BY <1>1, <1>2
    <3>2. ~ (key[x] < key[y]) /\ ~ (key[y] < key[x])
      <4>. HIDE DEF rank
      <4> QED BY <1>3, <3>1
    <3>3. key[x] \in Nat /\ key[y] \in Nat
      OBVIOUS
    <3> QED BY <3>2, <3>3
  <2>2. rank \in [S -> 1..n]
    BY <1>2
  <2> QED BY <2>1, <2>2, Fun_IsInj
<1>5. rank \in Surjection(S, 1..n)
  BY <1>1, <1>4, FS_Interval, FS_Injection
<1> DEFINE list == [k \in 1..n |-> CHOOSE x \in S : rank[x] = k]
<1>. HIDE DEF rank
<1>6. \A k \in 1..n : list[k] \in S /\ rank[list[k]] = k
  BY <1>5 DEF Surjection
<1>7. list \in [1..n -> S]
  BY <1>6
<1>. HIDE DEF list
<1>8. \A i, j \in 1..n : i < j => key[list[i]] < key[list[j]]
  <2> SUFFICES ASSUME NEW i \in 1..n, NEW j \in 1..n, i < j
               PROVE  key[list[i]] < key[list[j]]
    OBVIOUS
  <2>1. list[i] \in S /\ list[j] \in S /\ rank[list[i]] = i /\ rank[list[j]] = j
    BY <1>6
  <2>2. key[list[j]] < key[list[i]] => j < i
    BY <2>1, <1>3
  <2>3. key[list[i]] \in Nat /\ key[list[j]] \in Nat /\ list[i] # list[j]
    BY <2>1
  <2>4. i \in Nat /\ j \in Nat
    BY <1>1
  <2> QED BY <2>1, <2>2, <2>3, <2>4
<1>9. \A x \in S : \E i \in 1..n : list[i] = x
  <2> TAKE x \in S
  <2> DEFINE i == rank[x]
  <2>1. i \in 1..n /\ rank[list[i]] = rank[x] /\ list[i] \in S
    BY <1>2, <1>6 DEF rank
  <2>2. list[i] = x
    BY <2>1, <1>4 DEF Injection, IsInjective
  <2> QED BY <2>1, <2>2
<1> QED BY <1>1, <1>7, <1>8, <1>9

\* A finite set of numbers that is not empty has a least and a greatest member.
LEMMA Extremes ==
  ASSUME NEW S \in SUBSET Nat, IsFiniteSet(S), S # {}
  PROVE  /\ \E x \in S : \A y \in S : x <= y
         /\ \E x \in S : \A y \in S : x >= y
<1> DEFINE n == Cardinality(S)
           key == [x \in S |-> x]
<1>1. n \in Nat /\ n # 0
  BY FS_CardinalityType, FS_EmptySet
<1>2. key \in Injection(S, Nat)
  BY DEF Injection, IsInjective
<1>3. PICK list \in [1..n -> S] :
         /\ \A i, j \in 1..n : i < j => list[i] < list[j]
         /\ \A x \in S : \E i \in 1..n : list[i] = x
  <2>1. \E list \in [1..Cardinality(S) -> S] :
         /\ \A i, j \in 1..Cardinality(S) : i < j => key[list[i]] < key[list[j]]
         /\ \A x \in S : \E i \in 1..Cardinality(S) : list[i] = x
    <3>. HIDE DEF key
    <3> QED BY <1>2, ListedByKey
  <2>2. \A i \in 1..n, list \in [1..n -> S] : key[list[i]] = list[i]
    OBVIOUS
  <2> QED BY <2>1, <2>2
<1>. HIDE DEF n
<1>4. \A i \in 1..n : list[1] <= list[i] /\ list[n] >= list[i]
  <2> SUFFICES ASSUME NEW i \in 1..n PROVE list[1] <= list[i] /\ list[n] >= list[i]
    OBVIOUS
  <2>1. 1 \in 1..n /\ n \in 1..n /\ S \subseteq Nat
    BY <1>1
  <2>3. list[1] \in Nat /\ list[i] \in Nat /\ list[n] \in Nat
    BY <1>3, <2>1
  <2>2. (i = 1 \/ 1 < i) /\ (i = n \/ i < n)
    BY <1>1
  <2>4. list[1] < list[i] \/ i = 1
    BY <1>3, <2>1, <2>2
  <2>5. list[i] < list[n] \/ i = n
    BY <1>3, <2>1, <2>2
  <2> QED BY <2>3, <2>4, <2>5
<1>5. list[1] \in S /\ list[n] \in S
  BY <1>1
<1>6. \A y \in S : list[1] <= y /\ list[n] >= y
  <2> TAKE y \in S
  <2>1. PICK i \in 1..n : list[i] = y
    BY <1>3
  <2> QED BY <1>4, <2>1
<1> QED BY <1>5, <1>6, Zenon

\* Sets of indices are finite.
LEMMA FiniteIndices ==
  ASSUME NEW n \in Nat, NEW S \in SUBSET (1..n) PROVE IsFiniteSet(S)
<1>1. S \in SUBSET Nat /\ \A k \in S : k <= n
  OBVIOUS
<1> QED BY <1>1, FS_BoundedSetOfNaturals

\* What holds before a loop and is kept by each of its n turns holds after it.
LEMMA Turns ==
  ASSUME NEW n \in Nat, NEW S, 0 \in S, \A k \in 0..n - 1 : k \in S => k + 1 \in S
  PROVE  \A k \in 0..n : k \in S
<1> DEFINE Missing == {k \in 0..n : k \notin S}
<1> SUFFICES ASSUME Missing # {} PROVE FALSE
  OBVIOUS
<1>1. Missing \in SUBSET Nat /\ IsFiniteSet(Missing)
  <2>1. Missing \in SUBSET Nat /\ \A k \in Missing : k <= n
    OBVIOUS
  <2> HIDE DEF Missing
  <2> QED BY <2>1, FS_BoundedSetOfNaturals
<1>2. PICK m \in Missing : \A k \in Missing : m <= k
  BY <1>1, Extremes
<1>3. m # 0 /\ m - 1 \in 0..n - 1 /\ m - 1 \notin Missing
  BY <1>2
<1> QED BY <1>3
=============================================================================

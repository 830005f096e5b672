--------------------------- MODULE ZoneEventsProofs ---------------------------
(***************************************************************************)
(* Proofs about the merge of diffZoneSets, for every two sorted zone sets, *)
(* and about the zones that give it its inputs, for every configuration.   *)
(***************************************************************************)
EXTENDS ZoneEvents, ListingProofs, FiniteSetTheorems, FunctionTheorems, TLAPS

\* The elements of a sequence are those of its two parts.
LEMMA ConcatRange ==
    ASSUME NEW S, NEW s \in Seq(S), NEW t \in Seq(S)
    PROVE  s \o t \in Seq(S) /\ Range(s \o t) = Range(s) \cup Range(t)
<1>1. s \o t \in Seq(S) /\ Len(s \o t) = Len(s) + Len(t)
  OBVIOUS
<1>2. Range(s \o t) \subseteq Range(s) \cup Range(t)
  <2>1. SUFFICES ASSUME NEW k \in DOMAIN (s \o t)
                 PROVE  (s \o t)[k] \in Range(s) \cup Range(t)
    BY DEF Range
  <2>2. CASE k <= Len(s)
    <3>1. k \in DOMAIN s /\ (s \o t)[k] = s[k]
      BY <1>1, <2>2
    <3> QED BY <3>1 DEF Range
  <2>3. CASE k > Len(s)
    <3>1. k - Len(s) \in DOMAIN t /\ (s \o t)[k] = t[k - Len(s)]
      BY <1>1, <2>3
    <3> QED BY <3>1 DEF Range
  <2> QED BY <1>1, <2>2, <2>3
<1>3. Range(s) \cup Range(t) \subseteq Range(s \o t)
  <2>1. ASSUME NEW k \in DOMAIN s PROVE s[k] \in Range(s \o t)
    <3>1. k \in DOMAIN (s \o t) /\ (s \o t)[k] = s[k]
      BY <1>1
    <3> QED BY <3>1 DEF Range
  <2>2. ASSUME NEW k \in DOMAIN t PROVE t[k] \in Range(s \o t)
    <3>1. Len(s) + k \in DOMAIN (s \o t) /\ (s \o t)[Len(s) + k] = t[k]
      BY <1>1
    <3> QED BY <3>1 DEF Range
  <2> QED BY <2>1, <2>2 DEF Range
<1> QED BY <1>1, <1>2, <1>3

\* Two sorted sequences, the one below the other, are sorted together.
LEMMA ConcatSorted ==
    ASSUME NEW s \in Seq(Nat), NEW t \in Seq(Nat), IsSorted(s), IsSorted(t),
           \A m \in Range(s), n \in Range(t) : m < n
    PROVE  IsSorted(s \o t)
<1>1. SUFFICES ASSUME NEW k \in DOMAIN (s \o t), NEW l \in DOMAIN (s \o t), k < l
               PROVE  (s \o t)[k] < (s \o t)[l]
  BY DEF IsSorted
<1>2. CASE l <= Len(s)
  BY <1>1, <1>2 DEF IsSorted
<1>3. CASE k > Len(s)
  <2>1. /\ k - Len(s) \in DOMAIN t /\ (s \o t)[k] = t[k - Len(s)]
        /\ l - Len(s) \in DOMAIN t /\ (s \o t)[l] = t[l - Len(s)]
    BY <1>1, <1>3
  <2> QED BY <1>1, <2>1 DEF IsSorted
<1>4. CASE k <= Len(s) /\ l > Len(s)
  <2>1. /\ k \in DOMAIN s /\ (s \o t)[k] = s[k]
        /\ l - Len(s) \in DOMAIN t /\ (s \o t)[l] = t[l - Len(s)]
    BY <1>1, <1>4
  <2> QED BY <2>1 DEF Range
<1> QED BY <1>1, <1>2, <1>3, <1>4

\* Appending is concatenation with one element, which is sorted.
LEMMA AppendOne ==
    ASSUME NEW s \in Seq(Nat), NEW n \in Nat, IsSorted(s), \A m \in Range(s) : m < n
    PROVE  /\ Append(s, n) \in Seq(Nat) /\ IsSorted(Append(s, n))
           /\ Range(Append(s, n)) = Range(s) \cup {n}
<1> DEFINE one == <<n>>
<1>1. one \in Seq(Nat) /\ Append(s, n) = s \o one
  OBVIOUS
<1>2. IsSorted(one) /\ Range(one) = {n}
  BY DEF IsSorted, Range
<1> HIDE DEF one
<1>3. s \o one \in Seq(Nat) /\ Range(s \o one) = Range(s) \cup Range(one)
  BY <1>1, ConcatRange
<1>4. IsSorted(s \o one)
  BY <1>1, <1>2, ConcatSorted
<1> QED BY <1>1, <1>2, <1>3, <1>4

\* The tail that the merge appends: sorted, with the elements from k on.
LEMMA RestOf ==
    ASSUME NEW s \in Seq(Nat), IsSorted(s), NEW k \in 1..Len(s) + 1
    PROVE  /\ Rest(s, k) \in Seq(Nat) /\ IsSorted(Rest(s, k))
           /\ Range(Rest(s, k)) = {s[m] : m \in k..Len(s)}
<1> DEFINE r == Rest(s, k)
           size == Len(s) - k + 1
<1>1. r \in Seq(Nat) /\ DOMAIN r = 1..size /\ \A m \in 1..size : r[m] = s[k + m - 1]
  BY DEF Rest
<1> HIDE DEF r
<1>2. IsSorted(r)
  <2>1. SUFFICES ASSUME NEW m \in 1..size, NEW n \in 1..size, m < n
                 PROVE  r[m] < r[n]
    BY <1>1 DEF IsSorted
  <2>2. k + m - 1 \in DOMAIN s /\ k + n - 1 \in DOMAIN s /\ k + m - 1 < k + n - 1
    BY <2>1
  <2> QED BY <1>1, <2>1, <2>2 DEF IsSorted
<1>3. ASSUME NEW m \in k..Len(s) PROVE m - k + 1 \in 1..size /\ s[m] = r[m - k + 1]
  BY <1>1
<1>4. ASSUME NEW m \in 1..size PROVE k + m - 1 \in k..Len(s)
  OBVIOUS
<1>5. Range(r) = {s[m] : m \in k..Len(s)}
  <2>1. ASSUME NEW m \in 1..size PROVE r[m] \in {s[n] : n \in k..Len(s)}
    BY <1>1, <1>4
  <2>2. ASSUME NEW m \in k..Len(s) PROVE s[m] \in Range(r)
    BY <1>1, <1>3 DEF Range
  <2> QED BY <1>1, <2>1, <2>2 DEF Range
<1> QED BY <1>1, <1>2, <1>5 DEF r
-----------------------------------------------------------------------------
\* Before the loop nothing is passed over and nothing collected.
LEMMA InitDiffInv == Init => DiffInv
<1> SUFFICES ASSUME Init PROVE DiffInv
  OBVIOUS
<1>1. prev \in ZoneSets /\ next \in ZoneSets /\ prev \in Seq(Name) /\ next \in Seq(Name)
  BY DEF Init, ZoneSets
<1>2. <<>> \in Seq(Name) /\ DOMAIN <<>> = {}
  OBVIOUS
<1>3. <<>> \in ZoneSets
  BY <1>2 DEF ZoneSets, IsSorted
<1>4. DiffTypeOK
  <2>1. Len(prev) \in Nat /\ Len(next) \in Nat
    BY <1>1
  <2>2. i \in 1..Len(prev) + 1 /\ j \in 1..Len(next) + 1
    BY <2>1 DEF Init
  <2> QED BY <1>1, <1>3, <2>2 DEF Init, DiffTypeOK
<1>5. /\ {prev[k] : k \in 1..i - 1} = {} /\ {next[k] : k \in 1..j - 1} = {}
      /\ Range(exits) = {} /\ Range(enters) = {}
  BY <1>2 DEF Init, Range
<1>6. MergeInv
  BY <1>5 DEF MergeInv
<1> QED BY <1>4, <1>6 DEF Init, DiffInv, DiffCorrect

\* While both sides are left, a name passed over is below every name that is
\* still ahead on its own side.
LEMMA Ahead ==
    ASSUME DiffTypeOK, MergeInv, ~ returned
    PROVE  /\ \A k \in i..Len(prev) : \A m \in Range(exits) : m < prev[k]
           /\ \A k \in j..Len(next) : \A m \in Range(enters) : m < next[k]
<1>1. \A k \in i..Len(prev) : \A m \in 1..i - 1 : prev[m] < prev[k]
  BY DEF DiffTypeOK, ZoneSets, IsSorted
<1>2. \A k \in j..Len(next) : \A m \in 1..j - 1 : next[m] < next[k]
  BY DEF DiffTypeOK, ZoneSets, IsSorted
<1> QED BY <1>1, <1>2 DEF MergeInv

\* Names are ranks, so sequences of names can be compared.
LEMMA NamesAreNat == ASSUME NEW s \in Seq(Name) PROVE s \in Seq(Nat)
<1>1. Len(s) \in Nat /\ s \in [1..Len(s) -> Name]
  OBVIOUS
<1>2. s \in [1..Len(s) -> Nat]
  BY <1>1, NameAssumption
<1> QED BY <1>1, <1>2

\* What the pointers have passed over.
PassedPrev == {prev[k] : k \in 1..i - 1}
PassedNext == {next[k] : k \in 1..j - 1}

\* The facts about a state in which both sides are left that the steps use.
LEMMA BothLeftFacts ==
    ASSUME DiffInv, BothLeft
    PROVE  /\ ~ returned
           /\ prev \in Seq(Nat) /\ next \in Seq(Nat)
           /\ i \in DOMAIN prev /\ j \in DOMAIN next
           /\ exits \in Seq(Nat) /\ enters \in Seq(Nat)
           /\ IsSorted(exits) /\ IsSorted(enters)
           /\ \A k \in DOMAIN prev : k > i => prev[i] < prev[k]
           /\ \A k \in DOMAIN next : k > j => next[j] < next[k]
           /\ Range(exits) = PassedPrev \ PassedNext
           /\ Range(enters) = PassedNext \ PassedPrev
           /\ \A k \in DOMAIN next : k >= j => next[k] \notin PassedPrev
           /\ \A k \in DOMAIN prev : k >= i => prev[k] \notin PassedNext
<1>1. \A s \in ZoneSets : s \in Seq(Name) /\ IsSorted(s)
  BY DEF ZoneSets
<1>2. \A s \in Seq(Name) : s \in Seq(Nat)
  BY NamesAreNat
<1>3. prev \in Seq(Nat) /\ next \in Seq(Nat) /\ exits \in Seq(Nat) /\ enters \in Seq(Nat)
  BY <1>1, <1>2 DEF DiffInv, DiffTypeOK
<1>4. i \in DOMAIN prev /\ j \in DOMAIN next
  BY <1>3 DEF DiffInv, DiffTypeOK, BothLeft
<1>5. IsSorted(prev) /\ IsSorted(next) /\ IsSorted(exits) /\ IsSorted(enters)
  BY <1>1 DEF DiffInv, DiffTypeOK
<1>6. ~ returned
  BY DEF DiffInv
<1>7. /\ Range(exits) = PassedPrev \ PassedNext
      /\ Range(enters) = PassedNext \ PassedPrev
      /\ \A k \in DOMAIN next : k >= j => next[k] \notin PassedPrev
      /\ \A k \in DOMAIN prev : k >= i => prev[k] \notin PassedNext
  BY <1>6 DEF DiffInv, MergeInv, PassedPrev, PassedNext
<1> QED BY <1>3, <1>4, <1>5, <1>6, <1>7 DEF IsSorted

\* A name on both sides is passed over on both and collected on neither.
LEMMA StepSame == ASSUME DiffInv, Same PROVE DiffInv'
<1>. BothLeft
  BY DEF Same
<1>1. DiffTypeOK'
  BY DEF DiffInv, Same, BothLeft, DiffTypeOK, ZoneSets
<1>2. PassedPrev' = PassedPrev \cup {prev[i]} /\ PassedNext' = PassedNext \cup {next[j]}
  BY DEF DiffInv, Same, DiffTypeOK, PassedPrev, PassedNext
<1>3. prev[i] = next[j] /\ prev[i] \notin PassedPrev /\ prev[i] \notin PassedNext
  <2>1. i >= i /\ j >= j
    BY BothLeftFacts
  <2> QED BY <2>1, BothLeftFacts DEF Same
<1>4. Range(exits') = PassedPrev' \ PassedNext' /\ Range(enters') = PassedNext' \ PassedPrev'
  BY <1>2, <1>3, BothLeftFacts DEF Same
<1>5. \A k \in DOMAIN next : k >= j + 1 => next[k] \notin PassedPrev'
  <2>1. ASSUME NEW k \in DOMAIN next, k >= j + 1
        PROVE  next[k] \notin PassedPrev /\ next[k] # next[j]
    <3>1. k > j /\ k >= j /\ next[j] \in Nat
      BY <2>1, BothLeftFacts
    <3> QED BY <3>1, BothLeftFacts
  <2> QED BY <1>2, <1>3, <2>1
<1>6. \A k \in DOMAIN prev : k >= i + 1 => prev[k] \notin PassedNext'
  <2>1. ASSUME NEW k \in DOMAIN prev, k >= i + 1
        PROVE  prev[k] \notin PassedNext /\ prev[k] # prev[i]
    <3>1. k > i /\ k >= i /\ prev[i] \in Nat
      BY <2>1, BothLeftFacts
    <3> QED BY <3>1, BothLeftFacts
  <2> QED BY <1>2, <1>3, <2>1
<1>7. MergeInv'
  BY <1>4, <1>5, <1>6 DEF MergeInv, PassedPrev, PassedNext, Same
<1>8. ~ returned'
  BY BothLeftFacts DEF Same
<1> QED BY <1>1, <1>7, <1>8 DEF DiffInv, DiffCorrect

\* A name that is only in prev so far is appended to exits ...
LEMMA StepLeft == ASSUME DiffInv, Left PROVE DiffInv'
<1>. BothLeft
  BY DEF Left
<1>. DEFINE n == prev[i]
<1>1. /\ n \in Nat /\ n \in Name /\ prev[i] < next[j] /\ exits \in Seq(Name)
      /\ next[j] \in Nat
  BY BothLeftFacts DEF Left, DiffInv, DiffTypeOK, ZoneSets
<1>2. \A m \in Range(exits) : m < n
  <2>1. DiffTypeOK /\ MergeInv /\ ~ returned
    BY DEF DiffInv
  <2>2. i \in i..Len(prev)
    BY BothLeftFacts
  <2> QED BY <2>1, <2>2, Ahead
<1>3. exits' \in Seq(Name) /\ IsSorted(exits') /\ Range(exits') = Range(exits) \cup {n}
  <2>1. exits \in Seq(Nat) /\ IsSorted(exits)
    BY BothLeftFacts
  <2>2. IsSorted(Append(exits, n)) /\ Range(Append(exits, n)) = Range(exits) \cup {n}
    BY <1>1, <1>2, <2>1, AppendOne
  <2>3. exits' = Append(exits, n) /\ Append(exits, n) \in Seq(Name)
    BY <1>1 DEF Left
  <2> QED BY <2>2, <2>3
<1>4. DiffTypeOK'
  <2>1. exits' \in ZoneSets
    BY <1>3 DEF ZoneSets
  <2>2. i' \in 1..Len(prev) + 1
    BY BothLeftFacts DEF Left
  <2> QED BY <2>1, <2>2 DEF Left, DiffInv, DiffTypeOK
<1>5. PassedPrev' = PassedPrev \cup {n} /\ PassedNext' = PassedNext
  BY DEF DiffInv, Left, DiffTypeOK, PassedPrev, PassedNext
<1>6. n \notin PassedNext
  <2>1. i >= i
    BY BothLeftFacts
  <2> QED BY <2>1, BothLeftFacts
<1>7. Range(exits') = PassedPrev' \ PassedNext' /\ Range(enters') = PassedNext' \ PassedPrev'
  BY <1>3, <1>5, <1>6, BothLeftFacts DEF Left
<1>8. \A k \in DOMAIN next : k >= j => next[k] \notin PassedPrev'
  <2>1. ASSUME NEW k \in DOMAIN next, k >= j
        PROVE  next[k] \notin PassedPrev /\ next[k] # n
    <3>1. k = j \/ k > j
      BY <2>1, BothLeftFacts
    <3>2. next[k] >= next[j] /\ next[k] \in Nat
      BY <3>1, BothLeftFacts
    <3> QED BY <1>1, <2>1, <3>2, BothLeftFacts
  <2> QED BY <1>5, <2>1
<1>9. \A k \in DOMAIN prev : k >= i + 1 => prev[k] \notin PassedNext'
  <2>1. ASSUME NEW k \in DOMAIN prev, k >= i + 1 PROVE prev[k] \notin PassedNext
    <3>1. k >= i
      BY <2>1, BothLeftFacts
    <3> QED BY <3>1, BothLeftFacts
  <2> QED BY <1>5, <2>1
<1>10. MergeInv'
  BY <1>7, <1>8, <1>9 DEF MergeInv, PassedPrev, PassedNext, Left
<1>11. ~ returned'
  BY BothLeftFacts DEF Left
<1> QED BY <1>4, <1>10, <1>11 DEF DiffInv, DiffCorrect

\* ... and one that is only in next to enters.
LEMMA StepEntered == ASSUME DiffInv, Entered PROVE DiffInv'
<1>. BothLeft
  BY DEF Entered
<1>. DEFINE n == next[j]
<1>1. /\ n \in Nat /\ n \in Name /\ next[j] < prev[i] /\ enters \in Seq(Name)
      /\ prev[i] \in Nat
  BY BothLeftFacts DEF Entered, DiffInv, DiffTypeOK, ZoneSets
<1>2. \A m \in Range(enters) : m < n
  <2>1. DiffTypeOK /\ MergeInv /\ ~ returned
    BY DEF DiffInv
  <2>2. j \in j..Len(next)
    BY BothLeftFacts
  <2> QED BY <2>1, <2>2, Ahead
<1>3. enters' \in Seq(Name) /\ IsSorted(enters') /\ Range(enters') = Range(enters) \cup {n}
  <2>1. enters \in Seq(Nat) /\ IsSorted(enters)
    BY BothLeftFacts
  <2>2. IsSorted(Append(enters, n)) /\ Range(Append(enters, n)) = Range(enters) \cup {n}
    BY <1>1, <1>2, <2>1, AppendOne
  <2>3. enters' = Append(enters, n) /\ Append(enters, n) \in Seq(Name)
    BY <1>1 DEF Entered
  <2> QED BY <2>2, <2>3
<1>4. DiffTypeOK'
  <2>1. enters' \in ZoneSets
    BY <1>3 DEF ZoneSets
  <2>2. j' \in 1..Len(next) + 1
    BY BothLeftFacts DEF Entered
  <2> QED BY <2>1, <2>2 DEF Entered, DiffInv, DiffTypeOK
<1>5. PassedNext' = PassedNext \cup {n} /\ PassedPrev' = PassedPrev
  BY DEF DiffInv, Entered, DiffTypeOK, PassedPrev, PassedNext
<1>6. n \notin PassedPrev
  <2>1. j >= j
    BY BothLeftFacts
  <2> QED BY <2>1, BothLeftFacts
<1>7. Range(enters') = PassedNext' \ PassedPrev' /\ Range(exits') = PassedPrev' \ PassedNext'
  BY <1>3, <1>5, <1>6, BothLeftFacts DEF Entered
<1>8. \A k \in DOMAIN prev : k >= i => prev[k] \notin PassedNext'
  <2>1. ASSUME NEW k \in DOMAIN prev, k >= i
        PROVE  prev[k] \notin PassedNext /\ prev[k] # n
    <3>1. k = i \/ k > i
      BY <2>1, BothLeftFacts
    <3>2. prev[k] >= prev[i] /\ prev[k] \in Nat
      BY <3>1, BothLeftFacts
    <3> QED BY <1>1, <2>1, <3>2, BothLeftFacts
  <2> QED BY <1>5, <2>1
<1>9. \A k \in DOMAIN next : k >= j + 1 => next[k] \notin PassedPrev'
  <2>1. ASSUME NEW k \in DOMAIN next, k >= j + 1 PROVE next[k] \notin PassedPrev
    <3>1. k >= j
      BY <2>1, BothLeftFacts
    <3> QED BY <3>1, BothLeftFacts
  <2> QED BY <1>5, <2>1
<1>10. MergeInv'
  BY <1>7, <1>8, <1>9 DEF MergeInv, PassedPrev, PassedNext, Entered
<1>11. ~ returned'
  BY BothLeftFacts DEF Entered
<1> QED BY <1>4, <1>10, <1>11 DEF DiffInv, DiffCorrect

\* What Return appends to the names left makes them the difference of the inputs.
LEMMA ReturnExits ==
    ASSUME DiffInv, Return
    PROVE  exits' \in ZoneSets /\ Range(exits') = Range(prev) \ Range(next)
<1>. DEFINE tail == Rest(prev, i)
<1>1. /\ DiffTypeOK /\ MergeInv /\ ~ returned
      /\ prev \in Seq(Nat) /\ exits \in Seq(Nat) /\ IsSorted(prev) /\ IsSorted(exits)
      /\ prev \in Seq(Name) /\ exits \in Seq(Name) /\ next \in Seq(Name)
      /\ i \in 1..Len(prev) + 1 /\ j \in 1..Len(next) + 1
      /\ i > Len(prev) \/ j > Len(next)
  <2>1. \A s \in ZoneSets : s \in Seq(Name) /\ s \in Seq(Nat) /\ IsSorted(s)
    BY NamesAreNat DEF ZoneSets
  <2>2. DiffTypeOK /\ MergeInv /\ ~ returned
    BY DEF DiffInv, Return
  <2>3. ~ BothLeft /\ Len(prev) \in Nat /\ Len(next) \in Nat
    BY <2>1, <2>2 DEF Return, DiffTypeOK
  <2> QED BY <2>1, <2>2, <2>3 DEF DiffTypeOK, BothLeft
<1>2. tail \in Seq(Nat) /\ IsSorted(tail) /\ Range(tail) = {prev[m] : m \in i..Len(prev)}
  BY <1>1, RestOf
<1>3. \A m \in Range(exits), n \in Range(tail) : m < n
  BY <1>1, <1>2, Ahead
<1>4. tail \in Seq(Name)
  BY <1>1 DEF Rest
<1>5. exits' = exits \o tail
  BY DEF Return
<1>6. exits' \in ZoneSets
  <2>1. IsSorted(exits \o tail)
    BY <1>1, <1>2, <1>3, ConcatSorted
  <2>2. exits \o tail \in Seq(Name)
    BY <1>1, <1>4, ConcatRange
  <2> QED BY <1>5, <2>1, <2>2 DEF ZoneSets
<1>7. Range(exits') = (PassedPrev \ PassedNext) \cup {prev[m] : m \in i..Len(prev)}
  <2>1. Range(exits \o tail) = Range(exits) \cup Range(tail)
    BY <1>1, <1>2, ConcatRange
  <2>2. Range(exits) = PassedPrev \ PassedNext
    BY <1>1 DEF MergeInv, PassedPrev, PassedNext
  <2> QED BY <1>2, <1>5, <2>1, <2>2
<1>8. Range(prev) = PassedPrev \cup {prev[m] : m \in i..Len(prev)}
  <2>1. DOMAIN prev = 1..Len(prev) /\ Len(prev) \in Nat /\ i \in 1..Len(prev) + 1
    BY <1>1
  <2>2. 1..Len(prev) = (1..i - 1) \cup (i..Len(prev))
    BY <2>1
  <2> QED BY <2>1, <2>2 DEF Range, PassedPrev, PassedNext
<1>9. Range(next) = PassedNext \cup {next[m] : m \in j..Len(next)}
  BY <1>1 DEF Range, PassedPrev, PassedNext
<1>10. \A m \in j..Len(next) : next[m] \notin PassedPrev
  <2>1. \A m \in j..Len(next) : m \in DOMAIN next /\ m >= j
    BY <1>1
  <2>2. \A m \in DOMAIN next : m >= j => next[m] \notin PassedPrev
    BY <1>1 DEF MergeInv, PassedPrev, PassedNext
  <2> QED BY <2>1, <2>2
<1>11. \A m \in i..Len(prev) : prev[m] \notin PassedNext
  <2>1. \A m \in i..Len(prev) : m \in DOMAIN prev /\ m >= i
    BY <1>1
  <2>2. \A m \in DOMAIN prev : m >= i => prev[m] \notin PassedNext
    BY <1>1 DEF MergeInv, PassedPrev, PassedNext
  <2> QED BY <2>1, <2>2
<1>12. i..Len(prev) = {} \/ j..Len(next) = {}
  BY <1>1
<1>13. Range(exits') = Range(prev) \ Range(next)
  BY <1>7, <1>8, <1>9, <1>10, <1>11, <1>12
<1> QED BY <1>6, <1>13

\* The same for the names entered.
LEMMA ReturnEnters ==
    ASSUME DiffInv, Return
    PROVE  enters' \in ZoneSets /\ Range(enters') = Range(next) \ Range(prev)
<1>. DEFINE tail == Rest(next, j)
<1>1. /\ DiffTypeOK /\ MergeInv /\ ~ returned
      /\ next \in Seq(Nat) /\ enters \in Seq(Nat) /\ IsSorted(next) /\ IsSorted(enters)
      /\ next \in Seq(Name) /\ enters \in Seq(Name) /\ prev \in Seq(Name)
      /\ j \in 1..Len(next) + 1 /\ i \in 1..Len(prev) + 1
      /\ j > Len(next) \/ i > Len(prev)
  <2>1. \A s \in ZoneSets : s \in Seq(Name) /\ s \in Seq(Nat) /\ IsSorted(s)
    BY NamesAreNat DEF ZoneSets
  <2>2. DiffTypeOK /\ MergeInv /\ ~ returned
    BY DEF DiffInv, Return
  <2>3. ~ BothLeft /\ Len(next) \in Nat /\ Len(prev) \in Nat
    BY <2>1, <2>2 DEF Return, DiffTypeOK
  <2> QED BY <2>1, <2>2, <2>3 DEF DiffTypeOK, BothLeft
<1>2. tail \in Seq(Nat) /\ IsSorted(tail) /\ Range(tail) = {next[m] : m \in j..Len(next)}
  BY <1>1, RestOf
<1>3. \A m \in Range(enters), n \in Range(tail) : m < n
  BY <1>1, <1>2, Ahead
<1>4. tail \in Seq(Name)
  BY <1>1 DEF Rest
<1>5. enters' = enters \o tail
  BY DEF Return
<1>6. enters' \in ZoneSets
  <2>1. IsSorted(enters \o tail)
    BY <1>1, <1>2, <1>3, ConcatSorted
  <2>2. enters \o tail \in Seq(Name)
    BY <1>1, <1>4, ConcatRange
  <2> QED BY <1>5, <2>1, <2>2 DEF ZoneSets
<1>7. Range(enters') = (PassedNext \ PassedPrev) \cup {next[m] : m \in j..Len(next)}
  <2>1. Range(enters \o tail) = Range(enters) \cup Range(tail)
    BY <1>1, <1>2, ConcatRange
  <2>2. Range(enters) = PassedNext \ PassedPrev
    BY <1>1 DEF MergeInv, PassedPrev, PassedNext
  <2> QED BY <1>2, <1>5, <2>1, <2>2
<1>8. Range(next) = PassedNext \cup {next[m] : m \in j..Len(next)}
  <2>1. DOMAIN next = 1..Len(next) /\ Len(next) \in Nat /\ j \in 1..Len(next) + 1
    BY <1>1
  <2>2. 1..Len(next) = (1..j - 1) \cup (j..Len(next))
    BY <2>1
  <2> QED BY <2>1, <2>2 DEF Range, PassedPrev, PassedNext
<1>9. Range(prev) = PassedPrev \cup {prev[m] : m \in i..Len(prev)}
  BY <1>1 DEF Range, PassedPrev, PassedNext
<1>10. \A m \in i..Len(prev) : prev[m] \notin PassedNext
  <2>1. \A m \in i..Len(prev) : m \in DOMAIN prev /\ m >= i
    BY <1>1
  <2>2. \A m \in DOMAIN prev : m >= i => prev[m] \notin PassedNext
    BY <1>1 DEF MergeInv, PassedPrev, PassedNext
  <2> QED BY <2>1, <2>2
<1>11. \A m \in j..Len(next) : next[m] \notin PassedPrev
  <2>1. \A m \in j..Len(next) : m \in DOMAIN next /\ m >= j
    BY <1>1
  <2>2. \A m \in DOMAIN next : m >= j => next[m] \notin PassedPrev
    BY <1>1 DEF MergeInv, PassedPrev, PassedNext
  <2> QED BY <2>1, <2>2
<1>12. j..Len(next) = {} \/ i..Len(prev) = {}
  BY <1>1
<1>13. Range(enters') = Range(next) \ Range(prev)
  BY <1>7, <1>8, <1>9, <1>10, <1>11, <1>12
<1> QED BY <1>6, <1>13

\* With one side run out, appending the rest of both completes the result.
LEMMA StepReturn == ASSUME DiffInv, Return PROVE DiffInv'
<1>1. exits' \in ZoneSets /\ enters' \in ZoneSets
  BY ReturnExits, ReturnEnters
<1>2. DiffTypeOK'
  BY <1>1 DEF DiffInv, DiffTypeOK, Return
<1>3. DiffCorrect'
  BY <1>1, ReturnExits, ReturnEnters DEF DiffCorrect, Return, ZoneSets
<1>4. MergeInv' /\ (returned => ~ BothLeft)'
  BY DEF Return, MergeInv, BothLeft
<1> QED BY <1>2, <1>3, <1>4 DEF DiffInv

\* Each turn of the loop keeps DiffInv.
LEMMA MergeStep == DiffInv /\ [Next]_vars => DiffInv'
<1>. SUFFICES ASSUME DiffInv, [Next]_vars PROVE DiffInv'
  OBVIOUS
<1>1. CASE UNCHANGED vars
  BY <1>1 DEF vars, DiffInv, DiffTypeOK, MergeInv, DiffCorrect, BothLeft
<1> QED BY <1>1, StepSame, StepLeft, StepEntered, StepReturn DEF Next

\* The loop keeps DiffInv, whatever the two sorted inputs are (engine.go:204-222).
THEOREM DiffInvariant == Spec => []DiffInv
  BY InitDiffInv, MergeStep, PTL DEF Spec

\* At every moment the names collected are the differences of what the pointers
\* have passed over (engine.go:204-218).
THEOREM MergeIsPartial == Spec => []MergeInv
<1>1. DiffInv => MergeInv
  BY DEF DiffInv
<1> QED BY <1>1, DiffInvariant, PTL

\* diffZoneSets returns the two differences of its inputs, in order
\* (engine.go:202-222).
THEOREM MergeIsDifference == Spec => []DiffCorrect
<1>1. DiffInv => DiffCorrect
  BY DEF DiffInv
<1> QED BY <1>1, DiffInvariant, PTL
-----------------------------------------------------------------------------
\* What slugifyZoneName puts into a slug.
LegalCharacter == ({Lower[c] : c \in DOMAIN Lower} \cup {"_"}) \ (Illegal \cup {"."})

\* The slug of a text has no character that NATS or a token refuses: such
\* characters become underscores, and the cut leaves only characters of the
\* text between its first and last (geometry.go:138-155).
LEMMA SlugText ==
  ASSUME NEW name \in Seq(Character)
  PROVE  slugifyZoneName(name) \in Seq(LegalCharacter)
<1> DEFINE text == [k \in DOMAIN name |->
                      IF name[k] \in Illegal \cup {"."} THEN "_" ELSE Lower[name[k]]]
           kept == {k \in DOMAIN name : text[k] # "_"}
           slug == slugifyZoneName(name)
<1>1. Len(name) \in Nat /\ DOMAIN name = 1..Len(name)
  OBVIOUS
<1>2. "_" \in LegalCharacter
  BY DEF Illegal, Whitespace, LegalCharacter
<1>3. ASSUME NEW c \in Character \ (Illegal \cup {"."}) PROVE Lower[c] \in LegalCharacter
  BY SpellingAssumption DEF Character, LegalCharacter
<1>4. text \in Seq(LegalCharacter) /\ Len(text) = Len(name) /\ Len(name) \in Nat
  <2>1. ASSUME NEW k \in 1..Len(name) PROVE text[k] \in LegalCharacter
    <3>1. name[k] \in Character
      BY <1>1
    <3> QED BY <1>1, <1>2, <1>3, <3>1
  <2>2. text \in [1..Len(name) -> LegalCharacter]
    BY <1>1, <2>1
  <2> HIDE DEF text
  <2> QED BY <1>1, <2>2
<1>5. slug = IF kept = {} THEN <<>> ELSE SubSeq(text, Min(kept), Max(kept))
  BY DEF slugifyZoneName
<1>6. kept \in SUBSET (1..Len(name)) /\ kept \in SUBSET Nat
  <2>1. kept \subseteq DOMAIN name
    OBVIOUS
  <2>2. 1..Len(name) \subseteq Nat
    BY <1>1
  <2> HIDE DEF kept
  <2> QED BY <1>1, <2>1, <2>2
<1> HIDE DEF text, kept, slug
<1> SUFFICES slug \in Seq(LegalCharacter)
  BY DEF slug
<1>7. CASE kept = {}
  <2>1. slug = <<>>
    BY <1>5, <1>7
  <2> QED BY <2>1
<1>8. CASE kept # {}
  <2> DEFINE first == Min(kept)
             last == Max(kept)
  <2>1. IsFiniteSet(kept)
    BY <1>4, <1>6, FiniteIndices
  <2>2. first \in kept /\ last \in kept
    BY <1>6, <1>8, <2>1, Extremes DEF Min, Max
  <2> HIDE DEF first, last
  <2>3. SubSeq(text, first, last) \in Seq(LegalCharacter)
    BY <1>4, <1>6, <2>2
  <2>4. slug = SubSeq(text, first, last)
    BY <1>5, <1>8 DEF first, last
  <2> QED BY <2>3, <2>4
<1> QED BY <1>7, <1>8

\* A slug that is not empty is one token of a subject.
LEMMA SlugIsToken ==
  ASSUME NEW n \in Name, slugifyZoneName(Spelling[n]) # <<>>
  PROVE  IsToken(slugifyZoneName(Spelling[n]))
<1> DEFINE slug == slugifyZoneName(Spelling[n])
<1>1. /\ slug \in Seq(LegalCharacter)
      /\ \A c \in LegalCharacter : c \notin Illegal /\ c # "."
  BY SlugText, SpellingAssumption DEF LegalCharacter
<1> HIDE DEF slug
<1>2. slug # <<>>
  BY DEF slug
<1>3. 1 \in DOMAIN slug /\ Len(slug) \in DOMAIN slug
  BY <1>1, <1>2
<1>4. IsSubject(slug)
  BY <1>1, <1>2, <1>3 DEF IsSubject
<1> QED BY <1>1, <1>4 DEF IsToken, slug

\* Zones with different slugs have different names.
LEMMA NamesDiffer ==
  ASSUME ZoneTypeOK, BuiltInv
  PROVE  /\ \A k \in DOMAIN zones : zones[k].name \in Name
         /\ \A k, l \in DOMAIN zones : zones[k].name = zones[l].name => k = l
<1>1. \A k \in DOMAIN zones : zones[k].name \in Name
  <2>1. zones \in Seq([name : Name, slug : Slug])
    BY DEF ZoneTypeOK
  <2> DEFINE Z == [name : Name, slug : Slug]
  <2>2. \A k \in DOMAIN zones : zones[k] \in Z
    <3> HIDE DEF Z
    <3>1. zones \in Seq(Z)
      BY <2>1 DEF Z
    <3> QED BY <3>1
  <2> QED BY <2>2
<1>2. \A k \in DOMAIN zones : zones[k].slug = slugifyZoneName(Spelling[zones[k].name])
  BY DEF BuiltInv
<1>3. \A k, l \in DOMAIN zones : k # l => zones[k].slug # zones[l].slug
  BY DEF BuiltInv
<1> QED BY <1>1, <1>2, <1>3

\* contains sorts the names of the zones it hit, and no two are equal
\* (engine.go:149-159).
LEMMA ContainsSorts ==
  ASSUME ZoneTypeOK, BuiltInv, NEW hits \in SUBSET DOMAIN zones
  PROVE  /\ contains(hits) \in ZoneSets
         /\ Range(contains(hits)) = {zones[k].name : k \in hits}
<1> DEFINE n == Cardinality(hits)
           key == [k \in hits |-> zones[k].name]
           InOrder(o) == \A k, l \in DOMAIN o :
                            k < l => zones[o[k]].name <= zones[o[l]].name
           order == CHOOSE o \in Bijection(1..n, hits) : InOrder(o)
<1>1. IsFiniteSet(hits)
  <2>1. Len(zones) \in Nat /\ DOMAIN zones = 1..Len(zones)
    BY DEF ZoneTypeOK
  <2> QED BY <2>1, FiniteIndices
<1>2. \A k \in hits : zones[k].name \in Name /\ zones[k].name \in Nat
  BY NamesDiffer, NameAssumption
<1>3. key \in Injection(hits, Nat)
  BY <1>2, NamesDiffer DEF Injection, IsInjective
<1>4. n \in Nat /\ \E o \in Bijection(1..n, hits) : InOrder(o)
  <2>1. /\ Cardinality(hits) \in Nat
        /\ \E o \in [1..Cardinality(hits) -> hits] :
              /\ \A k, l \in 1..Cardinality(hits) : k < l => key[o[k]] < key[o[l]]
              /\ \A x \in hits : \E k \in 1..Cardinality(hits) : o[k] = x
    <3>. HIDE DEF key
    <3> QED BY <1>1, <1>3, ListedByKey
  <2>2. PICK o \in [1..n -> hits] :
              /\ \A k, l \in 1..n : k < l => key[o[k]] < key[o[l]]
              /\ \A x \in hits : \E k \in 1..n : o[k] = x
    BY <2>1
  <2>3. \A k \in 1..n : key[o[k]] = zones[o[k]].name /\ key[o[k]] \in Nat
    BY <1>2, <2>2
  <2>. HIDE DEF n, key
  <2>4. \A k, l \in 1..n : k < l => zones[o[k]].name < zones[o[l]].name
    BY <2>2, <2>3
  <2>5. \A k, l \in 1..n : o[k] = o[l] => k = l
    <3>1. SUFFICES ASSUME NEW k \in 1..n, NEW l \in 1..n, o[k] = o[l] PROVE k = l
      OBVIOUS
    <3>2. zones[o[k]].name \in Nat /\ zones[o[k]].name = zones[o[l]].name
      BY <2>3, <3>1
    <3>3. ~ (k < l) /\ ~ (l < k)
      BY <2>4, <3>2
    <3> QED BY <3>3
  <2>6. o \in Bijection(1..n, hits)
    BY <2>2, <2>5 DEF Bijection, Injection, Surjection, IsInjective
  <2>7. InOrder(o)
    BY <2>2, <2>3, <2>4
  <2> QED BY <2>1, <2>6, <2>7 DEF n
<1>5. contains(hits) = [k \in DOMAIN order |-> zones[order[k]].name]
  BY DEF contains
<1>6. order \in Bijection(1..n, hits) /\ InOrder(order)
  BY <1>4
<1>7. /\ order \in [1..n -> hits]
      /\ \A x \in hits : \E k \in 1..n : order[k] = x
      /\ \A k, l \in 1..n : order[k] = order[l] => k = l
  BY <1>6 DEF Bijection, Injection, Surjection, IsInjective
<1> HIDE DEF order, n
<1>8. contains(hits) = [k \in 1..n |-> zones[order[k]].name]
  BY <1>5, <1>7
<1>9. contains(hits) \in Seq(Name)
  BY <1>2, <1>4, <1>7, <1>8
<1>10. IsSorted(contains(hits))
  <2>1. SUFFICES ASSUME NEW k \in 1..n, NEW l \in 1..n, k < l
                 PROVE  zones[order[k]].name < zones[order[l]].name
    BY <1>8 DEF IsSorted
  <2>2. order[k] # order[l] /\ order[k] \in hits /\ order[l] \in hits
    BY <1>4, <1>7, <2>1
  <2>3. zones[order[k]].name # zones[order[l]].name
    BY <2>2, NamesDiffer
  <2>4. zones[order[k]].name <= zones[order[l]].name
    BY <1>6, <1>7, <2>1
  <2> QED BY <1>2, <2>2, <2>3, <2>4
<1>11. Range(contains(hits)) = {zones[k].name : k \in hits}
  BY <1>7, <1>8 DEF Range
<1> QED BY <1>9, <1>10, <1>11 DEF ZoneSets
-----------------------------------------------------------------------------
\* Before the first emit the variables of the merge satisfy its invariant.
LEMMA NothingMerged ==
  ASSUME prev = <<>>, next = <<>>, i = 1, j = 1, exits = <<>>, enters = <<>>, returned
  PROVE  DiffInv
<1>1. <<>> \in Seq(Name) /\ DOMAIN <<>> = {} /\ Len(<<>>) = 0
  OBVIOUS
<1>2. <<>> \in ZoneSets
  BY <1>1 DEF ZoneSets, IsSorted
<1>3. returned \in BOOLEAN
  BY <1>2
<1>4. Range(prev) = {} /\ Range(next) = {} /\ Range(exits) = {} /\ Range(enters) = {}
  BY <1>1 DEF Range
<1>5. DiffCorrect
  BY <1>1, <1>4 DEF DiffCorrect, IsSorted
<1> QED BY <1>1, <1>2, <1>5 DEF DiffInv, DiffTypeOK, MergeInv, BothLeft

\* Run calls Build with the configuration and nothing built.
LEMMA ZoneStart == ZoneInit => ZoneInv
<1> SUFFICES ASSUME ZoneInit PROVE ZoneInv
  OBVIOUS
<1>1. PICK n \in 1..MaxZones :
         config \in [zones : [1..n -> ZoneConfig], hysteresis : Knob, tagTTL : Knob]
  BY DEF ZoneInit
<1>2. config.zones \in Seq(ZoneConfig) /\ Len(config.zones) \in Nat
  <2>1. n \in Nat /\ config.zones \in [1..n -> ZoneConfig]
    BY <1>1, ZoneConfigAssumption
  <2> QED BY <2>1
<1>3. zones = <<>> /\ DOMAIN zones = {} /\ Len(zones) = 0
  BY DEF ZoneInit
<1>4. ZoneTypeOK
  BY <1>1, <1>2, <1>3 DEF ZoneInit, ZoneTypeOK
<1>5. BuiltInv
  BY <1>2, <1>3 DEF BuiltInv
<1>6. EmitInv /\ BuildDecides
  BY DEF ZoneInit, EmitInv, BuildDecides
<1>7. DiffInv
  BY NothingMerged DEF ZoneInit
<1> QED BY <1>4, <1>5, <1>6, <1>7 DEF ZoneInv

\* What BuildDecides calls a good configuration.
Good ==
    /\ KnobsValid
    /\ \A k \in DOMAIN config.zones :
          LET text == Spelling[config.zones[k].name]
          IN  config.zones[k].vertices >= 3 /\ slugifyZoneName(text) # <<>> /\ ~ Blank(text)
    /\ \A k, l \in DOMAIN config.zones :
          k # l => slugifyZoneName(Spelling[config.zones[k].name])
                     # slugifyZoneName(Spelling[config.zones[l].name])

\* Build refuses a negative knob, an entry that NewZone refuses and an entry
\* whose slug an earlier zone has: none of these is in a good configuration.
LEMMA RefusesOnlyBad == ASSUME ZoneInv, BuildRefuses PROVE ~ Good
<1> SUFFICES ASSUME Good, KnobsValid, More, ~ ZoneValid \/ SlugTaken PROVE FALSE
  BY DEF BuildRefuses, Good
<1> DEFINE here == Len(zones) + 1
<1>1. /\ Len(zones) \in Nat /\ Len(config.zones) \in Nat
      /\ DOMAIN zones = 1..Len(zones) /\ DOMAIN config.zones = 1..Len(config.zones)
  BY DEF ZoneInv, ZoneTypeOK
<1>2. here \in DOMAIN config.zones
  BY <1>1 DEF More
<1>3. ZoneValid
  BY <1>2 DEF Good, ZoneValid, Entry, EntryName, EntrySlug
<1>4. PICK k \in DOMAIN zones : zones[k].slug = EntrySlug
  BY <1>3 DEF SlugTaken
<1>5. zones[k].slug = slugifyZoneName(Spelling[config.zones[k].name])
  BY <1>4 DEF ZoneInv, BuiltInv
<1>6. k \in DOMAIN config.zones /\ k # here
  BY <1>1, <1>2, <1>4
<1> QED BY <1>2, <1>4, <1>5, <1>6 DEF Good, EntrySlug, EntryName, Entry

\* So the refusal keeps the invariant.
LEMMA RefuseStep == ASSUME ZoneInv, BuildRefuses PROVE ZoneInv'
<1>1. ZoneTypeOK' /\ BuiltInv' /\ EmitInv'
  BY DEF ZoneInv, ZoneTypeOK, BuiltInv, EmitInv, KnobsValid, BuildRefuses, configVars, vars
<1>2. DiffInv'
  BY MergeStep DEF ZoneInv, BuildRefuses
<1>3. BuildDecides'
  <2>1. ~ Good /\ config' = config /\ phase' = "refused"
    BY RefusesOnlyBad DEF BuildRefuses, configVars
  <2> QED BY <2>1 DEF BuildDecides, Good, KnobsValid
<1> QED BY <1>1, <1>2, <1>3 DEF ZoneInv

\* A zone is built from the next entry.
LEMMA BuildStep == ASSUME ZoneInv, BuildZone PROVE ZoneInv'
<1> DEFINE m == Len(zones)
           zone == [name |-> Entry.name, slug |-> EntrySlug]
           Z == [name : Name, slug : Slug]
<1>1. /\ m \in Nat /\ Len(config.zones) \in Nat /\ m < Len(config.zones)
      /\ DOMAIN zones = 1..m /\ DOMAIN config.zones = 1..Len(config.zones)
      /\ config.zones \in Seq(ZoneConfig) /\ zones \in Seq(Z)
  BY DEF ZoneInv, ZoneTypeOK, BuildZone, More
<1>2. Entry = config.zones[m + 1] /\ Entry \in ZoneConfig
  BY <1>1 DEF Entry
<1>3. zone \in Z
  <2>1. Entry.name \in Name
    BY <1>2, ZoneConfigAssumption
  <2>2. EntrySlug \in Slug
    BY <2>1 DEF Slug, EntrySlug, EntryName
  <2> QED BY <2>1, <2>2
<1> HIDE DEF Z
<1>4. /\ zones' = Append(zones, zone) /\ config' = config
      /\ zones' \in Seq(Z) /\ Len(zones') = m + 1 /\ DOMAIN zones' = 1..m + 1
      /\ \A k \in 1..m : zones'[k] = zones[k]
      /\ zones'[m + 1] = zone
  BY <1>1, <1>3 DEF BuildZone
<1> HIDE DEF m
<1>5. ZoneTypeOK'
  <2>1. left' \subseteq DOMAIN zones' /\ entered' \subseteq DOMAIN zones'
    BY <1>1, <1>4 DEF ZoneInv, ZoneTypeOK, BuildZone
  <2> QED BY <1>4, <2>1 DEF ZoneInv, ZoneTypeOK, BuildZone, Z
<1>6. BuiltInv'
  <2>1. Len(zones') <= Len(config.zones')
    BY <1>1, <1>4
  <2>2. KnobsValid'
    BY <1>4 DEF KnobsValid, BuildZone
  <2>3. ASSUME NEW k \in 1..m + 1
        PROVE  LET entry == config.zones[k]
                   text == Spelling[entry.name]
               IN  /\ zones'[k] = [name |-> entry.name, slug |-> slugifyZoneName(text)]
                   /\ zones'[k].slug # <<>> /\ ~ Blank(text) /\ entry.vertices >= 3
    <3>1. CASE k = m + 1
      <4>1. zones'[k] = zone /\ config.zones[k] = Entry
        BY <1>2, <1>4, <3>1
      <4>2. EntrySlug = slugifyZoneName(Spelling[Entry.name])
        BY DEF EntrySlug, EntryName
      <4>3. EntrySlug # <<>> /\ ~ Blank(Spelling[Entry.name]) /\ Entry.vertices >= 3
        BY DEF BuildZone, ZoneValid, EntryName
      <4>4. zones'[k].slug = EntrySlug
        BY <4>1
      <4> QED BY <4>1, <4>2, <4>3, <4>4
    <3>2. CASE k # m + 1
      <4>1. k \in DOMAIN zones /\ zones'[k] = zones[k]
        BY <1>1, <1>4, <3>2
      <4> QED BY <4>1 DEF ZoneInv, BuiltInv
    <3> QED BY <3>1, <3>2
  <2>4. ASSUME NEW k \in 1..m + 1, NEW l \in 1..m + 1, k < l
        PROVE  zones'[k].slug # zones'[l].slug
    <3>1. k \in DOMAIN zones /\ zones'[k] = zones[k]
      BY <1>1, <1>4, <2>4
    <3>2. CASE l = m + 1
      <4>1. zones'[l].slug = EntrySlug
        BY <1>4, <3>2
      <4> QED BY <3>1, <4>1 DEF BuildZone, SlugTaken
    <3>3. CASE l # m + 1
      <4>1. l \in DOMAIN zones /\ zones'[l] = zones[l] /\ k # l
        BY <1>1, <1>4, <2>4, <3>3
      <4> QED BY <3>1, <4>1 DEF ZoneInv, BuiltInv
    <3> QED BY <3>2, <3>3
  <2>5. \A k, l \in 1..m + 1 : k # l => zones'[k].slug # zones'[l].slug
    <3>1. \A k, l \in 1..m + 1 : k # l => k < l \/ l < k
      BY <1>1
    <3> QED BY <2>4, <3>1
  <2> QED BY <1>4, <2>1, <2>2, <2>3, <2>5 DEF BuiltInv
<1>7. EmitInv' /\ BuildDecides'
  BY DEF ZoneInv, EmitInv, BuildDecides, BuildZone, vars
<1>8. DiffInv'
  BY MergeStep DEF ZoneInv, BuildZone
<1> QED BY <1>5, <1>6, <1>7, <1>8 DEF ZoneInv

\* Build returns when every entry has become a zone.
LEMMA ReturnsStep == ASSUME ZoneInv, BuildReturns PROVE ZoneInv'
<1>1. ZoneTypeOK' /\ BuiltInv' /\ EmitInv'
  BY DEF ZoneInv, ZoneTypeOK, BuiltInv, EmitInv, KnobsValid, BuildReturns, configVars, vars
<1>2. DiffInv'
  BY MergeStep DEF ZoneInv, BuildReturns
<1>3. Len(zones) = Len(config.zones) /\ DOMAIN zones = DOMAIN config.zones
  <2>1. /\ Len(zones) \in Nat /\ Len(config.zones) \in Nat
        /\ DOMAIN zones = 1..Len(zones) /\ DOMAIN config.zones = 1..Len(config.zones)
    BY DEF ZoneInv, ZoneTypeOK
  <2> QED BY <2>1 DEF ZoneInv, BuiltInv, BuildReturns, More
<1>4. Good
  <2>1. KnobsValid
    BY DEF BuildReturns
  <2>2. \A k \in DOMAIN zones :
           zones[k].slug = slugifyZoneName(Spelling[config.zones[k].name])
    BY DEF ZoneInv, BuiltInv
  <2>3. /\ \A k \in DOMAIN zones :
              /\ zones[k].slug # <<>> /\ config.zones[k].vertices >= 3
              /\ ~ Blank(Spelling[config.zones[k].name])
        /\ \A k, l \in DOMAIN zones : k # l => zones[k].slug # zones[l].slug
    BY DEF ZoneInv, BuiltInv
  <2> QED BY <1>3, <2>1, <2>2, <2>3 DEF Good
<1>5. BuildDecides'
  <2>1. config' = config /\ zones' = zones /\ phase' = "built"
    BY DEF BuildReturns, configVars
  <2> QED BY <1>3, <1>4, <2>1 DEF BuildDecides, Good, KnobsValid
<1> QED BY <1>1, <1>2, <1>5 DEF ZoneInv

\* emit is called with two sets of the built zones, and gives the merge their
\* sorted names (engine.go:161-168).
LEMMA EmitStep == ASSUME ZoneInv, Emit PROVE ZoneInv'
<1>1. left' \in SUBSET DOMAIN zones /\ entered' \in SUBSET DOMAIN zones
  BY DEF Emit
<1>2. /\ prev' \in ZoneSets /\ Range(prev') = {zones[k].name : k \in left'}
      /\ next' \in ZoneSets /\ Range(next') = {zones[k].name : k \in entered'}
  BY <1>1, ContainsSorts DEF Emit, ZoneInv
<1>3. ZoneTypeOK' /\ BuiltInv'
  BY <1>1 DEF ZoneInv, ZoneTypeOK, BuiltInv, KnobsValid, Emit
<1>4. EmitInv'
  BY <1>2 DEF EmitInv, Emit
<1>5. BuildDecides'
  BY DEF ZoneInv, BuildDecides, Emit
<1>6. DiffInv'
  <2>1. Init'
    BY <1>2 DEF ZoneInv, EmitInv, Emit, Init
  <2> QED BY <2>1, InitDiffInv, PTL
<1> QED BY <1>3, <1>4, <1>5, <1>6 DEF ZoneInv

\* The merge leaves its inputs and the zones alone, and does nothing before emit.
LEMMA MergingStep == ASSUME ZoneInv, DiffStep PROVE ZoneInv'
<1>1. DiffInv'
  BY MergeStep DEF ZoneInv, DiffStep
<1>2. phase = "emitting"
  <2>1. Next => ~ returned \/ BothLeft
    BY DEF Next, Same, Left, Entered, Return
  <2> QED BY <2>1 DEF ZoneInv, DiffInv, EmitInv, DiffStep
<1>3. prev' = prev /\ next' = next
  BY DEF DiffStep, Next, Same, Left, Entered, Return
<1>4. ZoneTypeOK' /\ BuiltInv' /\ EmitInv' /\ BuildDecides'
  BY <1>2, <1>3 DEF DiffStep, configVars, ZoneInv, ZoneTypeOK, BuiltInv, EmitInv,
       BuildDecides, KnobsValid
<1> QED BY <1>1, <1>4 DEF ZoneInv

\* The inductive invariant of building the zones and emitting one move, for
\* every configuration and all names.
THEOREM ZoneInvariant == ZoneSpec => []ZoneInv
<1>1. ZoneInv /\ [ZoneNext]_zvars => ZoneInv'
  <2> SUFFICES ASSUME ZoneInv, [ZoneNext]_zvars PROVE ZoneInv'
    OBVIOUS
  <2>1. CASE UNCHANGED zvars
    <3>1. DiffInv'
      BY <2>1, MergeStep DEF ZoneInv, zvars
    <3>2. ZoneTypeOK' /\ BuiltInv' /\ EmitInv' /\ BuildDecides'
      BY <2>1 DEF zvars, configVars, vars, ZoneInv, ZoneTypeOK, BuiltInv, EmitInv,
           BuildDecides, KnobsValid
    <3> QED BY <3>1, <3>2 DEF ZoneInv
  <2> QED
    BY <2>1, RefuseStep, BuildStep, ReturnsStep, EmitStep, MergingStep DEF ZoneNext
<1> QED BY ZoneStart, <1>1, PTL DEF ZoneSpec
\* Build accepts the good configurations and refuses the others
\* (geofence/config.go:51-77, geometry.go:51-61).
THEOREM BuildDecided == ZoneSpec => []BuildDecides
<1>1. ZoneInv => BuildDecides
  BY DEF ZoneInv
<1> QED BY <1>1, ZoneInvariant, PTL

\* emit gives the merge sorted names without duplicates, whatever the zones and
\* the points are (engine.go:149-168): what diffZoneSets asks of its caller.
THEOREM InputsSorted == ZoneSpec => []MergeInputsSorted
<1>1. ZoneInv => MergeInputsSorted
  BY DEF ZoneInv, DiffInv, DiffTypeOK, MergeInputsSorted
<1> QED BY <1>1, ZoneInvariant, PTL

\* And so the merge is right where it is used, not only by itself
\* (engine.go:161-222).
THEOREM MovesAreMerged == ZoneSpec => [](MergeInv /\ DiffCorrect)
<1>1. ZoneInv => MergeInv /\ DiffCorrect
  BY DEF ZoneInv, DiffInv
<1> QED BY <1>1, ZoneInvariant, PTL
-----------------------------------------------------------------------------
\* slugOf finds the zone of a name.
LEMMA SlugOfZone ==
  ASSUME ZoneTypeOK, BuiltInv, NEW k \in DOMAIN zones
  PROVE  slugOf(zones[k].name) = zones[k].slug
<1> DEFINE named == {l \in DOMAIN zones : zones[l].name = zones[k].name}
<1>1. named = {k}
  BY NamesDiffer
<1>2. k \in Nat
  BY DEF ZoneTypeOK
<1>3. Min({k}) = k
  BY <1>2 DEF Min
<1> QED BY <1>1, <1>3 DEF slugOf

\* A name stands in a sorted list once, or not at all.
LEMMA Places ==
  ASSUME NEW s \in ZoneSets, NEW m
  PROVE  /\ m \notin Range(s) => {n \in DOMAIN s : s[n] = m} = {}
         /\ m \in Range(s) => \E n \in DOMAIN s : {l \in DOMAIN s : s[l] = m} = {n}
<1>1. \A k, l \in DOMAIN s : s[k] = s[l] => k = l
  <2>1. SUFFICES ASSUME NEW k \in DOMAIN s, NEW l \in DOMAIN s, s[k] = s[l] PROVE k = l
    OBVIOUS
  <2>2. s \in Seq(Nat) /\ IsSorted(s)
    BY NamesAreNat DEF ZoneSets
  <2>3. s[k] \in Nat /\ k \in Nat /\ l \in Nat
    BY <2>2
  <2> QED BY <2>1, <2>2, <2>3 DEF IsSorted
<1>2. m \in Range(s) => \E n \in DOMAIN s : s[n] = m
  BY DEF Range
<1>3. m \notin Range(s) => \A n \in DOMAIN s : s[n] # m
  BY DEF Range
<1> QED BY <1>1, <1>2, <1>3

\* The name of a zone is among those of a set of zones if the zone is.
LEMMA NameAmong ==
  ASSUME ZoneTypeOK, BuiltInv, NEW k \in DOMAIN zones, NEW hits \in SUBSET DOMAIN zones
  PROVE  zones[k].name \in {zones[l].name : l \in hits} <=> k \in hits
  BY NamesDiffer

\* Every listed name is that of a built zone, so its subject has the slug of
\* that zone: the subjects with the slug of zone k are those of its name.
LEMMA SlugIffName ==
  ASSUME ZoneTypeOK, BuiltInv, NEW k \in DOMAIN zones,
         NEW m \in {zones[l].name : l \in DOMAIN zones}
  PROVE  slugOf(m) = zones[k].slug <=> m = zones[k].name
<1>1. PICK l \in DOMAIN zones : m = zones[l].name
  OBVIOUS
<1>2. slugOf(m) = zones[l].slug
  BY <1>1, SlugOfZone
<1>3. zones[l].slug = zones[k].slug => l = k
  BY DEF BuiltInv
<1> QED BY <1>1, <1>2, <1>3, SlugOfZone

\* The subjects with the slug of a zone stand at the places of its name among the
\* exits and behind them among the enters: one at most, and in one of the two.
LEMMA SubjectsTell == ZoneInv => SlugTellsZone
<1> SUFFICES ASSUME ZoneInv, phase = "emitting", returned, NEW k \in DOMAIN zones
             PROVE  LET mine == {n \in DOMAIN Subjects : Subjects[n][2] = zones[k].slug}
                    IN  /\ IsToken(zones[k].slug)
                        /\ Cardinality(mine) =
                              IF (k \in left) = (k \in entered) THEN 0 ELSE 1
                        /\ \A n \in mine :
                              Subjects[n][1] = IF k \in entered THEN "enter" ELSE "exit"
  BY DEF SlugTellsZone
<1> DEFINE name == zones[k].name
           mine == {n \in DOMAIN Subjects : Subjects[n][2] = zones[k].slug}
           out == {n \in DOMAIN exits : exits[n] = name}
           in == {n \in DOMAIN enters : enters[n] = name}
           a == Len(exits)
           b == Len(enters)
<1>1. ZoneTypeOK /\ BuiltInv /\ EmitInv /\ DiffTypeOK /\ DiffCorrect
  BY DEF ZoneInv, DiffInv
<1>2. IsToken(zones[k].slug)
  <2>1. zones[k].slug = slugifyZoneName(Spelling[name]) /\ zones[k].slug # <<>>
    BY <1>1 DEF BuiltInv
  <2> QED BY <1>1, <2>1, NamesDiffer, SlugIsToken
<1>3. /\ Range(exits) = {zones[l].name : l \in left} \ {zones[l].name : l \in entered}
      /\ Range(enters) = {zones[l].name : l \in entered} \ {zones[l].name : l \in left}
      /\ left \in SUBSET DOMAIN zones /\ entered \in SUBSET DOMAIN zones
  BY <1>1 DEF DiffCorrect, EmitInv, ZoneTypeOK
<1>4. /\ name \in Range(exits) <=> k \in left /\ k \notin entered
      /\ name \in Range(enters) <=> k \in entered /\ k \notin left
  <2>1. /\ name \in {zones[l].name : l \in left} <=> k \in left
        /\ name \in {zones[l].name : l \in entered} <=> k \in entered
    BY <1>1, <1>3, NameAmong
  <2> QED BY <1>3, <2>1
<1>5. a \in Nat /\ b \in Nat /\ DOMAIN exits = 1..a /\ DOMAIN enters = 1..b
  BY <1>1 DEF DiffTypeOK, ZoneSets
<1>6. /\ DOMAIN Subjects = 1..a + b
      /\ \A n \in 1..a : Subjects[n] = <<"exit", slugOf(exits[n])>>
      /\ \A n \in 1..b : Subjects[a + n] = <<"enter", slugOf(enters[n])>>
  <2> DEFINE outs == [n \in DOMAIN exits |-> <<"exit", slugOf(exits[n])>>]
             ins == [n \in DOMAIN enters |-> <<"enter", slugOf(enters[n])>>]
             S == {outs[n] : n \in 1..a} \cup {ins[n] : n \in 1..b}
  <2>1. outs \in Seq(S) /\ ins \in Seq(S) /\ Len(outs) = a /\ Len(ins) = b
    BY <1>5
  <2>2. /\ \A n \in 1..a : outs[n] = <<"exit", slugOf(exits[n])>>
        /\ \A n \in 1..b : ins[n] = <<"enter", slugOf(enters[n])>>
    BY <1>5
  <2>3. Subjects = outs \o ins
    BY DEF Subjects
  <2> HIDE DEF outs, ins, S, a, b
  <2>4. /\ DOMAIN (outs \o ins) = 1..a + b
        /\ \A n \in 1..a : (outs \o ins)[n] = outs[n]
        /\ \A n \in 1..b : (outs \o ins)[a + n] = ins[n]
    BY <1>5, <2>1
  <2> QED BY <2>2, <2>3, <2>4
<1>7. /\ \A n \in 1..a : slugOf(exits[n]) = zones[k].slug <=> exits[n] = name
      /\ \A n \in 1..b : slugOf(enters[n]) = zones[k].slug <=> enters[n] = name
  <2>1. \A n \in 1..a : exits[n] \in {zones[l].name : l \in DOMAIN zones}
    BY <1>3, <1>5 DEF Range
  <2>2. \A n \in 1..b : enters[n] \in {zones[l].name : l \in DOMAIN zones}
    BY <1>3, <1>5 DEF Range
  <2> QED BY <1>1, <2>1, <2>2, SlugIffName
<1>8. /\ name \notin Range(exits) => out = {}
      /\ name \in Range(exits) => \E n \in DOMAIN exits : out = {n}
      /\ name \notin Range(enters) => in = {}
      /\ name \in Range(enters) => \E n \in DOMAIN enters : in = {n}
  BY <1>1, Places DEF DiffTypeOK
<1> HIDE DEF a, b, name
<1>9. mine = out \cup {a + n : n \in in}
  <2>1. \A n \in 1..a : n \in mine <=> n \in out
    BY <1>5, <1>6, <1>7
  <2>2. \A n \in 1..b : a + n \in mine <=> n \in in
    BY <1>5, <1>6, <1>7
  <2>3. \A n \in 1..a + b : n \in 1..a \/ (n - a \in 1..b /\ n = a + (n - a))
    BY <1>5
  <2>4. mine \subseteq 1..a + b /\ out \subseteq 1..a /\ in \subseteq 1..b
    BY <1>5, <1>6
  <2>5. mine \subseteq out \cup {a + n : n \in in}
    <3> SUFFICES ASSUME NEW n \in mine PROVE n \in out \cup {a + l : l \in in}
      OBVIOUS
    <3> HIDE DEF mine, out, in
    <3> QED BY <2>1, <2>2, <2>3, <2>4
  <2>6. out \subseteq mine /\ {a + n : n \in in} \subseteq mine
    <3> HIDE DEF mine, out, in
    <3> QED BY <2>1, <2>2, <2>4
  <2> QED BY <2>5, <2>6
<1>10. /\ \A n \in out : Subjects[n][1] = "exit"
       /\ \A n \in in : Subjects[a + n][1] = "enter"
  BY <1>5, <1>6
<1>11. CASE k \in left /\ k \notin entered
  <2>1. in = {} /\ \E n \in DOMAIN exits : out = {n}
    BY <1>4, <1>8, <1>11
  <2>2. PICK n \in DOMAIN exits : mine = {n} /\ out = {n}
    BY <1>9, <2>1
  <2>3. Cardinality({n}) = 1
    BY FS_Singleton
  <2> QED BY <1>2, <1>10, <1>11, <2>2, <2>3
<1>12. CASE k \in entered /\ k \notin left
  <2>1. out = {} /\ \E n \in DOMAIN enters : in = {n}
    BY <1>4, <1>8, <1>12
  <2>2. PICK n \in DOMAIN enters : mine = {a + n} /\ in = {n}
    BY <1>9, <2>1
  <2>3. Cardinality({a + n}) = 1
    BY FS_Singleton
  <2> QED BY <1>2, <1>10, <1>12, <2>2, <2>3
<1>13. CASE (k \in left) = (k \in entered)
  <2>1. mine = {}
    BY <1>4, <1>8, <1>9, <1>13
  <2>2. Cardinality({}) = 0
    BY FS_EmptySet
  <2> QED BY <1>2, <1>13, <2>1, <2>2
<1> QED BY <1>11, <1>12, <1>13

\* Whoever subscribes to the slug of a zone gets one event when it is entered or
\* left, of the right kind, none of any other zone, and the slug is one legal
\* token of the subject (README.md:200-217, engine.go:161-240).
THEOREM SlugsTell == ZoneSpec => []SlugTellsZone
  BY SubjectsTell, ZoneInvariant, PTL
=============================================================================

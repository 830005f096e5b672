------------------------- MODULE GeofenceEngineProofs -------------------------
(***************************************************************************)
(* Proofs about GeofenceEngine, for every set of tags and zones and every  *)
(* hysteresis, TTL, sweep period and behaviour of the clock.               *)
(***************************************************************************)
EXTENDS GeofenceEngine, ListingProofs, FiniteSetTheorems, FunctionTheorems, TLAPS

\* The threshold the engine compares with is at least one (engine.go:72-74).
LEMMA ThresholdPositive == Threshold \in Nat /\ Threshold >= 1
  BY ParameterAssumption DEF Threshold

\* NewEngine's tagState{} is a tag state, and has no vote.
LEMMA NewTagOK == NewTag \in TagState /\ VoteInv(NewTag)
  BY ThresholdPositive, ParameterAssumption DEF NewTag, TagState, VoteInv

\* One observation keeps a tag state well formed (engine.go:104-124).
LEMMA ObservedOK ==
  ASSUME NEW st \in TagState, VoteInv(st),
         NEW proposed \in Placement, NEW now \in 0..MaxClock
  PROVE  /\ Observed(st, proposed, now) \in TagState
         /\ VoteInv(Observed(st, proposed, now))
         /\ Observed(st, proposed, now).lastSeen = now
<1> DEFINE v == Vote(st, proposed)
<1>1. proposed \subseteq Zone
  BY ZoneAssumption
<1>2. /\ v.candidate \in SUBSET Zone
      /\ v.count \in Nat
      /\ v.candidate # {} => v.count >= 1
      /\ v.count >= 1 => v.candidate # st.committed
      /\ v.count > 1 => v.candidate # {}
  <2>1. CASE proposed = st.committed
    BY <2>1 DEF Vote
  <2>2. CASE proposed # st.committed /\ (st.pending = {} \/ proposed # st.pending)
    BY <2>2, <1>1 DEF Vote
  <2>3. CASE proposed # st.committed /\ ~ (st.pending = {} \/ proposed # st.pending)
    BY <2>3, <1>1 DEF Vote, VoteInv, TagState
  <2> QED
    BY <2>1, <2>2, <2>3
<1>3. CASE Commits(st, proposed)
  BY <1>1, <1>3, ThresholdPositive DEF Observed, TagState, VoteInv
<1>4. CASE ~ Commits(st, proposed)
  BY <1>2, <1>4, ThresholdPositive DEF Observed, TagState, VoteInv, Commits
<1> QED
  BY <1>3, <1>4

\* The engine's state is well typed and every tag's vote consistent in the
\* initial state (engine.go:71-84).
LEMMA EngineInit == Init => EngineInv
  BY ParameterAssumption
  DEF Init, EngineInv, StateTypeOK, VotesInv, CounterInv, Tracked

\* What OnPosition does to the tag map, whether or not it sweeps: the tags
\* left are tags it had or the caller, and only the caller's state changed
\* (engine.go:96-130).
LEMMA OnPositionTags ==
  ASSUME EngineInv,
         NEW serial \in Serial, NEW proposed \in Placement,
         OnPosition(serial, proposed)
  PROVE  /\ Tracked' \subseteq Tracked \cup {serial}
         /\ serial \in Tracked'
         /\ tags' = [s \in Tracked' |->
                        IF s = serial
                        THEN Observed(StateOf(serial), proposed, clock)
                        ELSE tags[s]]
         /\ \A s \in (Tracked \cup {serial}) \ Tracked' :
                SweepDue /\ s # serial /\ Stale(tags[s], clock)
         /\ SweepDue => \A s \in Tracked' : ~ Stale(tags'[s], clock)
<1> DEFINE updated == [s \in Tracked \cup {serial} |->
                         IF s = serial
                         THEN Observed(StateOf(serial), proposed, clock)
                         ELSE tags[s]]
<1>1. StateOf(serial) \in TagState /\ VoteInv(StateOf(serial))
  BY NewTagOK DEF StateOf, EngineInv, StateTypeOK, VotesInv
<1>2. /\ Observed(StateOf(serial), proposed, clock).lastSeen = clock
      /\ clock \in Nat
  BY <1>1, ObservedOK, ParameterAssumption DEF EngineInv, StateTypeOK
<1>3. ~ Stale(updated[serial], clock)
  BY <1>2, ParameterAssumption DEF Stale
<1>4. tags' = IF SweepDue THEN pruneStale(updated, clock) ELSE updated
  BY DEF OnPosition
<1>5. CASE SweepDue
  <2> DEFINE fresh == {s \in Tracked \cup {serial} : ~ Stale(updated[s], clock)}
  <2>1. tags' = [s \in fresh |-> updated[s]]
    BY <1>4, <1>5 DEF pruneStale, Restrict
  <2>2. Tracked' = fresh
    BY <2>1 DEF Tracked
  <2> HIDE DEF updated
  <2>3. serial \in fresh
    BY <1>3
  <2> USE DEF updated
  <2> QED
    BY <1>5, <2>1, <2>2, <2>3, Zenon
<1>6. CASE ~ SweepDue
  <2>1. Tracked' = Tracked \cup {serial}
    BY <1>4, <1>6 DEF Tracked
  <2> QED
    BY <1>4, <1>6, <2>1
<1> QED
  BY <1>5, <1>6

\* Every step of the engine keeps the invariant: one case per action
\* (engine.go:92-147).
LEMMA EngineStep == EngineInv /\ [Next]_vars => EngineInv'
<1> SUFFICES ASSUME EngineInv, [Next]_vars PROVE EngineInv'
  OBVIOUS
<1>1. ASSUME NEW serial \in Serial, NEW proposed \in Placement,
             OnPosition(serial, proposed)
      PROVE  EngineInv'
  <2>1. StateOf(serial) \in TagState /\ VoteInv(StateOf(serial))
    BY NewTagOK DEF StateOf, EngineInv, StateTypeOK, VotesInv
  <2>2. clock \in 0..MaxClock /\ clock' = clock
    BY <1>1 DEF EngineInv, StateTypeOK, OnPosition
  <2> DEFINE new == Observed(StateOf(serial), proposed, clock)
  <2>3. new \in TagState /\ VoteInv(new)
    BY <2>1, <2>2, ObservedOK
  <2>4. /\ Tracked' \subseteq Tracked \cup {serial}
        /\ tags' = [s \in Tracked' |-> IF s = serial THEN new ELSE tags[s]]
    BY <1>1, OnPositionTags
  <2>5. cleanupCounter' \in 0..CleanupEvery /\ CounterInv'
    BY <1>1, ParameterAssumption
    DEF OnPosition, SweepDue, NextCount, EngineInv, StateTypeOK, CounterInv
  <2> HIDE DEF new
  <2>6. StateTypeOK'
    <3>1. \A s \in Tracked' : tags'[s] \in TagState
      BY <2>3, <2>4 DEF EngineInv, StateTypeOK
    <3>2. tags' \in [Tracked' -> TagState']
      BY <2>4, <3>1 DEF TagState
    <3> QED
      BY <2>2, <2>4, <2>5, <3>2 DEF EngineInv, StateTypeOK
  <2>7. VotesInv'
    <3> SUFFICES ASSUME NEW s \in Tracked' PROVE VoteInv(tags'[s])
      BY DEF VotesInv, VoteInv
    <3> QED
      BY <2>3, <2>4 DEF EngineInv, VotesInv
  <2> QED
    BY <2>5, <2>6, <2>7 DEF EngineInv
<1>2. CASE Tick
  BY <1>2, ParameterAssumption
  DEF Tick, EngineInv, StateTypeOK, VotesInv, VoteInv, CounterInv, Tracked, TagState
<1>3. CASE ClockStepsBack
  BY <1>3, ParameterAssumption
  DEF ClockStepsBack, EngineInv, StateTypeOK, VotesInv, VoteInv, CounterInv, Tracked,
      TagState
<1>4. CASE UNCHANGED vars
  BY <1>4
  DEF vars, EngineInv, StateTypeOK, VotesInv, VoteInv, CounterInv, Tracked, TagState
<1> QED
  BY <1>1, <1>2, <1>3, <1>4 DEF Next

\* In every run of the engine, with any tags, zones and parameters, the state
\* has its types, no vote rests at the threshold, a vote is always for another
\* set than the committed one, the unnamed candidate never has a second vote,
\* and the sweep counter never rests at its limit (engine.go:92-147).
THEOREM EngineInvariant == Spec => []EngineInv
  BY EngineInit, EngineStep, PTL DEF Spec
-----------------------------------------------------------------------------
\* With a threshold above one, a tag that is inside some zone never becomes a
\* tag that is outside all of them: whatever positions it reports, its
\* committed set is replaced by another set of zones or its state is dropped.
\* The exit that README.md:191-192 promises does not happen (engine.go:110).
THEOREM EmptySetNeverCommitted ==
  Spec => [][Threshold > 1 =>
                \A s \in Tracked \cap Tracked' :
                    tags[s].committed # {} => tags'[s].committed # {}]_vars
<1>1. ASSUME EngineInv, [Next]_vars, Threshold > 1,
             NEW s \in Tracked \cap Tracked', tags[s].committed # {}
      PROVE  tags'[s].committed # {}
  <2>1. ASSUME NEW serial \in Serial, NEW proposed \in Placement,
               OnPosition(serial, proposed)
        PROVE  tags'[s].committed # {}
    <3>1. tags'[s] = IF s = serial THEN Observed(tags[s], proposed, clock)
                                   ELSE tags[s]
      BY <2>1, <1>1, OnPositionTags DEF StateOf
    <3>2. CASE s = serial /\ proposed = {}
      <4>1. Vote(tags[s], proposed).count \in {0, 1}
        BY <1>1, <3>2 DEF Vote, EngineInv, VotesInv, VoteInv
      <4>2. ~ Commits(tags[s], proposed)
        BY <1>1, <4>1, ThresholdPositive DEF Commits
      <4> QED
        BY <1>1, <3>1, <3>2, <4>2 DEF Observed
    <3>3. CASE s = serial /\ proposed # {}
      BY <1>1, <3>1, <3>3 DEF Observed
    <3> QED
      BY <1>1, <3>1, <3>2, <3>3
  <2>2. CASE Tick \/ ClockStepsBack \/ UNCHANGED vars
    BY <1>1, <2>2 DEF Tick, ClockStepsBack, vars
  <2> QED
    BY <1>1, <2>1, <2>2 DEF Next
<1>2. EngineInv /\ [Next]_vars =>
        [Threshold > 1 =>
            \A s \in Tracked \cap Tracked' :
                tags[s].committed # {} => tags'[s].committed # {}]_vars
  BY <1>1
<1> QED
  BY <1>2, EngineInvariant, PTL DEF Spec
-----------------------------------------------------------------------------
(***************************************************************************)
(* The events of a transition, and what replaying events gives.            *)
(***************************************************************************)
\* A finite set of numbers has one increasing listing, which is its Sorted.
LEMMA SortedLists ==
  ASSUME NEW S \in SUBSET Nat, IsFiniteSet(S)
  PROVE  /\ Cardinality(S) \in Nat
         /\ Sorted(S) \in [1..Cardinality(S) -> S]
         /\ \A i, j \in 1..Cardinality(S) : i < j => Sorted(S)[i] < Sorted(S)[j]
         /\ \A x \in S : \E i \in 1..Cardinality(S) : Sorted(S)[i] = x
<1> DEFINE n == Cardinality(S)
           key == [x \in S |-> x]
<1>1. key \in Injection(S, Nat)
  BY DEF Injection, IsInjective
<1>2. /\ n \in Nat
      /\ \E list \in [1..n -> S] : \A i, j \in 1..n : i < j => list[i] < list[j]
  <2>1. /\ Cardinality(S) \in Nat
        /\ \E list \in [1..Cardinality(S) -> S] :
              \A i, j \in 1..Cardinality(S) : i < j => key[list[i]] < key[list[j]]
    <3>. HIDE DEF key
    <3> QED BY <1>1, ListedByKey
  <2>2. \A list \in [1..n -> S], i \in 1..n : key[list[i]] = list[i]
    OBVIOUS
  <2> QED BY <2>1, <2>2
<1>3. /\ Sorted(S) \in [1..n -> S]
      /\ \A i, j \in DOMAIN Sorted(S) : i < j => Sorted(S)[i] < Sorted(S)[j]
  <2>1. PICK list \in [1..n -> S] : \A i, j \in 1..n : i < j => list[i] < list[j]
    BY <1>2
  <2> QED BY <2>1 DEF Sorted
<1>4. \A x \in S : \E i \in 1..n : Sorted(S)[i] = x
  <2>1. \A i, j \in 1..n : Sorted(S)[i] = Sorted(S)[j] => i = j
    <3> SUFFICES ASSUME NEW i \in 1..n, NEW j \in 1..n, Sorted(S)[i] = Sorted(S)[j]
                 PROVE  i = j
      OBVIOUS
    <3>1. Sorted(S)[i] \in Nat
      BY <1>3
    <3> QED BY <1>2, <1>3, <3>1
  <2>2. Sorted(S) \in Injection(1..n, S)
    BY <1>3, <2>1, Fun_IsInj
  <2>3. Sorted(S) \in Surjection(1..n, S)
    <3>1. IsFiniteSet(1..n) /\ Cardinality(1..n) = n
      BY <1>2, FS_Interval
    <3> QED BY <2>2, <3>1, FS_Injection
  <2> QED BY <2>3 DEF Surjection
<1> QED BY <1>2, <1>3, <1>4

\* The events of one side of a transition, one for each of its zones.
LEMMA EventsListed ==
  ASSUME NEW S \in SUBSET Zone, NEW type, NEW tag, NEW next
  PROVE  LET es == Events(type, tag, Sorted(S), next)
         IN  /\ es \in Seq([type : {type}, tag : {tag}, zone : S, inZones : {next}])
             /\ \A z \in S : \E k \in DOMAIN es : es[k].zone = z
             /\ \A k, l \in DOMAIN es : es[k].zone = es[l].zone => k = l
<1> DEFINE n == Cardinality(S)
           list == Sorted(S)
           es == Events(type, tag, list, next)
<1>1. S \in SUBSET Nat /\ IsFiniteSet(S)
  BY ZoneAssumption, FS_Subset
<1>2. /\ n \in Nat /\ list \in [1..n -> S]
      /\ \A i, j \in 1..n : i < j => list[i] < list[j]
      /\ \A x \in S : \E i \in 1..n : list[i] = x
  BY <1>1, SortedLists
<1> HIDE DEF n, list
<1>3. es = [i \in 1..n |->
              [type |-> type, tag |-> tag, zone |-> list[i], inZones |-> next]]
  BY <1>2 DEF Events
<1>4. es \in Seq([type : {type}, tag : {tag}, zone : S, inZones : {next}])
  BY <1>2, <1>3
<1>5. \A k, l \in 1..n : list[k] = list[l] => k = l
  <2> SUFFICES ASSUME NEW k \in 1..n, NEW l \in 1..n, list[k] = list[l] PROVE k = l
    OBVIOUS
  <2>1. list[k] \in Nat
    BY <1>1, <1>2
  <2> QED BY <1>2, <2>1
<1>6. DOMAIN es = 1..n /\ \A k \in 1..n : es[k].zone = list[k]
  BY <1>3
<1> HIDE DEF es
<1>7. /\ \A z \in S : \E k \in DOMAIN es : es[k].zone = z
      /\ \A k, l \in DOMAIN es : es[k].zone = es[l].zone => k = l
  BY <1>2, <1>5, <1>6
<1> QED BY <1>4, <1>7 DEF es, list

\* The events of a transition: an exit for each zone left, then an enter for
\* each zone entered, all with the new zones in them (engine.go:161-200).
LEMMA TransitionEvents ==
  ASSUME NEW prev \in SUBSET Zone, NEW next \in SUBSET Zone, NEW tag
  PROVE  LET es == emit(tag, prev, next)
         IN  /\ es \in Seq([type : {"enter", "exit"}, tag : {tag}, zone : Zone,
                             inZones : {next}])
             /\ \A k \in DOMAIN es : es[k].type = "exit" => es[k].zone \in prev \ next
             /\ \A k \in DOMAIN es : es[k].type = "enter" => es[k].zone \in next \ prev
             /\ \A z \in (prev \ next) \cup (next \ prev) :
                   \E k \in DOMAIN es : es[k].zone = z
             /\ \A k, l \in DOMAIN es : es[k].zone = es[l].zone => k = l
             /\ \A k, l \in DOMAIN es : k < l /\ es[l].type = "exit" => es[k].type = "exit"
<1> DEFINE outs == Events("exit", tag, Sorted(prev \ next), next)
           ins == Events("enter", tag, Sorted(next \ prev), next)
           es == emit(tag, prev, next)
           Rec == [type : {"enter", "exit"}, tag : {tag}, zone : Zone, inZones : {next}]
           Out == [type : {"exit"}, tag : {tag}, zone : prev \ next, inZones : {next}]
           In == [type : {"enter"}, tag : {tag}, zone : next \ prev, inZones : {next}]
<1>1. es = outs \o ins
  BY DEF emit, diffZoneSets
<1>2. /\ outs \in Seq(Out)
      /\ \A z \in prev \ next : \E k \in DOMAIN outs : outs[k].zone = z
      /\ \A k, l \in DOMAIN outs : outs[k].zone = outs[l].zone => k = l
  <2>1. prev \ next \in SUBSET Zone
    OBVIOUS
  <2> QED BY <2>1, EventsListed
<1>3. /\ ins \in Seq(In)
      /\ \A z \in next \ prev : \E k \in DOMAIN ins : ins[k].zone = z
      /\ \A k, l \in DOMAIN ins : ins[k].zone = ins[l].zone => k = l
  <2>1. next \ prev \in SUBSET Zone
    OBVIOUS
  <2> QED BY <2>1, EventsListed
<1> HIDE DEF outs, ins, es
<1>4. /\ Len(outs) \in Nat /\ Len(ins) \in Nat
      /\ DOMAIN outs = 1..Len(outs) /\ DOMAIN ins = 1..Len(ins)
      /\ outs \in Seq(Rec) /\ ins \in Seq(Rec)
      /\ \A k \in DOMAIN outs : outs[k].type = "exit" /\ outs[k].zone \in prev \ next
      /\ \A k \in DOMAIN ins : ins[k].type = "enter" /\ ins[k].zone \in next \ prev
  <2>1. /\ Len(outs) \in Nat /\ DOMAIN outs = 1..Len(outs)
        /\ \A k \in DOMAIN outs : /\ outs[k] \in Rec /\ outs[k].type = "exit"
                                  /\ outs[k].zone \in prev \ next
    <3> HIDE DEF Out, In
    <3>1. /\ Len(outs) \in Nat /\ DOMAIN outs = 1..Len(outs)
          /\ \A k \in DOMAIN outs : outs[k] \in Out
      BY <1>2
    <3> USE DEF Out
    <3> QED BY <3>1
  <2>2. /\ Len(ins) \in Nat /\ DOMAIN ins = 1..Len(ins)
        /\ \A k \in DOMAIN ins : /\ ins[k] \in Rec /\ ins[k].type = "enter"
                                 /\ ins[k].zone \in next \ prev
    <3> HIDE DEF Out, In
    <3>1. /\ Len(ins) \in Nat /\ DOMAIN ins = 1..Len(ins)
          /\ \A k \in DOMAIN ins : ins[k] \in In
      BY <1>3
    <3> USE DEF In
    <3> QED BY <3>1
  <2> HIDE DEF Rec
  <2>3. outs = [k \in 1..Len(outs) |-> outs[k]] /\ ins = [k \in 1..Len(ins) |-> ins[k]]
    BY <1>2, <1>3
  <2>4. outs \in Seq(Rec) /\ ins \in Seq(Rec)
    BY <2>1, <2>2, <2>3
  <2> QED BY <2>1, <2>2, <2>4
<1> HIDE DEF Rec
<1>5. /\ es \in Seq(Rec) /\ DOMAIN es = 1..Len(outs) + Len(ins)
      /\ \A k \in 1..Len(outs) : es[k] = outs[k]
      /\ \A k \in 1..Len(ins) : es[Len(outs) + k] = ins[k]
  BY <1>1, <1>4
<1>6. \A k \in DOMAIN es :
         \/ k \in 1..Len(outs) /\ es[k] = outs[k]
         \/ k - Len(outs) \in 1..Len(ins) /\ es[k] = ins[k - Len(outs)]
  BY <1>1, <1>4
<1>7. /\ \A k \in DOMAIN es : es[k].type = "exit" => es[k].zone \in prev \ next
      /\ \A k \in DOMAIN es : es[k].type = "enter" => es[k].zone \in next \ prev
  BY <1>4, <1>6
<1>8. \A z \in (prev \ next) \cup (next \ prev) : \E k \in DOMAIN es : es[k].zone = z
  <2>1. ASSUME NEW z \in prev \ next PROVE \E k \in DOMAIN es : es[k].zone = z
    <3>1. PICK k \in 1..Len(outs) : outs[k].zone = z
      BY <1>2, <1>4
    <3> QED BY <1>4, <1>5, <3>1
  <2>2. ASSUME NEW z \in next \ prev PROVE \E k \in DOMAIN es : es[k].zone = z
    <3>1. PICK k \in 1..Len(ins) : ins[k].zone = z
      BY <1>3, <1>4
    <3>2. Len(outs) + k \in DOMAIN es
      BY <1>4, <1>5
    <3> QED BY <1>5, <3>1, <3>2
  <2> QED BY <2>1, <2>2
<1>9. \A k, l \in DOMAIN es : es[k].zone = es[l].zone => k = l
  <2> SUFFICES ASSUME NEW k \in DOMAIN es, NEW l \in DOMAIN es, es[k].zone = es[l].zone
               PROVE  k = l
    OBVIOUS
  <2>1. CASE k \in 1..Len(outs) /\ l \in 1..Len(outs)
    <3>1. outs[k].zone = outs[l].zone
      BY <1>5, <2>1
    <3> QED BY <1>2, <1>4, <2>1, <3>1
  <2>2. CASE k \notin 1..Len(outs) /\ l \notin 1..Len(outs)
    <3>1. k - Len(outs) = l - Len(outs)
      BY <1>3, <1>4, <1>6, <2>2
    <3>2. k - Len(outs) \in 1..Len(ins) /\ l - Len(outs) \in 1..Len(ins)
      BY <1>6, <2>2
    <3>3. k \in Int /\ l \in Int /\ Len(outs) \in Int
      BY <1>4, <1>5
    <3> QED BY <3>1, <3>2, <3>3
  <2>3. CASE (k \in 1..Len(outs)) # (l \in 1..Len(outs))
    BY <1>4, <1>6, <2>3
  <2> QED BY <2>1, <2>2, <2>3
<1>10. \A k, l \in DOMAIN es : k < l /\ es[l].type = "exit" => es[k].type = "exit"
  <2> SUFFICES ASSUME NEW k \in DOMAIN es, NEW l \in DOMAIN es, k < l, es[l].type = "exit"
               PROVE  es[k].type = "exit"
    OBVIOUS
  <2>1. l \in 1..Len(outs)
    BY <1>4, <1>6
  <2>2. k \in 1..Len(outs)
    BY <1>4, <1>5, <2>1
  <2> QED BY <1>4, <1>5, <2>2
<1> QED BY <1>5, <1>7, <1>8, <1>9, <1>10 DEF es, Rec

\* Before the first event a subscriber has the tag where it had it.
LEMMA ReplayNone ==
  ASSUME NEW zones \in SUBSET Zone, NEW events, NEW tag
  PROVE  Replayed(zones, events, tag, 0) = zones
BY DEF Replayed

\* One event more adds its zone, takes it away, or is about another tag.
LEMMA ReplayOne ==
  ASSUME NEW zones \in SUBSET Zone, NEW events, NEW tag, NEW k \in Nat \ {0},
         events[k].zone \in Zone
  PROVE  Replayed(zones, events, tag, k) =
           LET before == Replayed(zones, events, tag, k - 1)
           IN  IF events[k].tag # tag THEN before
               ELSE IF events[k].type = "enter" THEN before \cup {events[k].zone}
                                                ELSE before \ {events[k].zone}
<1> DEFINE About(i, z) == events[i].tag = tag /\ events[i].zone = z
           Enters(z, n) == \E i \in 1..n :
                             /\ About(i, z) /\ events[i].type = "enter"
                             /\ \A later \in i + 1..n : ~ About(later, z)
           None(z, n) == \A i \in 1..n : ~ About(i, z)
<1>1. \A n : Replayed(zones, events, tag, n) =
                 {z \in Zone : (z \in zones /\ None(z, n)) \/ Enters(z, n)}
  BY DEF Replayed
<1>2. ASSUME NEW z \in Zone, ~ About(k, z)
      PROVE  (None(z, k) <=> None(z, k - 1)) /\ (Enters(z, k) <=> Enters(z, k - 1))
  <2>1. 1..k = (1..k - 1) \cup {k}
    OBVIOUS
  <2>2. \A i \in 1..k - 1 : i + 1..k = (i + 1..k - 1) \cup {k}
    OBVIOUS
  <2>3. k + 1..k = {}
    OBVIOUS
  <2> HIDE DEF About
  <2> QED BY <1>2, <2>1, <2>2, <2>3
<1>3. ASSUME NEW z \in Zone, About(k, z)
      PROVE  ~ None(z, k) /\ (Enters(z, k) <=> events[k].type = "enter")
  <2>1. k \in 1..k /\ k + 1..k = {}
    OBVIOUS
  <2>2. \A i \in 1..k : i # k => k \in i + 1..k
    OBVIOUS
  <2> HIDE DEF About
  <2> QED BY <1>3, <2>1, <2>2
<1> DEFINE now == Replayed(zones, events, tag, k)
           before == Replayed(zones, events, tag, k - 1)
<1> HIDE DEF None, Enters, now, before
<1>4. \A z \in Zone : ~ About(k, z) => (z \in now <=> z \in before)
  BY <1>1, <1>2 DEF now, before
<1>5. \A z \in Zone : About(k, z) => (z \in now <=> events[k].type = "enter")
  BY <1>1, <1>3 DEF now
<1>6. now \subseteq Zone /\ before \subseteq Zone
  BY <1>1 DEF now, before
<1>7. now = IF events[k].tag # tag THEN before
            ELSE IF events[k].type = "enter" THEN before \cup {events[k].zone}
                                             ELSE before \ {events[k].zone}
  BY <1>4, <1>5, <1>6
<1> QED BY <1>7 DEF now, before

\* Taking n events and then k more is taking n + k.
LEMMA ReplayMore ==
  ASSUME NEW zones \in SUBSET Zone, NEW events, NEW more, NEW tag,
         NEW n \in Nat, NEW k \in Nat, \A i \in 1..k : events[n + i] = more[i]
  PROVE  Replayed(zones, events, tag, n + k) =
           Replayed(Replayed(zones, events, tag, n), more, tag, k)
<1> DEFINE About(i, z) == events[i].tag = tag /\ events[i].zone = z
           Later(i, z) == more[i].tag = tag /\ more[i].zone = z
           Enters(z, m) == \E i \in 1..m :
                             /\ About(i, z) /\ events[i].type = "enter"
                             /\ \A later \in i + 1..m : ~ About(later, z)
           None(z, m) == \A i \in 1..m : ~ About(i, z)
           EntersLater(z) == \E i \in 1..k :
                              /\ Later(i, z) /\ more[i].type = "enter"
                              /\ \A later \in i + 1..k : ~ Later(later, z)
           NoneLater(z) == \A i \in 1..k : ~ Later(i, z)
<1>1. \A m : Replayed(zones, events, tag, m) =
                 {z \in Zone : (z \in zones /\ None(z, m)) \/ Enters(z, m)}
  BY DEF Replayed
<1>2. \A set : Replayed(set, more, tag, k) =
                 {z \in Zone : (z \in set /\ NoneLater(z)) \/ EntersLater(z)}
  BY DEF Replayed
<1>3. \A i \in 1..k, z \in Zone : About(n + i, z) <=> Later(i, z)
  OBVIOUS
<1>4. \A i \in 1..k : events[n + i].type = more[i].type
  OBVIOUS
<1>5. \A i \in 1..n + k : i \in 1..n \/ \E j \in 1..k : i = n + j
  <2> SUFFICES ASSUME NEW i \in 1..n + k, i \notin 1..n PROVE \E j \in 1..k : i = n + j
    OBVIOUS
  <2>1. i - n \in 1..k /\ i = n + (i - n)
    OBVIOUS
  <2> QED BY <2>1
<1>6. /\ \A i \in 1..n : i \in 1..n + k
      /\ \A j \in 1..k : n + j \in 1..n + k
      /\ \A i \in 1..n, j \in 1..k : n + j \in i + 1..n + k
      /\ \A j \in 1..k, l \in 1..k : n + l \in n + j + 1..n + k <=> l \in j + 1..k
      /\ \A i \in 1..n, l \in 1..n : l \in i + 1..n + k <=> l \in i + 1..n
      /\ \A i \in 1..n : \A l \in i + 1..n + k : l \in 1..n + k
      /\ \A i \in 1..n : \A l \in i + 1..n : l \in 1..n
      /\ \A j \in 1..k : \A l \in j + 1..k : l \in 1..k
      /\ \A j \in 1..k : \A l \in n + j + 1..n + k : \E m \in j + 1..k : l = n + m
  <2>1. ASSUME NEW j \in 1..k, NEW l \in n + j + 1..n + k
        PROVE \E m \in j + 1..k : l = n + m
    <3>1. l - n \in j + 1..k /\ l = n + (l - n)
      OBVIOUS
    <3> QED BY <3>1
  <2> QED BY <2>1
<1> HIDE DEF About, Later
<1>7. \A z \in Zone : None(z, n + k) <=> None(z, n) /\ NoneLater(z)
  BY <1>3, <1>5, <1>6
<1>8. ASSUME NEW z \in Zone
      PROVE  Enters(z, n + k) <=> EntersLater(z) \/ (Enters(z, n) /\ NoneLater(z))
  <2>1. ASSUME EntersLater(z) PROVE Enters(z, n + k)
    <3>1. PICK j \in 1..k : /\ Later(j, z) /\ more[j].type = "enter"
                            /\ \A later \in j + 1..k : ~ Later(later, z)
      BY <2>1
    <3>2. About(n + j, z) /\ events[n + j].type = "enter" /\ n + j \in 1..n + k
      BY <1>3, <1>4, <1>6, <3>1
    <3>3. \A later \in n + j + 1..n + k : ~ About(later, z)
      BY <1>3, <1>6, <3>1
    <3> QED BY <3>2, <3>3
  <2>2. ASSUME Enters(z, n), NoneLater(z) PROVE Enters(z, n + k)
    <3>1. PICK i \in 1..n : /\ About(i, z) /\ events[i].type = "enter"
                            /\ \A later \in i + 1..n : ~ About(later, z)
      BY <2>2
    <3>2. \A later \in i + 1..n + k : ~ About(later, z)
      BY <1>3, <1>5, <1>6, <2>2, <3>1
    <3> QED BY <1>6, <3>1, <3>2
  <2>3. ASSUME Enters(z, n + k), ~ EntersLater(z) PROVE Enters(z, n) /\ NoneLater(z)
    <3>1. PICK i \in 1..n + k : /\ About(i, z) /\ events[i].type = "enter"
                                /\ \A later \in i + 1..n + k : ~ About(later, z)
      BY <2>3
    <3>2. CASE i \in 1..n
      BY <1>3, <1>6, <3>1, <3>2
    <3>3. ASSUME NEW j \in 1..k, i = n + j PROVE FALSE
      <4>1. Later(j, z) /\ more[j].type = "enter"
        BY <1>3, <1>4, <3>1, <3>3
      <4>2. \A later \in j + 1..k : ~ Later(later, z)
        BY <1>3, <1>6, <3>1, <3>3
      <4> QED BY <2>3, <4>1, <4>2
    <3> QED BY <1>5, <3>2, <3>3
  <2> QED BY <2>1, <2>2, <2>3
<1> HIDE DEF None, NoneLater, Enters, EntersLater
<1> QED BY <1>1, <1>2, <1>7, <1>8

\* Replaying events that are about one tag leaves the others where they were.
LEMMA ReplayOthers ==
  ASSUME NEW zones \in SUBSET Zone, NEW events, NEW tag, NEW k \in Nat,
         \A i \in 1..k : events[i].tag # tag
  PROVE  Replayed(zones, events, tag, k) = zones
BY DEF Replayed

\* The zones a subscriber has tag in after one more event.
After(zones, ev, tag) ==
    CASE ev.tag # tag -> zones
      [] ev.tag = tag /\ ev.type = "enter" -> zones \cup {ev.zone}
      [] OTHER -> zones \ {ev.zone}

\* Taking an event first and the rest after it is taking them all.
LEMMA ReplayHead ==
  ASSUME NEW zones \in SUBSET Zone, NEW events, NEW rest, NEW tag, NEW k \in Nat,
         events[1].zone \in Zone, \A i \in 1..k : events[1 + i] = rest[i]
  PROVE  /\ After(zones, events[1], tag) \in SUBSET Zone
         /\ Replayed(zones, events, tag, k + 1) =
               Replayed(After(zones, events[1], tag), rest, tag, k)
<1> DEFINE taken == After(zones, events[1], tag)
<1>1. Replayed(zones, events, tag, 1) = taken
  <2>1. Replayed(zones, events, tag, 0) = zones
    BY ReplayNone
  <2>2. 1 \in Nat \ {0} /\ 1 - 1 = 0
    OBVIOUS
  <2>3. Replayed(zones, events, tag, 1) =
           LET before == Replayed(zones, events, tag, 1 - 1)
           IN  IF events[1].tag # tag THEN before
               ELSE IF events[1].type = "enter" THEN before \cup {events[1].zone}
                                                ELSE before \ {events[1].zone}
    BY <2>2, ReplayOne
  <2> QED BY <2>1, <2>2, <2>3 DEF After
<1>2. taken \in SUBSET Zone
  BY DEF After
<1> HIDE DEF taken
<1>3. 1 \in Nat /\ 1 + k = k + 1
  OBVIOUS
<1>4. Replayed(zones, events, tag, 1 + k) =
         Replayed(Replayed(zones, events, tag, 1), rest, tag, k)
  BY <1>3, ReplayMore
<1>5. taken \in SUBSET Zone /\ Replayed(zones, events, tag, k + 1) = Replayed(taken, rest, tag, k)
  BY <1>1, <1>2, <1>3, <1>4
<1> QED BY <1>5 DEF taken

\* Replaying a transition leads from the old zones to the new ones, on the way
\* through no others than theirs, and each event is news.
LEMMA ReplayTransition ==
  ASSUME NEW prev \in SUBSET Zone, NEW next \in SUBSET Zone, NEW tag
  PROVE  LET es == emit(tag, prev, next)
         IN  /\ Replayed(prev, es, tag, Len(es)) = next
             /\ \A k \in 0..Len(es) : \/ Replayed(prev, es, tag, k) \subseteq prev
                                      \/ Replayed(prev, es, tag, k) \subseteq next
             /\ \A k \in DOMAIN es :
                   (es[k].type = "enter")
                      <=> (es[k].zone \notin Replayed(prev, es, tag, k - 1))
<1> DEFINE es == emit(tag, prev, next)
           Rec == [type : {"enter", "exit"}, tag : {tag}, zone : Zone, inZones : {next}]
<1>1. /\ es \in Seq(Rec)
      /\ \A k \in DOMAIN es : es[k].type = "exit" => es[k].zone \in prev \ next
      /\ \A k \in DOMAIN es : es[k].type = "enter" => es[k].zone \in next \ prev
      /\ \A z \in (prev \ next) \cup (next \ prev) : \E k \in DOMAIN es : es[k].zone = z
      /\ \A k, l \in DOMAIN es : es[k].zone = es[l].zone => k = l
      /\ \A k, l \in DOMAIN es : k < l /\ es[l].type = "exit" => es[k].type = "exit"
  BY TransitionEvents
<1> HIDE DEF es
<1>2. /\ Len(es) \in Nat /\ DOMAIN es = 1..Len(es)
      /\ \A k \in 1..Len(es) : /\ es[k].tag = tag /\ es[k].zone \in Zone
                               /\ es[k].type \in {"enter", "exit"}
  <2>1. Len(es) \in Nat /\ DOMAIN es = 1..Len(es) /\ \A k \in 1..Len(es) : es[k] \in Rec
    <3> HIDE DEF Rec
    <3> QED BY <1>1
  <2> QED BY <2>1
<1> HIDE DEF Rec
<1>3. ASSUME NEW k \in 0..Len(es), NEW z \in Zone
      PROVE  z \in Replayed(prev, es, tag, k) <=>
                \/ z \in prev /\ \A i \in 1..k : es[i].zone # z
                \/ \E i \in 1..k : es[i].zone = z /\ es[i].type = "enter"
  <2>1. 1..k \subseteq 1..Len(es)
    BY <1>2
  <2>2. \A i \in 1..k : \A later \in i + 1..k : later \in 1..Len(es) /\ later # i
    BY <1>2
  <2>3. \A i \in 1..k : \A later \in i + 1..k : es[i].zone = z => es[later].zone # z
    BY <1>1, <1>2, <2>1, <2>2, Zenon
  <2> QED BY <1>2, <2>1, <2>2, <2>3 DEF Replayed
<1>4. \A k \in 0..Len(es) : Replayed(prev, es, tag, k) \subseteq Zone
  BY DEF Replayed
<1>5. Replayed(prev, es, tag, Len(es)) = next
  <2>1. Len(es) \in 0..Len(es)
    BY <1>2
  <2>2. ASSUME NEW z \in Zone PROVE z \in Replayed(prev, es, tag, Len(es)) <=> z \in next
    BY <1>1, <1>2, <1>3, <2>1
  <2> QED BY <1>4, <2>1, <2>2
<1>6. ASSUME NEW k \in 0..Len(es)
      PROVE  \/ Replayed(prev, es, tag, k) \subseteq prev
             \/ Replayed(prev, es, tag, k) \subseteq next
  <2>1. 1..k \subseteq 1..Len(es)
    BY <1>2
  <2>2. CASE \A i \in 1..k : es[i].type = "exit"
    <3>1. \A z \in Zone : z \in Replayed(prev, es, tag, k) => z \in prev
      BY <1>3, <2>2
    <3> QED BY <1>4, <3>1
  <2>3. CASE \E i \in 1..k : es[i].type # "exit"
    <3>1. PICK i \in 1..k : es[i].type = "enter"
      BY <1>2, <2>1, <2>3
    <3>2. \A l \in 1..Len(es) : es[l].type = "exit" => l \in 1..k
      <4>1. ASSUME NEW l \in 1..Len(es), l \notin 1..k, es[l].type = "exit" PROVE FALSE
        <5>1. i < l
          BY <1>2, <4>1
        <5> QED BY <1>1, <1>2, <2>1, <3>1, <4>1, <5>1
      <4> QED BY <4>1
    <3>3. ASSUME NEW z \in Zone, z \in Replayed(prev, es, tag, k) PROVE z \in next
      <4>1. CASE z \in prev /\ \A m \in 1..k : es[m].zone # z
        <5>1. ASSUME z \notin next PROVE FALSE
          <6>1. PICK m \in 1..Len(es) : es[m].zone = z
            BY <1>1, <1>2, <4>1, <5>1
          <6>2. es[m].type = "exit"
            BY <1>1, <1>2, <4>1, <6>1
          <6> QED BY <3>2, <4>1, <6>1, <6>2
        <5> QED BY <5>1
      <4>2. CASE \E m \in 1..k : es[m].zone = z /\ es[m].type = "enter"
        BY <1>1, <1>2, <2>1, <4>2
      <4> QED BY <1>3, <3>3, <4>1, <4>2
    <3> QED BY <1>4, <3>3
  <2> QED BY <2>2, <2>3
<1>7. ASSUME NEW k \in 1..Len(es)
      PROVE  (es[k].type = "enter") <=> (es[k].zone \notin Replayed(prev, es, tag, k - 1))
  <2>1. k - 1 \in 0..Len(es) /\ 1..k - 1 \subseteq 1..Len(es) /\ k \notin 1..k - 1
    BY <1>2
  <2>2. \A i \in 1..k - 1 : es[i].zone # es[k].zone
    BY <1>1, <1>2, <2>1
  <2>3. es[k].zone \in Replayed(prev, es, tag, k - 1) <=> es[k].zone \in prev
    BY <1>2, <1>3, <2>1, <2>2
  <2> QED BY <1>1, <1>2, <2>3
<1> QED BY <1>2, <1>5, <1>6, <1>7 DEF es

\* A step that drops no tag from inside a zone: what a subscriber may hope for,
\* as nothing is published about a tag that is dropped (engine.go:126-130, 143).
ForgetsOnlyOutside == \A s \in Tracked \ Tracked' : tags[s].committed = {}

\* With the sweep off no tag is dropped (engine.go:126-130).
LEMMA SweepOff ==
  ASSUME TagTTL = 0, [Next]_vars PROVE ForgetsOnlyOutside
<1>1. ASSUME NEW serial \in Serial, NEW proposed \in Placement, OnPosition(serial, proposed)
      PROVE  Tracked \subseteq Tracked'
  <2>1. tags' = [s \in Tracked \cup {serial} |->
                    IF s = serial THEN Observed(StateOf(serial), proposed, clock)
                                  ELSE tags[s]]
    BY <1>1 DEF OnPosition, SweepDue
  <2> QED BY <2>1 DEF Tracked
<1>2. CASE Tick \/ ClockStepsBack \/ UNCHANGED vars
  BY <1>2 DEF Tick, ClockStepsBack, vars, Tracked, ForgetsOnlyOutside
<1> QED BY <1>1, <1>2 DEF Next, ForgetsOnlyOutside

\* As long as no tag is dropped from inside a zone, the membership of a tag, if
\* only none, changes by its own observations alone (engine.go:96-130).
LEMMA MembershipKept ==
  ASSUME EngineInv, NEW serial \in Serial, NEW proposed \in Placement,
         OnPosition(serial, proposed), ForgetsOnlyOutside, NEW t \in Serial
  PROVE  StateOf(t)'.committed = IF t = serial
                                 THEN Observed(StateOf(serial), proposed, clock).committed
                                 ELSE StateOf(t).committed
<1>1. /\ Tracked' \subseteq Tracked \cup {serial} /\ serial \in Tracked'
      /\ tags' = [s \in Tracked' |-> IF s = serial
                                     THEN Observed(StateOf(serial), proposed, clock)
                                     ELSE tags[s]]
  BY OnPositionTags
<1>2. CASE t \in Tracked'
  BY <1>1, <1>2 DEF StateOf
<1>3. CASE t \notin Tracked'
  <2>1. t # serial /\ StateOf(t)'.committed = {}
    BY <1>1, <1>3 DEF StateOf, NewTag
  <2>2. StateOf(t).committed = {}
    BY <1>3 DEF StateOf, NewTag, ForgetsOnlyOutside
  <2> QED BY <2>1, <2>2
<1> QED BY <1>2, <1>3

\* What OnPosition hands to the sink when the committed set changes, and only
\* then (engine.go:116-124).
LEMMA PublishedEvents ==
  ASSUME EngineInv, NEW serial \in Serial, NEW proposed \in Placement,
         OnPosition(serial, proposed)
  PROVE  LET old == StateOf(serial).committed
             new == Observed(StateOf(serial), proposed, clock).committed
         IN  /\ old \in SUBSET Zone /\ new \in {old, proposed}
             /\ published' = IF new = old THEN <<>> ELSE emit(serial, old, new)
<1> DEFINE st == StateOf(serial)
<1>1. st \in TagState /\ VoteInv(st)
  BY NewTagOK DEF StateOf, EngineInv, StateTypeOK, VotesInv
<1>2. Commits(st, proposed) => proposed # st.committed
  BY ThresholdPositive DEF Commits, Vote
<1>3. Observed(st, proposed, clock).committed =
        IF Commits(st, proposed) THEN proposed ELSE st.committed
  BY DEF Observed
<1>4. published' = IF Commits(st, proposed)
                   THEN emit(serial, st.committed, proposed) ELSE <<>>
  BY DEF OnPosition
<1> HIDE DEF st
<1>5. st.committed \in SUBSET Zone
  BY <1>1 DEF TagState
<1> QED BY <1>2, <1>3, <1>4, <1>5 DEF st

\* A transition to other zones has events, about its tag and with its zones.
LEMMA TransitionRecords ==
  ASSUME NEW prev \in SUBSET Zone, NEW next \in SUBSET Zone, NEW tag \in Serial
  PROVE  LET es == emit(tag, prev, next)
         IN  /\ es \in Seq(EventRecord)
             /\ \A k \in DOMAIN es : es[k].tag = tag /\ es[k].inZones = next
             /\ prev # next => es # <<>>
<1> DEFINE es == emit(tag, prev, next)
           Rec == [type : {"enter", "exit"}, tag : {tag}, zone : Zone, inZones : {next}]
<1>1. /\ es \in Seq(Rec)
      /\ \A k \in DOMAIN es : es[k].type = "exit" => es[k].zone \in prev \ next
      /\ \A k \in DOMAIN es : es[k].type = "enter" => es[k].zone \in next \ prev
      /\ \A z \in (prev \ next) \cup (next \ prev) : \E k \in DOMAIN es : es[k].zone = z
      /\ \A k, l \in DOMAIN es : es[k].zone = es[l].zone => k = l
      /\ \A k, l \in DOMAIN es : k < l /\ es[l].type = "exit" => es[k].type = "exit"
  BY TransitionEvents
<1>2. Rec \subseteq EventRecord
  BY DEF EventRecord
<1>3. \A r \in Rec : r.tag = tag /\ r.inZones = next
  OBVIOUS
<1> HIDE DEF es, Rec
<1>4. es \in Seq(EventRecord) /\ \A k \in DOMAIN es : es[k] \in Rec
  BY <1>1, <1>2
<1>5. ASSUME prev # next PROVE es # <<>>
  <2>1. (prev \ next) \cup (next \ prev) # {}
    BY <1>5
  <2>2. DOMAIN es # {}
    BY <1>1, <2>1
  <2> QED BY <2>2
<1> QED BY <1>3, <1>4, <1>5 DEF es

\* The events handed to the sink are about the caller's tag, tell its new
\* zones, and replay to them.
LEMMA PublishedReplay ==
  ASSUME EngineInv, NEW serial \in Serial, NEW proposed \in Placement,
         OnPosition(serial, proposed)
  PROVE  LET old == StateOf(serial).committed
             new == Observed(StateOf(serial), proposed, clock).committed
             es == published'
         IN  /\ es \in Seq(EventRecord)
             /\ \A k \in DOMAIN es : es[k].tag = serial /\ es[k].inZones = new
             /\ es = <<>> => new = old
             /\ Replayed(old, es, serial, Len(es)) = new
             /\ \A k \in 0..Len(es) : \/ Replayed(old, es, serial, k) \subseteq old
                                      \/ Replayed(old, es, serial, k) \subseteq new
             /\ \A k \in DOMAIN es :
                   (es[k].type = "enter")
                      <=> (es[k].zone \notin Replayed(old, es, serial, k - 1))
<1> DEFINE old == StateOf(serial).committed
           new == Observed(StateOf(serial), proposed, clock).committed
           es == published'
<1>1. /\ old \in SUBSET Zone /\ new \in SUBSET Zone
      /\ es = IF new = old THEN <<>> ELSE emit(serial, old, new)
  BY PublishedEvents, ZoneAssumption
<1> HIDE DEF old, new
<1>2. CASE new = old
  <2>1. es = <<>> /\ Len(es) = 0 /\ DOMAIN es = {} /\ es \in Seq(EventRecord)
    BY <1>1, <1>2
  <2>2. Replayed(old, es, serial, 0) = old
    BY <1>1, ReplayNone
  <2>3. \A k \in 0..0 : k = 0
    OBVIOUS
  <2> QED BY <1>1, <1>2, <2>1, <2>2, <2>3 DEF old, new
<1>3. CASE new # old
  <2>1. es = emit(serial, old, new)
    BY <1>1, <1>3
  <2>2. /\ es \in Seq(EventRecord)
        /\ \A k \in DOMAIN es : es[k].tag = serial /\ es[k].inZones = new
        /\ es # <<>>
    BY <1>1, <1>3, <2>1, TransitionRecords
  <2>3. /\ Replayed(old, es, serial, Len(es)) = new
        /\ \A k \in 0..Len(es) : \/ Replayed(old, es, serial, k) \subseteq old
                                 \/ Replayed(old, es, serial, k) \subseteq new
        /\ \A k \in DOMAIN es :
              (es[k].type = "enter")
                 <=> (es[k].zone \notin Replayed(old, es, serial, k - 1))
    BY <1>1, <2>1, ReplayTransition
  <2> QED BY <2>2, <2>3 DEF old, new
<1> QED BY <1>2, <1>3

\* The types of the engine, the events of the last call included
\* (engine.go:40-60).
THEOREM EngineTyped == Spec => []TypeOK
<1>1. Init => published \in Seq(EventRecord)
  BY DEF Init
<1>2. EngineInv /\ published \in Seq(EventRecord) /\ [Next]_vars
        => (published \in Seq(EventRecord))'
  <2> SUFFICES ASSUME EngineInv, published \in Seq(EventRecord), [Next]_vars
               PROVE  published' \in Seq(EventRecord)
    BY DEF EventRecord
  <2>1. CASE \E serial \in Serial, proposed \in Placement : OnPosition(serial, proposed)
    BY <2>1, PublishedReplay
  <2>2. CASE Tick \/ ClockStepsBack \/ UNCHANGED vars
    BY <2>2 DEF Tick, ClockStepsBack, vars
  <2> QED BY <2>1, <2>2 DEF Next
<1>3. EngineInv /\ published \in Seq(EventRecord) => TypeOK
  BY DEF EngineInv, TypeOK
<1> QED BY <1>1, <1>2, <1>3, EngineInvariant, PTL DEF Spec
=============================================================================

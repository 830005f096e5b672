--------------------------- MODULE MembershipProofs ---------------------------
(***************************************************************************)
(* The engine implements StableMembership, and sweeps in time: proofs for  *)
(* every set of tags and zones, hysteresis, TTL and sweep period.  Then    *)
(* what a subscriber of the geofence events knows, for every set of tags   *)
(* and zones and every number of events in flight, as long as no tag is    *)
(* dropped from inside a zone: such a tag comes back without an event, and *)
(* then none of this holds (run consumer_forgotten).  With the sweep off   *)
(* that is always so (theorem NothingForgotten).                           *)
(***************************************************************************)
EXTENDS EngineHistory, GeofenceConsumer, GeofenceEngineProofs

\* The abstract specification knows the tags that the engine tracks.
LEMMA KnownTags == SM!Known = Tracked
  BY DEF SM!Known

\* One observation, seen from both sides: the engine's vote and the abstract
\* run agree on what is committed afterwards, and the vote left over is the
\* one the run determines (engine.go:104-124).
LEMMA VoteFollowsRun ==
  ASSUME HistoryInv, NEW serial \in Serial, NEW proposed \in Placement
  PROVE  LET r == SM!RunAfter(serial, proposed)
             o == Observed(StateOf(serial), proposed, clock)
         IN  /\ r \in [value : Placement, len : 1..Threshold]
             /\ r.value = proposed
             /\ o.committed = SM!MemberAfter(serial, proposed)
             /\ IF proposed = o.committed
                THEN o.pending = {} /\ o.pendingCount = 0
                ELSE /\ Threshold > 1
                     /\ o.pending = proposed
                     /\ o.pendingCount = IF proposed = {} THEN 1 ELSE r.len
<1> DEFINE r == SM!RunAfter(serial, proposed)
           o == Observed(StateOf(serial), proposed, clock)
           st == StateOf(serial)
           Goal == /\ r \in [value : Placement, len : 1..Threshold]
                   /\ r.value = proposed
                   /\ o.committed = SM!MemberAfter(serial, proposed)
                   /\ IF proposed = o.committed
                      THEN o.pending = {} /\ o.pendingCount = 0
                      ELSE /\ Threshold > 1
                           /\ o.pending = proposed
                           /\ o.pendingCount = IF proposed = {} THEN 1 ELSE r.len
<1> SUFFICES Goal
  OBVIOUS
<1>1. st \in TagState /\ VoteInv(st)
  BY NewTagOK DEF HistoryInv, StateOf, EngineInv, StateTypeOK, VotesInv
<1>2. serial \in Tracked => run[serial] \in [value : Placement, len : 1..Threshold]
  BY DEF HistoryInv, HistoryTypeOK
<1>3. r.value = proposed
  BY DEF SM!RunAfter
<1>4. r \in [value : Placement, len : 1..Threshold]
  BY <1>2, ThresholdPositive, KnownTags DEF SM!RunAfter, SM!Longer
<1>5. SM!MemberAfter(serial, proposed) =
        IF r.len >= Threshold /\ (proposed # {} \/ Threshold = 1)
        THEN proposed ELSE st.committed
  BY KnownTags DEF SM!MemberAfter, CommittableSets, StateOf, NewTag
<1>6. o = IF Commits(st, proposed)
          THEN [committed |-> proposed, pending |-> {}, pendingCount |-> 0,
                lastSeen |-> clock]
          ELSE [committed |-> st.committed,
                pending |-> Vote(st, proposed).candidate,
                pendingCount |-> Vote(st, proposed).count, lastSeen |-> clock]
  BY DEF Observed
<1>7. serial \in Tracked /\ run[serial].value # st.committed =>
        /\ st.pending = run[serial].value
        /\ st.pendingCount = IF run[serial].value = {} THEN 1 ELSE run[serial].len
  BY DEF HistoryInv, RunInv, StateOf
<1>8. serial \in Tracked /\ run[serial].value = st.committed => st.pending = {}
  BY DEF HistoryInv, RunInv, StateOf
<1>9. serial \notin Tracked => st.pending = {}
  BY DEF StateOf, NewTag
<1>10. CASE proposed = st.committed
  <2>1. Vote(st, proposed) = [candidate |-> {}, count |-> 0]
    BY <1>10 DEF Vote
  <2>2. ~ Commits(st, proposed)
    BY <2>1, ThresholdPositive DEF Commits
  <2> QED
    BY <1>3, <1>4, <1>5, <1>6, <1>10, <2>1, <2>2
<1>11. CASE proposed # st.committed /\ (st.pending = {} \/ proposed # st.pending)
  <2>1. Vote(st, proposed) = [candidate |-> proposed, count |-> 1]
    BY <1>11 DEF Vote
  <2>2. Commits(st, proposed) <=> Threshold = 1
    BY <2>1, ThresholdPositive DEF Commits
  <2>3. proposed # {} => r.len = 1
    BY <1>7, <1>8, <1>11, KnownTags DEF SM!RunAfter
  <2>4. Threshold = 1 => r.len >= Threshold
    BY <1>4
  <2> HIDE DEF r, o, st
  <2>5. CASE Threshold = 1
    BY <1>3, <1>4, <1>5, <1>6, <2>2, <2>4, <2>5
  <2>6. CASE Threshold # 1
    BY <1>3, <1>4, <1>5, <1>6, <1>11, <2>1, <2>2, <2>3, <2>6, ThresholdPositive
  <2> QED
    BY <2>5, <2>6
<1>12. CASE proposed # st.committed /\ ~ (st.pending = {} \/ proposed # st.pending)
  <2>1. Vote(st, proposed) = [candidate |-> st.pending, count |-> st.pendingCount + 1]
    BY <1>12 DEF Vote
  <2>2. /\ serial \in Tracked
        /\ run[serial].value = proposed
        /\ st.pendingCount = run[serial].len
    BY <1>7, <1>8, <1>9, <1>12
  <2>3. r.len = st.pendingCount + 1
    BY <1>1, <2>2, ThresholdPositive, KnownTags
    DEF VoteInv, TagState, SM!RunAfter, SM!Longer
  <2>4. Commits(st, proposed) <=> r.len >= Threshold
    BY <2>1, <2>3 DEF Commits
  <2>5. st.pendingCount \in Nat /\ 1 <= st.pendingCount
    BY <1>1, <1>12 DEF VoteInv, TagState
  <2> HIDE DEF r, o, st
  <2>6. CASE r.len >= Threshold
    BY <1>3, <1>4, <1>5, <1>6, <1>12, <2>4, <2>6
  <2>7. CASE ~ (r.len >= Threshold)
    <3>1. /\ proposed # {}
          /\ proposed = st.pending
          /\ Threshold > 1
      BY <1>4, <1>12, <2>3, <2>5, <2>7, ThresholdPositive
    <3>2. o = [committed |-> st.committed, pending |-> st.pending,
               pendingCount |-> st.pendingCount + 1, lastSeen |-> clock]
      BY <1>6, <2>1, <2>4, <2>7
    <3>3. SM!MemberAfter(serial, proposed) = st.committed
      BY <1>5, <2>7
    <3>4. o.pending = proposed /\ o.pendingCount = r.len /\ o.committed = st.committed
      BY <2>3, <3>1, <3>2
    <3> QED
      BY <1>3, <1>4, <1>12, <3>1, <3>3, <3>4
  <2> QED
    BY <2>6, <2>7
<1> QED
  BY <1>10, <1>11, <1>12

\* The history starts empty, like the engine's map.
LEMMA HistoryInitially == HistoryInit => HistoryInv
  BY EngineInit
  DEF HistoryInit, Init, HistoryInv, HistoryTypeOK, RunInv, SilenceInv, OverdueInv,
      Tracked

\* A position of one tag keeps the history invariant (engine.go:92-133).
LEMMA HistoryOnPositionStep ==
  ASSUME HistoryInv, NEW serial \in Serial, NEW proposed \in Placement,
         HistoryOnPosition(serial, proposed)
  PROVE  HistoryInv'
<1> DEFINE new == Observed(StateOf(serial), proposed, clock)
<1>1. OnPosition(serial, proposed) /\ EngineInv
  BY DEF HistoryOnPosition, HistoryInv
<1>2. EngineInv'
  BY <1>1, EngineStep DEF Next
<1>3. /\ Tracked' \subseteq Tracked \cup {serial}
      /\ tags' = [s \in Tracked' |-> IF s = serial THEN new ELSE tags[s]]
      /\ SweepDue => \A s \in Tracked' : ~ Stale(tags'[s], clock)
  BY <1>1, OnPositionTags
<1>4. /\ run' = [t \in Tracked' |->
                    IF t = serial THEN SM!RunAfter(t, proposed) ELSE run[t]]
      /\ silent' = [t \in Tracked' |-> IF t = serial THEN 0 ELSE silent[t]]
      /\ overdue' = [t \in Tracked' |->
                        IF TagTTL > 0 /\ Stale(tags'[t], clock)
                        THEN OverdueBefore(t) + 1 ELSE 0]
  BY DEF HistoryOnPosition, Tracked
<1>5. clock' = clock /\ clock \in Nat
  BY <1>1, ParameterAssumption DEF OnPosition, EngineInv, StateTypeOK
<1>6. new.lastSeen = clock
  BY DEF Observed
<1> HIDE DEF new
<1>7. HistoryTypeOK'
  <2>1. SM!RunAfter(serial, proposed) \in [value : Placement, len : 1..Threshold]
    BY VoteFollowsRun
  <2>2. \A t \in Tracked' : run'[t] \in [value : Placement, len : 1..Threshold]
    BY <1>3, <1>4, <2>1 DEF HistoryInv, HistoryTypeOK
  <2>3. \A t \in Tracked' : silent'[t] \in 0..TagTTL + 1
    BY <1>3, <1>4, ParameterAssumption DEF HistoryInv, HistoryTypeOK
  <2>4. \A t \in Tracked' : overdue'[t] \in Nat
    BY <1>3, <1>4 DEF HistoryInv, HistoryTypeOK, OverdueBefore
  <2>5. /\ run' \in [Tracked' -> [value : Placement, len : 1..Threshold]]
        /\ silent' \in [Tracked' -> 0..TagTTL + 1]
        /\ overdue' \in [Tracked' -> Nat]
    BY <1>4, <2>2, <2>3, <2>4
  <2> QED
    BY <1>4, <2>5 DEF HistoryTypeOK, Threshold
<1>8. RunInv'
  <2> SUFFICES ASSUME NEW t \in Tracked'
               PROVE  IF run'[t].value = tags'[t].committed
                      THEN tags'[t].pending = {} /\ tags'[t].pendingCount = 0
                      ELSE /\ Threshold > 1
                           /\ tags'[t].pending = run'[t].value
                           /\ tags'[t].pendingCount =
                                 IF run'[t].value = {} THEN 1 ELSE run'[t].len
    BY DEF RunInv, Threshold
  <2>1. CASE t = serial
    BY <1>3, <1>4, <2>1, VoteFollowsRun DEF new
  <2>2. CASE t # serial
    BY <1>3, <1>4, <2>2 DEF HistoryInv, RunInv
  <2> QED
    BY <2>1, <2>2
<1>9. SilenceInv'
  <2> SUFFICES ASSUME NEW t \in Tracked', silent'[t] <= TagTTL
               PROVE  clock - tags'[t].lastSeen <= silent'[t]
    BY <1>5 DEF SilenceInv
  <2>1. CASE t = serial
    BY <1>3, <1>4, <1>5, <1>6, <2>1
  <2>2. CASE t # serial
    BY <1>3, <1>4, <2>2 DEF HistoryInv, SilenceInv
  <2> QED
    BY <2>1, <2>2
<1>10. OverdueInv'
  <2> SUFFICES ASSUME TagTTL > 0, NEW t \in Tracked'
               PROVE  overdue'[t] <= cleanupCounter'
    BY DEF OverdueInv
  <2>1. cleanupCounter \in Nat /\ cleanupCounter' \in Nat
    BY <1>2, <1>1, ParameterAssumption DEF EngineInv, StateTypeOK
  <2>2. CASE SweepDue
    BY <1>3, <1>4, <2>1, <2>2
  <2>3. CASE ~ SweepDue
    <3>1. cleanupCounter' = cleanupCounter + 1
      BY <1>1, <2>3, ParameterAssumption DEF OnPosition, NextCount
    <3>2. OverdueBefore(t) <= cleanupCounter /\ OverdueBefore(t) \in Nat
      BY <1>3, <2>1 DEF OverdueBefore, HistoryInv, OverdueInv, HistoryTypeOK
    <3> QED
      BY <1>4, <2>1, <3>1, <3>2
  <2> QED
    BY <2>2, <2>3
<1> QED
  BY <1>2, <1>7, <1>8, <1>9, <1>10 DEF HistoryInv

\* The passing of time and a clock set back keep the history invariant.
LEMMA HistoryClockStep ==
  ASSUME HistoryInv, HistoryTick \/ HistoryClockStepsBack
  PROVE  HistoryInv'
<1>1. EngineInv' /\ UNCHANGED <<tags, cleanupCounter, run, overdue>>
  BY EngineStep
  DEF HistoryInv, HistoryTick, HistoryClockStepsBack, Next, Tick, ClockStepsBack
<1>2. Tracked' = Tracked
  BY <1>1 DEF Tracked
<1>3. \A t \in Tracked : /\ tags[t].lastSeen \in Nat
                         /\ silent[t] \in 0..TagTTL + 1
                         /\ clock \in Nat
  BY ParameterAssumption
  DEF HistoryInv, EngineInv, StateTypeOK, HistoryTypeOK, TagState
<1>4. CASE HistoryTick
  <2>1. /\ clock' = clock + 1
        /\ silent' = [t \in Tracked |-> IF silent[t] <= TagTTL
                                        THEN silent[t] + 1 ELSE silent[t]]
    BY <1>4 DEF HistoryTick, Tick
  <2>2. HistoryTypeOK'
    <3>1. silent' \in [Tracked -> 0..TagTTL + 1]
      BY <1>3, <2>1, ParameterAssumption
    <3> QED
      BY <1>1, <1>2, <2>1, <3>1 DEF HistoryInv, HistoryTypeOK, Threshold
  <2>3. SilenceInv'
    BY <1>1, <1>2, <1>3, <2>1, ParameterAssumption DEF HistoryInv, SilenceInv
  <2> QED
    BY <1>1, <1>2, <2>2, <2>3 DEF HistoryInv, RunInv, OverdueInv, Threshold
<1>5. CASE HistoryClockStepsBack
  <2>1. clock' \in Nat /\ clock' < clock /\ silent' = silent
    BY <1>5, ParameterAssumption
    DEF HistoryClockStepsBack, ClockStepsBack, HistoryInv, EngineInv, StateTypeOK
  <2>2. SilenceInv'
    BY <1>1, <1>2, <1>3, <2>1, ParameterAssumption DEF HistoryInv, SilenceInv
  <2> QED
    BY <1>1, <1>2, <2>1, <2>2
    DEF HistoryInv, HistoryTypeOK, RunInv, OverdueInv, Threshold
<1> QED
  BY <1>4, <1>5

\* Every step keeps the history invariant.
LEMMA HistoryStep == HistoryInv /\ [HistoryNext]_hvars => HistoryInv'
<1> SUFFICES ASSUME HistoryInv, [HistoryNext]_hvars PROVE HistoryInv'
  OBVIOUS
<1>1. CASE UNCHANGED hvars
  BY <1>1
  DEF hvars, vars, HistoryInv, EngineInv, StateTypeOK, VotesInv, VoteInv, CounterInv,
      HistoryTypeOK, RunInv, SilenceInv, OverdueInv, Tracked, TagState, Threshold
<1> QED
  BY <1>1, HistoryOnPositionStep, HistoryClockStep DEF HistoryNext

\* The votes, the runs, the silences and the sweep are tied together in every
\* run of the engine (engine.go:92-147).
THEOREM HistoryInvariant == HistorySpec => []HistoryInv
  BY HistoryInitially, HistoryStep, PTL DEF HistorySpec

\* A tag that goes stale is dropped before CleanupEvery further positions, of
\* whatever tags, have been processed: the map of tags that left cannot grow
\* (engine.go:126-147).
THEOREM SweptInTime == HistorySpec => []StaleTagsSwept
<1>1. HistoryInv => StaleTagsSwept
  BY ParameterAssumption
  DEF HistoryInv, StaleTagsSwept, OverdueInv, EngineInv, StateTypeOK, CounterInv,
      HistoryTypeOK
<1> QED
  BY <1>1, HistoryInvariant, PTL
-----------------------------------------------------------------------------
\* The engine's initial state is that of the abstract specification.
LEMMA RefinementInit == HistoryInit => SM!Init
<1> SUFFICES ASSUME HistoryInit PROVE SM!Init
  OBVIOUS
<1>1. tags = [s \in {} |-> NewTag]
  BY DEF HistoryInit, Init
<1>2. [t \in Tracked |-> tags[t].committed] = [t \in {} |-> {}]
  BY <1>1 DEF Tracked
<1> QED
  BY <1>2 DEF HistoryInit, SM!Init

\* A position is one observation of the abstract specification; the tags that
\* the sweep dropped with it are the forgotten ones (engine.go:92-147).
LEMMA OnPositionObserves ==
  ASSUME HistoryInv, HistoryInv', NEW serial \in Serial, NEW proposed \in Placement,
         HistoryOnPosition(serial, proposed)
  PROVE  SM!Next
<1> DEFINE new == Observed(StateOf(serial), proposed, clock)
           forgotten == (Tracked \cup {serial}) \ Tracked'
<1>1. OnPosition(serial, proposed) /\ EngineInv
  BY DEF HistoryOnPosition, HistoryInv
<1>2. /\ Tracked' \subseteq Tracked \cup {serial}
      /\ serial \in Tracked'
      /\ tags' = [s \in Tracked' |-> IF s = serial THEN new ELSE tags[s]]
      /\ \A s \in forgotten : SweepDue /\ s # serial /\ Stale(tags[s], clock)
  BY <1>1, OnPositionTags
<1>3. /\ run' = [t \in Tracked' |->
                    IF t = serial THEN SM!RunAfter(t, proposed) ELSE run[t]]
      /\ silent' = [t \in Tracked' |-> IF t = serial THEN 0 ELSE silent[t]]
  BY DEF HistoryOnPosition, Tracked
<1>4. new.committed = SM!MemberAfter(serial, proposed)
  BY VoteFollowsRun
<1> HIDE DEF new
<1>5. forgotten \in SUBSET (SM!Known \ {serial})
  BY <1>2, KnownTags
<1>6. \A t \in forgotten : TagTTL > 0 /\ silent[t] > TagTTL
  <2> SUFFICES ASSUME NEW t \in forgotten
               PROVE  TagTTL > 0 /\ silent[t] > TagTTL
    OBVIOUS
  <2>1. /\ t \in Tracked
        /\ TagTTL > 0
        /\ clock - tags[t].lastSeen > TagTTL
    BY <1>2 DEF SweepDue, Stale
  <2>2. silent[t] \in 0..TagTTL + 1 /\ tags[t].lastSeen \in Nat /\ clock \in Nat
    BY <2>1, ParameterAssumption
    DEF HistoryInv, EngineInv, StateTypeOK, HistoryTypeOK, TagState
  <2>3. ~ (silent[t] <= TagTTL)
    BY <2>1, <2>2, ParameterAssumption DEF HistoryInv, SilenceInv
  <2> QED
    BY <2>1, <2>2, <2>3, ParameterAssumption
<1>7. (SM!Known \cup {serial}) \ forgotten = Tracked'
  BY <1>2, KnownTags
<1>8. [t \in Tracked |-> tags[t].committed]' =
        [t \in Tracked' |-> IF t = serial THEN SM!MemberAfter(serial, proposed)
                            ELSE [s \in Tracked |-> tags[s].committed][t]]
  <2>1. \A t \in Tracked' : tags'[t] = IF t = serial THEN new ELSE tags[t]
    BY <1>2
  <2> QED
    BY <1>2, <1>4, <2>1
<1> HIDE DEF forgotten
<1>9. PICK dropped : dropped = forgotten
  OBVIOUS
<1>10. SM!Observe(serial, proposed, dropped)
  BY <1>3, <1>6, <1>7, <1>8, <1>9 DEF SM!Observe
<1> QED
  BY <1>5, <1>9, <1>10 DEF SM!Next

\* Every step of the engine is a step of the abstract specification, or leaves
\* what it shows unchanged.
LEMMA RefinementStep ==
  HistoryInv /\ HistoryInv' /\ [HistoryNext]_hvars => [SM!Next]_SM!vars
<1> SUFFICES ASSUME HistoryInv, HistoryInv', [HistoryNext]_hvars
             PROVE  [SM!Next]_SM!vars
  OBVIOUS
<1>1. ASSUME UNCHANGED <<tags, run, silent>> PROVE UNCHANGED SM!vars
  BY <1>1 DEF SM!vars, Tracked
<1>2. CASE HistoryTick
  <2>1. UNCHANGED <<tags, run>>
    BY <1>2 DEF HistoryTick, Tick
  <2>2. [t \in Tracked |-> tags[t].committed]' = [t \in Tracked |-> tags[t].committed]
    BY <2>1 DEF Tracked
  <2>3. SM!Elapse
    BY <1>2, <2>1, <2>2, KnownTags DEF HistoryTick, SM!Elapse
  <2> QED
    BY <2>3 DEF SM!Next
<1>3. CASE HistoryClockStepsBack
  BY <1>1, <1>3 DEF HistoryClockStepsBack, ClockStepsBack
<1>4. CASE UNCHANGED hvars
  BY <1>1, <1>4 DEF hvars, vars
<1> QED
  BY <1>2, <1>3, <1>4, OnPositionObserves DEF HistoryNext

\* The engine implements the abstract membership: in every run a tag's
\* committed set is the last committable zone set it showed Threshold times in
\* a row, and a tag is forgotten only after more than TagTTL ticks of silence
\* (engine.go:92-147).
THEOREM EngineRefinement == HistorySpec => ImplementsStableMembership
<1>1. HistoryInv /\ HistoryInv' /\ [HistoryNext]_hvars => [SM!Next]_SM!vars
  BY RefinementStep
<1> QED
  BY RefinementInit, <1>1, HistoryInvariant, PTL
  DEF HistorySpec, ImplementsStableMembership, SM!Spec
-----------------------------------------------------------------------------
(***************************************************************************)
(* The subscriber.                                                         *)
(***************************************************************************)
\* The events of a call queue up behind those in flight.
LEMMA ProducedAhead ==
  ASSUME ConsumerInv, NEW serial \in Serial, NEW proposed \in Placement,
         Produce(serial, proposed), NEW t \in Serial
  PROVE  LET n == Len(inFlight)
             es == published'
         IN  /\ n \in Nat /\ Len(es) \in Nat /\ Len(inFlight') = n + Len(es)
             /\ \A k \in 1..n : inFlight'[k] = inFlight[k]
             /\ \A k \in 1..Len(es) : inFlight'[n + k] = es[k]
             /\ \A k \in 0..n : Ahead(t, k)' = Ahead(t, k)
             /\ \A k \in 0..Len(es) :
                   Replayed(inside'[t], inFlight', t, n + k) =
                      Replayed(StateOf(t).committed, es, t, k)
<1> DEFINE q == inFlight
           es == published'
           n == Len(q)
<1>1. OnPosition(serial, proposed) /\ q' = q \o es /\ inside' = inside
  BY DEF Produce
<1>2. q \in Seq(EventRecord) /\ es \in Seq(EventRecord) /\ inside[t] \in SUBSET Zone
  BY <1>1, PublishedReplay DEF ConsumerInv, ConsumerTypeOK
<1>3. /\ n \in Nat /\ Len(es) \in Nat /\ Len(q') = n + Len(es)
      /\ \A k \in 1..n : q'[k] = q[k]
      /\ \A k \in 1..Len(es) : q'[n + k] = es[k]
  BY <1>1, <1>2
<1>4. Ahead(t, n) = StateOf(t).committed
  BY DEF ConsumerInv, AllTaken
<1> HIDE DEF es, n
<1>5. ASSUME NEW k \in 0..n PROVE Ahead(t, k)' = Ahead(t, k)
  <2>1. Replayed(inside[t], q', t, 0 + k) = Replayed(Replayed(inside[t], q', t, 0), q, t, k)
    <3>1. 0 \in Nat /\ k \in Nat /\ \A i \in 1..k : q'[0 + i] = q[i]
      BY <1>3
    <3> HIDE DEF q
    <3> QED BY <1>2, <3>1, ReplayMore
  <2>2. Replayed(inside[t], q', t, 0) = inside[t]
    BY <1>2, ReplayNone
  <2>3. 0 + k = k
    BY <1>3
  <2> QED BY <1>1, <2>1, <2>2, <2>3 DEF Ahead
<1>6. ASSUME NEW k \in 0..Len(es)
      PROVE  Replayed(inside'[t], q', t, n + k) =
                Replayed(StateOf(t).committed, es, t, k)
  <2>1. Replayed(inside[t], q', t, n + k) = Replayed(Replayed(inside[t], q', t, n), es, t, k)
    <3>1. n \in Nat /\ k \in Nat /\ \A i \in 1..k : q'[n + i] = es[i]
      BY <1>3
    <3> HIDE DEF q
    <3> QED BY <1>2, <3>1, ReplayMore
  <2>2. Replayed(inside[t], q', t, n) = StateOf(t).committed
    <3>1. n \in 0..n
      BY <1>3
    <3> QED BY <1>1, <1>4, <1>5, <3>1 DEF Ahead
  <2> QED BY <1>1, <2>1, <2>2
<1> QED BY <1>3, <1>5, <1>6 DEF n, es

\* A delivered event takes the subscriber one step along those in flight.
LEMMA DeliveredAhead ==
  ASSUME ConsumerInv, Deliver, NEW t \in Serial
  PROVE  /\ Len(inFlight') \in Nat /\ Len(inFlight) = Len(inFlight') + 1
         /\ inFlight' \in Seq(EventRecord)
         /\ \A k \in 1..Len(inFlight') : inFlight'[k] = inFlight[k + 1]
         /\ inside'[t] \in SUBSET Zone
         /\ \A k \in 0..Len(inFlight') : Ahead(t, k)' = Ahead(t, k + 1)
<1> DEFINE ev == inFlight[1]
<1>1. /\ inFlight \in Seq(EventRecord) /\ inFlight # <<>> /\ inFlight' = Tail(inFlight)
      /\ inside \in [Serial -> SUBSET Zone] /\ inside[t] \in SUBSET Zone
  BY DEF ConsumerInv, ConsumerTypeOK, Deliver
<1>2. /\ Len(inFlight') \in Nat /\ Len(inFlight) = Len(inFlight') + 1
      /\ inFlight' \in Seq(EventRecord)
      /\ \A k \in 1..Len(inFlight') : inFlight'[k] = inFlight[k + 1]
      /\ ev \in EventRecord /\ ev = Head(inFlight)
  BY <1>1
<1>3. ev.tag \in Serial /\ ev.zone \in Zone
  BY <1>2 DEF EventRecord
<1>4. inside'[t] = After(inside[t], ev, t) /\ inside'[t] \in SUBSET Zone
  BY <1>1, <1>2, <1>3 DEF Deliver, After
<1>5. ASSUME NEW k \in Nat, k \in 0..Len(inFlight')
      PROVE  Ahead(t, k)' = Ahead(t, k + 1)
  <2>1. /\ inside[t] \in SUBSET Zone /\ inFlight[1].zone \in Zone
        /\ \A i \in 1..k : inFlight[1 + i] = inFlight'[i]
    BY <1>1, <1>2, <1>3, <1>5
  <2>2. Replayed(inside[t], inFlight, t, k + 1) =
           Replayed(After(inside[t], inFlight[1], t), inFlight', t, k)
    BY <2>1, ReplayHead
  <2> QED BY <1>4, <2>2 DEF Ahead
<1> QED BY <1>2, <1>4, <1>5

\* Nothing is known and nothing in flight at the start.
LEMMA ConsumerStart == ConsumerInit => ConsumerInv
<1> SUFFICES ASSUME ConsumerInit PROVE ConsumerInv
  OBVIOUS
<1>1. EngineInv
  BY EngineInit DEF ConsumerInit
<1>2. /\ inFlight = <<>> /\ Len(inFlight) = 0 /\ DOMAIN inFlight = {}
      /\ \A t \in Serial : StateOf(t).committed = {} /\ inside[t] = {} /\ lastInZones[t] = {}
  BY DEF ConsumerInit, Init, StateOf, Tracked, NewTag
<1>3. ConsumerTypeOK
  BY DEF ConsumerInit, ConsumerTypeOK
<1>4. \A t \in Serial, k \in 0..0 : Ahead(t, k) = {}
  BY <1>2 DEF Ahead, Replayed
<1>5. AllTaken /\ AllInOnePlace
  <2>1. 0 \in 0..0 /\ \E z \in Placement : {} \subseteq z
    BY PlacementAssumption
  <2> QED BY <1>2, <1>4, <2>1 DEF AllTaken, AllInOnePlace
<1>6. AllNews /\ LastIsCommitted
  BY <1>2 DEF AllNews, LastIsCommitted
<1> QED BY <1>1, <1>3, <1>5, <1>6 DEF ConsumerInv

\* A call of OnPosition and what it hands to the sink (engine.go:104-124).
LEMMA ProduceStep ==
  ASSUME ConsumerInv, ForgetsOnlyOutside, NEW serial \in Serial, NEW proposed \in Placement,
         Produce(serial, proposed)
  PROVE  ConsumerInv'
<1> DEFINE n == Len(inFlight)
           es == published'
           q == inFlight'
           old == StateOf(serial).committed
           new == StateOf(serial)'.committed
<1>1. OnPosition(serial, proposed) /\ EngineInv
  BY DEF Produce, ConsumerInv
<1>2. EngineInv'
  BY <1>1, EngineStep DEF Next
<1>3. /\ es \in Seq(EventRecord)
      /\ \A k \in DOMAIN es : es[k].tag = serial /\ es[k].inZones = new
      /\ es = <<>> => new = old
      /\ Replayed(old, es, serial, Len(es)) = new
      /\ \A k \in 0..Len(es) : \/ Replayed(old, es, serial, k) \subseteq old
                               \/ Replayed(old, es, serial, k) \subseteq new
      /\ \A k \in DOMAIN es :
            (es[k].type = "enter")
               <=> (es[k].zone \notin Replayed(old, es, serial, k - 1))
      /\ old \in SUBSET Zone /\ new \in {old, proposed}
  BY <1>1, PublishedReplay, PublishedEvents, MembershipKept
<1>4. \A t \in Serial \ {serial} : StateOf(t)'.committed = StateOf(t).committed
  BY <1>1, MembershipKept
<1> HIDE DEF es, old, new
<1>5. /\ n \in Nat /\ Len(es) \in Nat /\ Len(q) = n + Len(es)
      /\ \A k \in 1..n : q[k] = inFlight[k]
      /\ \A k \in 1..Len(es) : q[n + k] = es[k]
      /\ \A k \in 1..Len(es) : es[k] \in EventRecord /\ es[k].tag = serial
                               /\ es[k].inZones = new
      /\ inFlight \in Seq(EventRecord) /\ q = inFlight \o es
      /\ DOMAIN inFlight = 1..n /\ DOMAIN q = 1..Len(q) /\ DOMAIN es = 1..Len(es)
      /\ \A k \in 1..n : inFlight[k].tag \in Serial
      /\ inside' = inside /\ lastInZones' = lastInZones
  <2>1. Len(es) \in Nat /\ DOMAIN es = 1..Len(es) /\ \A k \in 1..Len(es) : es[k] \in EventRecord
    BY <1>3
  <2>2. /\ n \in Nat /\ Len(q) = n + Len(es)
        /\ \A k \in 1..n : q[k] = inFlight[k]
        /\ \A k \in 1..Len(es) : q[n + k] = es[k]
    BY ProducedAhead DEF es
  <2>3. inFlight \in Seq(EventRecord) /\ q = inFlight \o es
    BY DEF ConsumerInv, ConsumerTypeOK, Produce, es
  <2>4. DOMAIN inFlight = 1..n /\ \A k \in 1..n : inFlight[k].tag \in Serial
    <3>1. DOMAIN inFlight = 1..n /\ \A k \in 1..n : inFlight[k] \in EventRecord
      BY <2>3
    <3>2. \A r \in EventRecord : r.tag \in Serial
      BY DEF EventRecord
    <3> QED BY <3>1, <3>2
  <2>5. DOMAIN q = 1..Len(q)
    BY <1>3, <2>3
  <2> QED BY <1>3, <2>1, <2>2, <2>3, <2>4, <2>5 DEF Produce
<1>6. /\ \A t \in Serial, k \in 0..n : Ahead(t, k)' = Ahead(t, k)
      /\ \A t \in Serial, k \in 0..Len(es) :
            Replayed(inside'[t], q, t, n + k) = Replayed(StateOf(t).committed, es, t, k)
  BY ProducedAhead DEF es
<1>7. \A t \in Serial : StateOf(t).committed \in SUBSET Zone
  BY <1>1, NewTagOK DEF EngineInv, StateTypeOK, StateOf, TagState
<1>8. \A t \in Serial \ {serial}, k \in 0..Len(es) :
         Replayed(StateOf(t).committed, es, t, k) = StateOf(t).committed
  <2> SUFFICES ASSUME NEW t \in Serial \ {serial}, NEW k \in 0..Len(es)
               PROVE  Replayed(StateOf(t).committed, es, t, k) = StateOf(t).committed
    OBVIOUS
  <2>1. k \in Nat /\ \A i \in 1..k : es[i].tag # t
    BY <1>5
  <2> QED BY <1>7, <2>1, ReplayOthers
<1> HIDE DEF q, n
<1>9. ConsumerTypeOK'
  <2>1. q \in Seq(EventRecord)
    BY <1>3, <1>5
  <2>2. EventRecord' = EventRecord
    BY DEF EventRecord
  <2> QED BY <1>5, <2>1, <2>2 DEF ConsumerInv, ConsumerTypeOK, q
<1>10. AllTaken'
  <2> SUFFICES ASSUME NEW t \in Serial PROVE Ahead(t, Len(inFlight))' = StateOf(t)'.committed
    BY DEF AllTaken
  <2>1. Ahead(t, Len(inFlight))' = Replayed(StateOf(t).committed, es, t, Len(es))
    <3>1. Len(es) \in 0..Len(es)
      BY <1>5
    <3> QED BY <1>5, <1>6, <3>1 DEF Ahead, q
  <2>2. CASE t = serial
    BY <1>3, <2>1, <2>2 DEF old, new
  <2>3. CASE t # serial
    <3>1. Len(es) \in 0..Len(es)
      BY <1>5
    <3> QED BY <1>4, <1>8, <2>1, <2>3, <3>1
  <2> QED BY <2>2, <2>3
<1>11. \A k \in 0..Len(q) : k \in 0..n \/ \E j \in 1..Len(es) : k = n + j
  <2> SUFFICES ASSUME NEW k \in 0..Len(q), k \notin 0..n PROVE \E j \in 1..Len(es) : k = n + j
    OBVIOUS
  <2>1. k - n \in 1..Len(es) /\ k = n + (k - n)
    BY <1>5
  <2> QED BY <2>1
<1>12. AllNews'
  <2> SUFFICES ASSUME NEW k \in 1..Len(q)
               PROVE  (q[k].type = "enter")
                         <=> (q[k].zone \notin Replayed(inside'[q[k].tag], q, q[k].tag, k - 1))
    BY <1>3, <1>5 DEF AllNews, Ahead, q
  <2>1. CASE k \in 1..n
    <3>1. q[k] = inFlight[k] /\ k - 1 \in 0..n /\ k \in DOMAIN inFlight
          /\ inFlight[k].tag \in Serial
      BY <1>5, <2>1
    <3>2. \A t \in Serial, i \in 0..n :
             Replayed(inside'[t], q, t, i) = Ahead(t, i)
      BY <1>6 DEF q, Ahead
    <3>3. (inFlight[k].type = "enter")
             <=> (inFlight[k].zone \notin Ahead(inFlight[k].tag, k - 1))
      BY <3>1 DEF ConsumerInv, AllNews
    <3> QED BY <3>1, <3>2, <3>3
  <2>2. ASSUME NEW j \in 1..Len(es), k = n + j PROVE
           (q[k].type = "enter")
              <=> (q[k].zone \notin Replayed(inside'[q[k].tag], q, q[k].tag, k - 1))
    <3>1. q[k] = es[j] /\ j - 1 \in 0..Len(es) /\ k - 1 = n + (j - 1) /\ es[j].tag = serial
      BY <1>5, <2>2
    <3>2. Replayed(inside'[serial], q, serial, k - 1) = Replayed(old, es, serial, j - 1)
      BY <1>6, <3>1 DEF old
    <3>3. j \in DOMAIN es
      BY <1>3
    <3> QED BY <1>3, <3>1, <3>2, <3>3
  <2> QED BY <1>5, <1>11, <2>1, <2>2
<1>13. AllInOnePlace'
  <2> SUFFICES ASSUME NEW t \in Serial, NEW k \in 0..Len(q)
               PROVE  \E z \in Placement : Replayed(inside'[t], q, t, k) \subseteq z
    BY DEF AllInOnePlace, Ahead, q
  <2>1. \A i \in 0..n : \E z \in Placement : Ahead(t, i) \subseteq z
    BY DEF ConsumerInv, AllInOnePlace, n
  <2>2. CASE k \in 0..n
    BY <1>6, <2>1, <2>2 DEF Ahead, q
  <2>3. ASSUME NEW j \in 1..Len(es), k = n + j
        PROVE  \E z \in Placement : Replayed(inside'[t], q, t, k) \subseteq z
    <3>1. \E z \in Placement : StateOf(t).committed \subseteq z
      <4>1. n \in 0..n /\ Ahead(t, n) = StateOf(t).committed
        BY <1>5 DEF ConsumerInv, AllTaken, n
      <4> QED BY <2>1, <4>1
    <3>2. j \in 0..Len(es)
      BY <1>5
    <3>3. Replayed(inside'[t], q, t, k) = Replayed(StateOf(t).committed, es, t, j)
      BY <1>6, <2>3, <3>2
    <3>4. CASE t # serial
      BY <1>8, <3>1, <3>2, <3>3, <3>4
    <3>5. CASE t = serial
      <4>1. \/ Replayed(inside'[t], q, t, k) \subseteq old
            \/ Replayed(inside'[t], q, t, k) \subseteq proposed
        BY <1>3, <3>2, <3>3, <3>5 DEF old
      <4> QED BY <3>1, <3>5, <4>1 DEF old
    <3> QED BY <3>4, <3>5
  <2> QED BY <1>11, <2>2, <2>3
<1>14. LastIsCommitted'
  <2> SUFFICES ASSUME NEW t \in Serial
               PROVE  /\ (\A i \in 1..Len(q) : q[i].tag # t)
                            => lastInZones'[t] = StateOf(t)'.committed
                      /\ \A k \in 1..Len(q) :
                            q[k].tag = t /\ (\A l \in k + 1..Len(q) : q[l].tag # t)
                              => q[k].inZones = StateOf(t)'.committed
    BY <1>5 DEF LastIsCommitted, CaughtUp, q
  <2>1. /\ (\A i \in 1..n : inFlight[i].tag # t) => lastInZones[t] = StateOf(t).committed
        /\ \A k \in 1..n :
              inFlight[k].tag = t /\ (\A l \in k + 1..n : inFlight[l].tag # t)
                => inFlight[k].inZones = StateOf(t).committed
    BY <1>5 DEF ConsumerInv, LastIsCommitted, CaughtUp, n
  <2>2. /\ \A i \in 1..n : i \in 1..Len(q)
        /\ \A j \in 1..Len(es) : n + j \in 1..Len(q)
        /\ \A k \in 1..n : \A l \in k + 1..n : l \in k + 1..Len(q) /\ l \in 1..n
        /\ \A k \in 1..n, j \in 1..Len(es) : n + j \in k + 1..Len(q)
    BY <1>5
  <2>3. t = serial => \/ es = <<>> /\ new = old /\ n = Len(q)
                      \/ 1 \in 1..Len(es)
    BY <1>3, <1>5
  <2>4. ASSUME \A i \in 1..Len(q) : q[i].tag # t
        PROVE  lastInZones'[t] = StateOf(t)'.committed
    <3>1. \A i \in 1..n : inFlight[i].tag # t
      BY <1>5, <2>2, <2>4
    <3>2. CASE t # serial
      BY <1>4, <1>5, <2>1, <3>1, <3>2
    <3>3. CASE t = serial
      <4>1. new = old
        BY <1>5, <2>2, <2>3, <2>4, <3>3
      <4> QED BY <1>5, <2>1, <3>1, <3>3, <4>1 DEF old, new
    <3> QED BY <3>2, <3>3
  <2>5. ASSUME NEW k \in 1..Len(q), q[k].tag = t, \A l \in k + 1..Len(q) : q[l].tag # t
        PROVE  q[k].inZones = StateOf(t)'.committed
    <3>1. CASE k \in 1..n
      <4>1. inFlight[k].inZones = StateOf(t).committed
        BY <1>5, <2>1, <2>2, <2>5, <3>1
      <4>2. CASE t # serial
        BY <1>4, <1>5, <3>1, <4>1, <4>2
      <4>3. CASE t = serial
        <5>1. 1 \notin 1..Len(es)
          <6>1. ASSUME 1 \in 1..Len(es) PROVE FALSE
            <7>1. n + 1 \in k + 1..Len(q) /\ q[n + 1].tag = t
              BY <1>5, <2>2, <3>1, <4>3, <6>1
            <7> QED BY <2>5, <7>1
          <6> QED BY <6>1
        <5>2. new = old
          BY <2>3, <4>3, <5>1
        <5> QED BY <1>5, <3>1, <4>1, <4>3, <5>2 DEF old, new
      <4> QED BY <4>2, <4>3
    <3>2. ASSUME NEW j \in 1..Len(es), k = n + j
          PROVE  q[k].inZones = StateOf(t)'.committed
      BY <1>5, <2>5, <3>2 DEF new
    <3> QED BY <1>5, <1>11, <3>1, <3>2
  <2> QED BY <2>4, <2>5
<1> QED BY <1>2, <1>9, <1>10, <1>12, <1>13, <1>14 DEF ConsumerInv
\* A subscriber takes the next event.
LEMMA DeliverStep == ASSUME ConsumerInv, Deliver PROVE ConsumerInv'
<1> DEFINE q == inFlight'
           n == Len(q)
           ev == inFlight[1]
<1>1. /\ n \in Nat /\ Len(inFlight) = n + 1 /\ q \in Seq(EventRecord)
      /\ \A k \in 1..n : q[k] = inFlight[k + 1]
      /\ inFlight \in Seq(EventRecord) /\ ev = Head(inFlight)
      /\ DOMAIN inFlight = 1..n + 1 /\ DOMAIN q = 1..n
  <2>1. inFlight \in Seq(EventRecord) /\ inFlight # <<>>
    BY DEF ConsumerInv, ConsumerTypeOK, Deliver
  <2>2. /\ n \in Nat /\ Len(inFlight) = n + 1 /\ q \in Seq(EventRecord)
        /\ \A k \in 1..n : q[k] = inFlight[k + 1]
    <3>1. \/ Serial = {}
          \/ /\ n \in Nat /\ Len(inFlight) = n + 1 /\ q \in Seq(EventRecord)
             /\ \A k \in 1..n : q[k] = inFlight[k + 1]
      BY DeliveredAhead
    <3>2. ev \in EventRecord
      BY <2>1
    <3>3. Serial # {}
      BY <3>2 DEF EventRecord
    <3> QED BY <3>1, <3>3
  <2> QED BY <2>1, <2>2
<1>2. /\ \A t \in Serial : inside'[t] \in SUBSET Zone
      /\ \A t \in Serial, k \in 0..n :
            Replayed(inside'[t], q, t, k) = Ahead(t, k + 1)
  BY DeliveredAhead DEF Ahead
<1> HIDE DEF q, n, ev
<1>3. \A k \in 1..n + 1 : inFlight[k].tag \in Serial /\ inFlight[k].inZones \in SUBSET Zone
  <2>1. \A k \in 1..n + 1 : inFlight[k] \in EventRecord
    BY <1>1
  <2>2. \A r \in EventRecord : r.tag \in Serial /\ r.inZones \in SUBSET Zone
    BY DEF EventRecord
  <2> QED BY <2>1, <2>2
<1>4. \A t \in Serial : StateOf(t)' = StateOf(t)
  BY DEF Deliver, vars, StateOf, Tracked
<1>5. EngineInv'
  BY EngineStep DEF Deliver, ConsumerInv
<1>6. lastInZones' = [lastInZones EXCEPT ![ev.tag] = ev.inZones]
  BY <1>1 DEF Deliver
<1>7. ConsumerTypeOK'
  <2>1. inside' \in [Serial -> SUBSET Zone]
    BY <1>2 DEF Deliver, ConsumerInv, ConsumerTypeOK
  <2>2. 1 \in 1..n + 1
    BY <1>1
  <2>3. lastInZones' \in [Serial -> SUBSET Zone]
    BY <1>3, <1>6, <2>2 DEF ConsumerInv, ConsumerTypeOK, ev
  <2>4. EventRecord' = EventRecord
    BY DEF EventRecord
  <2> QED BY <1>1, <2>1, <2>3, <2>4 DEF ConsumerTypeOK, q
<1>8. AllTaken'
  <2> SUFFICES ASSUME NEW t \in Serial
               PROVE  Replayed(inside'[t], q, t, n) = StateOf(t)'.committed
    BY DEF AllTaken, Ahead, q, n
  <2>1. n \in 0..n /\ Len(inFlight) = n + 1
    BY <1>1
  <2> QED BY <1>2, <1>4, <2>1 DEF ConsumerInv, AllTaken
<1>9. AllNews'
  <2> SUFFICES ASSUME NEW k \in 1..n
               PROVE  (q[k].type = "enter")
                         <=> (q[k].zone \notin Replayed(inside'[q[k].tag], q, q[k].tag, k - 1))
    BY <1>1 DEF AllNews, Ahead, q, n
  <2>1. /\ q[k] = inFlight[k + 1] /\ k + 1 \in DOMAIN inFlight /\ q[k].tag \in Serial
        /\ k - 1 \in 0..n /\ (k - 1) + 1 = k /\ (k + 1) - 1 = k
    BY <1>1, <1>3
  <2>2. (inFlight[k + 1].type = "enter")
           <=> (inFlight[k + 1].zone \notin Ahead(inFlight[k + 1].tag, k))
    BY <2>1 DEF ConsumerInv, AllNews
  <2> QED BY <1>2, <2>1, <2>2
<1>10. AllInOnePlace'
  <2> SUFFICES ASSUME NEW t \in Serial, NEW k \in 0..n
               PROVE  \E z \in Placement : Replayed(inside'[t], q, t, k) \subseteq z
    BY DEF AllInOnePlace, Ahead, q, n
  <2>1. k + 1 \in 0..Len(inFlight)
    BY <1>1
  <2> QED BY <1>2, <2>1 DEF ConsumerInv, AllInOnePlace
<1>11. LastIsCommitted'
  <2> SUFFICES ASSUME NEW t \in Serial
               PROVE  /\ (\A i \in 1..n : q[i].tag # t)
                            => lastInZones'[t] = StateOf(t)'.committed
                      /\ \A k \in 1..n :
                            q[k].tag = t /\ (\A l \in k + 1..n : q[l].tag # t)
                              => q[k].inZones = StateOf(t)'.committed
    BY <1>1 DEF LastIsCommitted, CaughtUp, q, n
  <2>1. /\ (\A i \in 1..n + 1 : inFlight[i].tag # t) => lastInZones[t] = StateOf(t).committed
        /\ \A k \in 1..n + 1 :
              inFlight[k].tag = t /\ (\A l \in k + 1..n + 1 : inFlight[l].tag # t)
                => inFlight[k].inZones = StateOf(t).committed
    BY <1>1 DEF ConsumerInv, LastIsCommitted, CaughtUp
  <2>2. /\ 1 \in 1..n + 1
        /\ \A i \in 2..n + 1 : i - 1 \in 1..n /\ inFlight[i] = q[i - 1]
        /\ \A i \in 1..n + 1 : i = 1 \/ i \in 2..n + 1
        /\ 1 + 1..n + 1 = 2..n + 1
        /\ \A k \in 1..n : k + 1 \in 1..n + 1
    <3>1. \A i \in 2..n + 1 : i - 1 \in 1..n /\ (i - 1) + 1 = i
      BY <1>1
    <3> QED BY <1>1, <3>1
  <2>3. ASSUME \A i \in 1..n : q[i].tag # t
        PROVE  lastInZones'[t] = StateOf(t)'.committed
    <3>1. \A i \in 2..n + 1 : inFlight[i].tag # t
      BY <2>2, <2>3
    <3>2. CASE ev.tag = t
      <4>1. ev.inZones = StateOf(t).committed
        BY <2>1, <2>2, <3>1, <3>2 DEF ev
      <4>2. lastInZones'[t] = ev.inZones
        BY <1>6, <3>2 DEF ConsumerInv, ConsumerTypeOK
      <4> QED BY <1>4, <4>1, <4>2
    <3>3. CASE ev.tag # t
      <4>1. lastInZones[t] = StateOf(t).committed
        BY <2>1, <2>2, <3>1, <3>3 DEF ev
      <4>2. lastInZones'[t] = lastInZones[t]
        BY <1>6, <3>3 DEF ConsumerInv, ConsumerTypeOK
      <4> QED BY <1>4, <4>1, <4>2
    <3> QED BY <3>2, <3>3
  <2>4. ASSUME NEW k \in 1..n, q[k].tag = t, \A l \in k + 1..n : q[l].tag # t
        PROVE  q[k].inZones = StateOf(t)'.committed
    <3>1. \A l \in (k + 1) + 1..n + 1 : inFlight[l].tag # t
      <4> SUFFICES ASSUME NEW l \in (k + 1) + 1..n + 1 PROVE inFlight[l].tag # t
        OBVIOUS
      <4>1. l - 1 \in k + 1..n /\ l \in 2..n + 1
        BY <1>1
      <4> QED BY <2>2, <2>4, <4>1
    <3>2. k + 1 \in DOMAIN inFlight /\ inFlight[k + 1] = q[k]
      BY <1>1, <2>2, <2>4
    <3>3. inFlight[k + 1].inZones = StateOf(t).committed
      <4>1. k + 1 \in 1..n + 1 /\ inFlight[k + 1].tag = t
        BY <1>1, <2>4, <3>2
      <4> QED BY <2>1, <3>1, <4>1
    <3> QED BY <1>4, <3>2, <3>3
  <2> QED BY <2>3, <2>4
<1> QED BY <1>5, <1>7, <1>8, <1>9, <1>10, <1>11 DEF ConsumerInv

\* Time changes nothing about zones.
LEMMA TimeStep ==
  ASSUME ConsumerInv, [Tick \/ ClockStepsBack]_vars,
         UNCHANGED <<inFlight, inside, lastInZones>>
  PROVE  ConsumerInv'
<1>1. EngineInv'
  BY EngineStep DEF ConsumerInv, Next
<1>2. tags' = tags
  BY DEF Tick, ClockStepsBack, vars
<1>3. \A t : StateOf(t)' = StateOf(t)
  BY <1>2 DEF StateOf, Tracked
<1>4. ConsumerTypeOK'
  BY DEF ConsumerInv, ConsumerTypeOK, EventRecord
<1>5. AllNews' /\ AllInOnePlace'
  BY DEF ConsumerInv, AllNews, AllInOnePlace, Ahead
<1>6. AllTaken' /\ LastIsCommitted'
  BY <1>3 DEF ConsumerInv, AllTaken, Ahead, LastIsCommitted, CaughtUp
<1> QED BY <1>1, <1>4, <1>5, <1>6 DEF ConsumerInv

\* Every step of the engine and the subscriber keeps the invariant.
LEMMA ConsumerStep ==
  ASSUME ConsumerInv, [ConsumerNext]_cvars, [ForgetsOnlyOutside]_cvars PROVE ConsumerInv'
<1>1. ASSUME NEW serial \in Serial, NEW proposed \in Placement, Produce(serial, proposed)
      PROVE  ConsumerInv'
  <2>1. CASE ForgetsOnlyOutside
    BY <1>1, <2>1, ProduceStep
  <2>2. CASE UNCHANGED cvars
    BY <2>2, TimeStep DEF cvars
  <2> QED BY <2>1, <2>2
<1>2. CASE Deliver
  BY <1>2, DeliverStep
<1>3. CASE \/ (Tick \/ ClockStepsBack) /\ UNCHANGED <<inFlight, inside, lastInZones>>
           \/ UNCHANGED cvars
  BY <1>3, TimeStep DEF cvars
<1> QED BY <1>1, <1>2, <1>3 DEF ConsumerNext

\* The behaviours in which the sweep drops no tag from inside a zone.
Remembers == ConsumerSpec /\ [][ForgetsOnlyOutside]_cvars

\* With the sweep off that is every behaviour (engine.go:126-130).
THEOREM NothingForgotten == ASSUME TagTTL = 0 PROVE ConsumerSpec => Remembers
<1>1. [ConsumerNext]_cvars => [ForgetsOnlyOutside]_cvars
  <2> SUFFICES ASSUME [ConsumerNext]_cvars PROVE ForgetsOnlyOutside
    OBVIOUS
  <2>1. [Next]_vars
    BY DEF ConsumerNext, Produce, Deliver, cvars, Next
  <2> QED BY <2>1, SweepOff
<1> QED BY <1>1, PTL DEF ConsumerSpec, Remembers

\* What is in flight takes the subscriber from where it has a tag to where the
\* engine has it, with every event news on the way (engine.go:161-222).
THEOREM ConsumerInvariant == Remembers => []ConsumerInv
<1>1. ConsumerInit => ConsumerInv
  BY ConsumerStart
<1>2. ConsumerInv /\ [ConsumerNext]_cvars /\ [ForgetsOnlyOutside]_cvars => ConsumerInv'
  BY ConsumerStep
<1> QED BY <1>1, <1>2, PTL DEF ConsumerSpec, Remembers

\* A subscriber that replays enters and exits has every tag that it has no
\* event outstanding for in the zones the engine has it in (README.md:232).
THEOREM ReplayTells == Remembers => []ReplayGivesMembership
<1>1. ConsumerInv => ReplayGivesMembership
  <2> SUFFICES ASSUME ConsumerInv, NEW t \in Tracked, CaughtUp(t)
               PROVE  inside[t] = tags[t].committed
    BY DEF ReplayGivesMembership
  <2>1. t \in Serial /\ StateOf(t) = tags[t]
    BY DEF ConsumerInv, EngineInv, StateTypeOK, StateOf
  <2>2. Ahead(t, Len(inFlight)) = tags[t].committed
    BY <2>1 DEF ConsumerInv, AllTaken
  <2>3. Len(inFlight) \in Nat /\ DOMAIN inFlight = 1..Len(inFlight)
    BY DEF ConsumerInv, ConsumerTypeOK
  <2>4. inside[t] \in SUBSET Zone
    BY <2>1 DEF ConsumerInv, ConsumerTypeOK
  <2>5. Ahead(t, Len(inFlight)) = inside[t]
    BY <2>3, <2>4, ReplayOthers DEF Ahead, CaughtUp
  <2> QED BY <2>2, <2>5
<1> QED BY <1>1, ConsumerInvariant, PTL

\* ... and one that reads the in_zones of each tag's last event does too, with
\* no state of its own (events.go:22-24).
THEOREM LastEventTells == Remembers => []LastEventTellsMembership
<1>1. ConsumerInv => LastEventTellsMembership
  BY DEF ConsumerInv, EngineInv, StateTypeOK, StateOf, LastIsCommitted,
         LastEventTellsMembership
<1> QED BY <1>1, ConsumerInvariant, PTL

\* Between two events of one transition a replaying subscriber never has a tag
\* in zones that no point has in common (README.md:234-237).
THEOREM InOnePlace == Remembers => []NeverInTwoPlaces
<1>1. ConsumerInv => NeverInTwoPlaces
  <2> SUFFICES ASSUME ConsumerInv, NEW t \in Serial
               PROVE  \E z \in Placement : inside[t] \subseteq z
    BY DEF NeverInTwoPlaces
  <2>1. 0 \in 0..Len(inFlight) /\ inside[t] \in SUBSET Zone
    BY DEF ConsumerInv, ConsumerTypeOK
  <2>2. Ahead(t, 0) = inside[t]
    BY <2>1, ReplayNone DEF Ahead
  <2> QED BY <2>1, <2>2 DEF ConsumerInv, AllInOnePlace
<1> QED BY <1>1, ConsumerInvariant, PTL

\* Every event is news to the subscriber that takes it: none is doubled, none
\* tells an exit from a zone it was not in (engine.go:204-222).
THEOREM EveryEventIsNews == Remembers => EventsAlternate
<1> DEFINE News == inFlight # <<>> /\ inFlight' = Tail(inFlight) =>
                      LET ev == Head(inFlight)
                      IN  (ev.type = "enter") <=> (ev.zone \notin inside[ev.tag])
<1>1. ConsumerInv => News
  <2> SUFFICES ASSUME ConsumerInv, inFlight # <<>>
               PROVE  LET ev == Head(inFlight)
                      IN  (ev.type = "enter") <=> (ev.zone \notin inside[ev.tag])
    OBVIOUS
  <2>1. 1 \in DOMAIN inFlight /\ Head(inFlight) = inFlight[1] /\ inFlight[1] \in EventRecord
    BY DEF ConsumerInv, ConsumerTypeOK
  <2>2. inside[inFlight[1].tag] \in SUBSET Zone
    BY <2>1 DEF ConsumerInv, ConsumerTypeOK, EventRecord
  <2>3. Ahead(inFlight[1].tag, 1 - 1) = inside[inFlight[1].tag]
    BY <2>2, ReplayNone DEF Ahead
  <2> QED BY <2>1, <2>3 DEF ConsumerInv, AllNews
<1> HIDE DEF News
<1>2. Remembers => [][News]_cvars
  BY <1>1, ConsumerInvariant, PTL
<1> QED BY <1>2 DEF News, EventsAlternate
=============================================================================

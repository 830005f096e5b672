---------------------------- MODULE GeofenceEngine ----------------------------
(***************************************************************************)
(* The geofence engine of internal/geofence/engine.go: per-tag hysteresis  *)
(* over the set of zones that contain the tag, events for every committed  *)
(* change, and a sweep that forgets tags that went silent.                 *)
(*                                                                         *)
(* A ZoneSet of the code is a sorted slice of distinct names; here it is   *)
(* the set of those names, and a zone is the alphabetical rank of its      *)
(* name.  A nil slice is the empty set: contains() returns nil exactly     *)
(* when no zone is hit, so `pending == nil' is `pending = {}'.             *)
(***************************************************************************)
EXTENDS Integers, Sequences, FiniteSets, Functions

CONSTANTS
    Serial,             \* tags (cdp.Serial)
    Zone,               \* ranks of the configured zone names
    Placement,          \* the zone sets that contains() takes over the positions
    Hysteresis,         \* Config.Hysteresis, 0 and 1 both commit at once
    TagTTL,             \* Config.TagTTL in clock ticks, 0 turns the sweep off
    CleanupEvery,       \* OnPosition calls between two sweeps
    MaxClock,           \* bound: the last value of the clock
    ClockMayStepBack    \* may the clock that now() reads be set back

ASSUME ZoneAssumption ==
    /\ Zone \subseteq Nat /\ IsFiniteSet(Zone)
    /\ Placement \subseteq SUBSET Zone

ASSUME ParameterAssumption ==
    /\ Hysteresis \in Nat
    /\ TagTTL \in Nat
    /\ CleanupEvery \in Nat \ {0}
    /\ MaxClock \in Nat
    /\ ClockMayStepBack \in BOOLEAN

VARIABLES
    tags,               \* Engine.tags: serial |-> tagState
    cleanupCounter,     \* Engine.cleanupCounter
    clock,              \* what now() returns
    published           \* the events the last OnPosition handed to the sink

vars == <<tags, cleanupCounter, clock, published>>

Threshold == IF Hysteresis < 1 THEN 1 ELSE Hysteresis

TagState == [committed : SUBSET Zone, pending : SUBSET Zone,
             pendingCount : Nat, lastSeen : 0..MaxClock]

EventRecord == [type : {"enter", "exit"}, tag : Serial, zone : Zone,
                inZones : SUBSET Zone]

Tracked == DOMAIN tags
-----------------------------------------------------------------------------
(***************************************************************************)
(* The helpers of OnPosition.                                              *)
(***************************************************************************)
Sorted(zones) ==
    CHOOSE s \in [1..Cardinality(zones) -> zones] :
        \A i, j \in DOMAIN s : i < j => s[i] < s[j]

\* Mutant: the merge drops what is left of next when prev is exhausted.
DiffWithoutTail(prev, next) ==
    [exits |-> Sorted(prev \ next),
     enters |-> Sorted({z \in next \ prev : \E p \in prev : z < p})]

\* The merge of the two sorted slices, as what it returns (see ZoneSets).
diffZoneSets(prev, next) ==
    [exits |-> Sorted(prev \ next), enters |-> Sorted(next \ prev)]

Events(type, tag, zones, next) ==
    [i \in DOMAIN zones |->
        [type |-> type, tag |-> tag, zone |-> zones[i], inZones |-> next]]

\* Mutant: enters before exits.
EmitEntersFirst(tag, prev, next) ==
    LET diff == diffZoneSets(prev, next)
    IN  Events("enter", tag, diff.enters, next)
            \o Events("exit", tag, diff.exits, next)

\* Mutant: an exit carries the zones from before the transition.
EmitStaleInZones(tag, prev, next) ==
    LET diff == diffZoneSets(prev, next)
    IN  Events("exit", tag, diff.exits, prev)
            \o Events("enter", tag, diff.enters, next)

\* Exits first, then enters; an error of the sink is only logged.
emit(tag, prev, next) ==
    LET diff == diffZoneSets(prev, next)
    IN  Events("exit", tag, diff.exits, next)
            \o Events("enter", tag, diff.enters, next)

\* A tag seen for the first time starts outside every zone.
NewTag == [committed |-> {}, pending |-> {}, pendingCount |-> 0, lastSeen |-> 0]

\* Mutant: any unsettled set is a vote for the candidate.
VoteForAnyCandidate(st, proposed) ==
    CASE proposed = st.committed -> [candidate |-> {}, count |-> 0]
      [] proposed # st.committed /\ st.pending = {} ->
            [candidate |-> proposed, count |-> 1]
      [] OTHER -> [candidate |-> st.pending, count |-> st.pendingCount + 1]

\* The switch: settled, a new candidate, or one more vote for the candidate.
Vote(st, proposed) ==
    CASE proposed = st.committed ->
            [candidate |-> {}, count |-> 0]
      [] proposed # st.committed /\ (st.pending = {} \/ proposed # st.pending) ->
            [candidate |-> proposed, count |-> 1]
      [] OTHER ->
            [candidate |-> st.pending, count |-> st.pendingCount + 1]

Commits(st, proposed) == Vote(st, proposed).count >= Threshold

\* Mutant: the transition is published and not stored.
ObservedNotStored(st, proposed, now) ==
    IF Commits(st, proposed)
    THEN [committed |-> st.committed, pending |-> {}, pendingCount |-> 0,
          lastSeen |-> now]
    ELSE [committed |-> st.committed, pending |-> Vote(st, proposed).candidate,
          pendingCount |-> Vote(st, proposed).count, lastSeen |-> now]

\* The tag state OnPosition leaves behind.
Observed(st, proposed, now) ==
    IF Commits(st, proposed)
    THEN [committed |-> proposed, pending |-> {}, pendingCount |-> 0,
          lastSeen |-> now]
    ELSE [committed |-> st.committed, pending |-> Vote(st, proposed).candidate,
          pendingCount |-> Vote(st, proposed).count, lastSeen |-> now]

\* Mutant: a tag is dropped at the TTL, not after it.
StaleAtTTL(st, now) == st.lastSeen <= now /\ now - st.lastSeen >= TagTTL

Stale(st, now) == st.lastSeen <= now /\ now - st.lastSeen > TagTTL

pruneStale(tracked, now) ==
    Restrict(tracked, {s \in DOMAIN tracked : ~ Stale(tracked[s], now)})

\* With the sweep off the code's counter only grows and nothing reads it:
\* it stops at CleanupEvery here.
NextCount ==
    IF TagTTL = 0 /\ cleanupCounter = CleanupEvery
    THEN cleanupCounter ELSE cleanupCounter + 1

\* Mutants: the sweep comes one call late; the counter is read before its
\* increment and has to pass the limit.
SweepOneLate == TagTTL > 0 /\ NextCount > CleanupEvery
SweepBeforeIncrement == TagTTL > 0 /\ cleanupCounter > CleanupEvery

SweepDue == TagTTL > 0 /\ NextCount >= CleanupEvery

StateOf(serial) == IF serial \in Tracked THEN tags[serial] ELSE NewTag
-----------------------------------------------------------------------------
Init ==
    /\ tags = [s \in {} |-> NewTag]
    /\ cleanupCounter = 0
    /\ clock = 0
    /\ published = <<>>

\* One PositionV3 of tag serial, at a point that the zones in proposed contain.
OnPosition(serial, proposed) ==
    LET st == StateOf(serial)
        updated == [s \in Tracked \cup {serial} |->
                        IF s = serial THEN Observed(st, proposed, clock)
                                      ELSE tags[s]]
    IN  /\ tags' = IF SweepDue THEN pruneStale(updated, clock) ELSE updated
        /\ cleanupCounter' = IF SweepDue THEN 0 ELSE NextCount
        /\ published' = IF Commits(st, proposed)
                        THEN emit(serial, st.committed, proposed) ELSE <<>>
        /\ UNCHANGED clock

\* Time passes between two calls.
Tick ==
    /\ clock < MaxClock
    /\ clock' = clock + 1
    /\ UNCHANGED <<tags, cleanupCounter, published>>

\* The clock is set back, the case pruneStale skips future entries for.
ClockStepsBack ==
    /\ ClockMayStepBack
    /\ \E earlier \in 0..clock - 1 : clock' = earlier
    /\ UNCHANGED <<tags, cleanupCounter, published>>

Next ==
    \/ \E serial \in Serial, proposed \in Placement : OnPosition(serial, proposed)
    \/ Tick
    \/ ClockStepsBack

Spec == Init /\ [][Next]_vars
-----------------------------------------------------------------------------
(***************************************************************************)
(* Properties.                                                             *)
(***************************************************************************)
\* Every variable has its type (the fields of Engine and tagState,
\* engine.go:40-60).
StateTypeOK ==
    /\ Tracked \subseteq Serial
    /\ tags \in [Tracked -> TagState]
    /\ cleanupCounter \in 0..CleanupEvery
    /\ clock \in 0..MaxClock

TypeOK == StateTypeOK /\ published \in Seq(EventRecord)

\* The zones that a subscriber has tag in, who had it in zones and took the
\* first k of events: those whose last event is an enter, and those that no
\* event is about.
Replayed(zones, events, tag, k) ==
    LET About(i, z) == events[i].tag = tag /\ events[i].zone = z
    IN  {z \in Zone :
            \/ z \in zones /\ \A i \in 1..k : ~ About(i, z)
            \/ \E i \in 1..k :
                  /\ About(i, z) /\ events[i].type = "enter"
                  /\ \A later \in i + 1..k : ~ About(later, z)}

\* What a tag's vote may look like between two calls: no vote is left at the
\* threshold; a named candidate has votes, and the unnamed one (the empty set)
\* never has more than one.
VoteInv(st) ==
    /\ st.pendingCount < Threshold
    /\ st.pending # {} => st.pendingCount >= 1
    /\ st.pendingCount >= 1 => st.pending # st.committed
    /\ st.pendingCount > 1 => st.pending # {}

VotesInv == \A s \in Tracked : VoteInv(tags[s])

\* With the sweep on, the counter never rests at the limit (engine.go:126-130).
CounterInv == TagTTL > 0 => cleanupCounter < CleanupEvery

\* The conjunction that is inductive: the hysteresis state is consistent in
\* every tag, whatever the positions, the sweep and the clock did
\* (engine.go:104-130).
EngineInv == StateTypeOK /\ VotesInv /\ CounterInv
=============================================================================

--------------------------- MODULE GeofenceConsumer ---------------------------
(***************************************************************************)
(* A subscriber of the geofence events, as README "Geofence event JSON"    *)
(* and events.go:20-24 describe one: it may replay enters and exits, or    *)
(* read the latest in_zones.  Events arrive one at a time and in the order *)
(* in which the engine handed them to the sink; the engine runs ahead.     *)
(***************************************************************************)
EXTENDS GeofenceEngine

CONSTANT MaxInFlight    \* bound: no position is taken with more events in flight

ASSUME InFlightAssumption == MaxInFlight \in Nat

\* Every point has its zones, if only none.
ASSUME PlacementAssumption == Placement # {}

VARIABLES
    inFlight,       \* events emitted and not delivered
    inside,         \* tag |-> zones by replaying enters and exits
    lastInZones     \* tag |-> in_zones of its last event

cvars == <<vars, inFlight, inside, lastInZones>>

ConsumerInit ==
    /\ Init
    /\ inFlight = <<>>
    /\ inside = [t \in Serial |-> {}]
    /\ lastInZones = [t \in Serial |-> {}]

Produce(serial, proposed) ==
    /\ Len(inFlight) <= MaxInFlight
    /\ OnPosition(serial, proposed)
    /\ inFlight' = inFlight \o published'
    /\ UNCHANGED <<inside, lastInZones>>

Deliver ==
    /\ inFlight # <<>>
    /\ LET ev == Head(inFlight)
       IN  /\ inside' = [inside EXCEPT ![ev.tag] =
                            IF ev.type = "enter" THEN @ \cup {ev.zone}
                                                 ELSE @ \ {ev.zone}]
           /\ lastInZones' = [lastInZones EXCEPT ![ev.tag] = ev.inZones]
    /\ inFlight' = Tail(inFlight)
    /\ UNCHANGED vars

ConsumerNext ==
    \/ \E serial \in Serial, proposed \in Placement : Produce(serial, proposed)
    \/ Deliver
    \/ (Tick \/ ClockStepsBack) /\ UNCHANGED <<inFlight, inside, lastInZones>>

ConsumerSpec == ConsumerInit /\ [][ConsumerNext]_cvars
-----------------------------------------------------------------------------
CaughtUp(t) == \A i \in DOMAIN inFlight : inFlight[i].tag # t

\* Once a tag's events are delivered, replaying them gives its committed zone
\* set: no event is missing, doubled or about another tag (engine.go:161-222).
ReplayGivesMembership ==
    \A t \in Tracked : CaughtUp(t) => inside[t] = tags[t].committed

\* ... and in_zones of the last one is that set (README.md:232-234,
\* events.go:22-24: "A consumer can read the latest membership directly off
\* any event without maintaining its own state").
LastEventTellsMembership ==
    \A t \in Tracked : CaughtUp(t) => lastInZones[t] = tags[t].committed

\* Between the events of one transition a replaying consumer never sees a tag
\* in zones that no point has in common: exits come before enters
\* (engine.go:161-163, README.md:234-237).
NeverInTwoPlaces == \A t \in Serial : \E z \in Placement : inside[t] \subseteq z

\* No event tells what the consumer knows already: a zone is entered from
\* outside and left from inside (engine.go:204-222).
EventsAlternate ==
    [][inFlight # <<>> /\ inFlight' = Tail(inFlight) =>
        LET ev == Head(inFlight)
        IN  (ev.type = "enter") <=> (ev.zone \notin inside[ev.tag])]_cvars
-----------------------------------------------------------------------------
(***************************************************************************)
(* What carries these properties: the state after k more events, for every *)
(* k up to those in flight.                                                *)
(***************************************************************************)
ConsumerTypeOK ==
    /\ inFlight \in Seq(EventRecord)
    /\ inside \in [Serial -> SUBSET Zone]
    /\ lastInZones \in [Serial -> SUBSET Zone]

Ahead(t, k) == Replayed(inside[t], inFlight, t, k)

\* All events taken, the subscriber has a tag where the engine has it.
AllTaken == \A t \in Serial : Ahead(t, Len(inFlight)) = StateOf(t).committed

\* Each event in flight will be news to the subscriber.
AllNews ==
    \A k \in DOMAIN inFlight :
        LET ev == inFlight[k]
        IN  (ev.type = "enter") <=> (ev.zone \notin Ahead(ev.tag, k - 1))

AllInOnePlace ==
    \A t \in Serial, k \in 0..Len(inFlight) : \E z \in Placement : Ahead(t, k) \subseteq z

\* The last event about a tag has its committed set, on its way or delivered.
LastIsCommitted ==
    \A t \in Serial :
        /\ CaughtUp(t) => lastInZones[t] = StateOf(t).committed
        /\ \A k \in DOMAIN inFlight :
              inFlight[k].tag = t /\ (\A l \in k + 1..Len(inFlight) : inFlight[l].tag # t)
                => inFlight[k].inZones = StateOf(t).committed

\* The inductive invariant: inductive as long as no tag is dropped from inside a
\* zone, for one that is comes back without an event (engine.go:143).
ConsumerInv ==
    /\ EngineInv /\ ConsumerTypeOK
    /\ AllTaken /\ AllNews /\ AllInOnePlace /\ LastIsCommitted
=============================================================================

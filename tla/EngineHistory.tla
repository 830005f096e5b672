---------------------------- MODULE EngineHistory ----------------------------
(***************************************************************************)
(* The engine with history variables: what each tag showed and for how     *)
(* long, how long it was silent in real time, and for how many calls it    *)
(* outlived the moment it went stale.  They only record; the engine's own  *)
(* steps are those of GeofenceEngine.  With them the engine is shown to    *)
(* implement StableMembership.                                             *)
(***************************************************************************)
EXTENDS GeofenceEngine

VARIABLES
    run,            \* tag |-> the zone set last proposed and how often in a row
    silent,         \* tag |-> real ticks since its last position
    overdue         \* tag |-> consecutive calls that left it stale and tracked

hvars == <<vars, run, silent, overdue>>

\* The zone sets that a stable proposal really commits: with a threshold
\* above one the empty set is not among them, since its pending slice is nil
\* and OnPosition restarts the count of a nil candidate (engine.go:110).
CommittableSets == {z \in Placement : z # {} \/ Threshold = 1}

SM == INSTANCE StableMembership WITH
        Tag <- Serial, Value <- Placement, Nothing <- {}, N <- Threshold,
        TTL <- TagTTL, Settling <- CommittableSets,
        member <- [t \in Tracked |-> tags[t].committed]
-----------------------------------------------------------------------------
OverdueBefore(t) == IF t \in Tracked THEN overdue[t] ELSE 0

HistoryInit ==
    /\ Init
    /\ run = [t \in {} |-> [value |-> {}, len |-> 0]]
    /\ silent = [t \in {} |-> 0]
    /\ overdue = [t \in {} |-> 0]

HistoryOnPosition(serial, proposed) ==
    /\ OnPosition(serial, proposed)
    /\ run' = [t \in DOMAIN tags' |->
                  IF t = serial THEN SM!RunAfter(t, proposed) ELSE run[t]]
    /\ silent' = [t \in DOMAIN tags' |-> IF t = serial THEN 0 ELSE silent[t]]
    /\ overdue' = [t \in DOMAIN tags' |->
                      IF TagTTL > 0 /\ Stale(tags'[t], clock)
                      THEN OverdueBefore(t) + 1 ELSE 0]

HistoryTick ==
    /\ Tick
    /\ silent' = [t \in Tracked |->
                    IF silent[t] <= TagTTL THEN silent[t] + 1 ELSE silent[t]]
    /\ UNCHANGED <<run, overdue>>

HistoryClockStepsBack ==
    /\ ClockStepsBack
    /\ UNCHANGED <<run, silent, overdue>>

HistoryNext ==
    \/ \E serial \in Serial, proposed \in Placement :
          HistoryOnPosition(serial, proposed)
    \/ HistoryTick
    \/ HistoryClockStepsBack

HistorySpec == HistoryInit /\ [][HistoryNext]_hvars
-----------------------------------------------------------------------------
HistoryTypeOK ==
    /\ DOMAIN run = Tracked
    /\ DOMAIN silent = Tracked
    /\ DOMAIN overdue = Tracked
    /\ run \in [Tracked -> [value : Placement, len : 1..Threshold]]
    /\ silent \in [Tracked -> 0..TagTTL + 1]
    /\ overdue \in [Tracked -> Nat]

\* The vote of a tag is determined by what it showed last: settled, or a
\* candidate with as many votes as it was shown, or the empty set with one.
RunInv ==
    \A t \in Tracked :
        IF run[t].value = tags[t].committed
        THEN tags[t].pending = {} /\ tags[t].pendingCount = 0
        ELSE /\ Threshold > 1
             /\ tags[t].pending = run[t].value
             /\ tags[t].pendingCount = IF run[t].value = {} THEN 1 ELSE run[t].len

\* The clock never shows more silence than there was.
SilenceInv ==
    \A t \in Tracked : silent[t] <= TagTTL => clock - tags[t].lastSeen <= silent[t]

OverdueInv ==
    TagTTL > 0 => \A t \in Tracked : overdue[t] <= cleanupCounter

HistoryInv == EngineInv /\ HistoryTypeOK /\ RunInv /\ SilenceInv /\ OverdueInv
-----------------------------------------------------------------------------
\* The engine implements the abstract membership: a tag's committed set is the
\* last committable set it showed Threshold times in a row, neither earlier
\* nor later, whatever other tags do and however the sweep and the clock
\* behave; and a tag's state survives every silence up to TagTTL
\* (engine.go:92-147).
ImplementsStableMembership == SM!Spec

\* With the sweep on, no tag is left in the map over CleanupEvery calls after
\* it went stale: the map cannot grow with tags that left (engine.go:126-147).
StaleTagsSwept == TagTTL > 0 => \A t \in Tracked : overdue[t] < CleanupEvery

\* What the README says of hysteresis: a proposed state that held for
\* Threshold consecutive packets is committed, the empty one included
\* (README.md:191-192, engine.go:104-124).
StableProposalCommitted ==
    \A t \in Tracked : run[t].len >= Threshold => tags[t].committed = run[t].value
=============================================================================

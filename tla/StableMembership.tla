--------------------------- MODULE StableMembership ---------------------------
(***************************************************************************)
(* What the geofence engine promises (README "Hysteresis", "Geofence       *)
(* flags"): the membership of a tag is the last value it showed in N       *)
(* consecutive observations, and a tag is forgotten only when it was       *)
(* silent for more than the TTL.  No candidate, no vote count, no sweep    *)
(* schedule and no clock: only what each tag showed and for how long.      *)
(*                                                                         *)
(* Settling is the set of values for which the promise is kept.            *)
(***************************************************************************)
EXTENDS Integers

CONSTANTS
    Tag,            \* who is observed
    Value,          \* what an observation shows
    Nothing,        \* the membership of a tag never observed
    N,              \* the observations that settle a value
    TTL,            \* ticks of silence a tag survives, 0: it is never forgotten
    Settling        \* the values for which the promise is kept

VARIABLES
    member,         \* tag |-> its settled value
    run,            \* tag |-> the last value it showed and how often in a row
    silent          \* tag |-> ticks since it was last observed

vars == <<member, run, silent>>

Known == DOMAIN member

\* Both counts stop at the first value that makes a difference.
Longer(len) == IF len < N THEN len + 1 ELSE N

RunAfter(tag, value) ==
    [value |-> value,
     len |-> IF tag \in Known /\ run[tag].value = value
             THEN Longer(run[tag].len) ELSE 1]

MemberAfter(tag, value) ==
    IF RunAfter(tag, value).len >= N /\ value \in Settling THEN value
    ELSE IF tag \in Known THEN member[tag] ELSE Nothing

Init ==
    /\ member = [t \in {} |-> Nothing]
    /\ run = [t \in {} |-> [value |-> Nothing, len |-> 0]]
    /\ silent = [t \in {} |-> 0]

\* tag shows value; some of the silent tags are forgotten meanwhile.
Observe(tag, value, forgotten) ==
    /\ \A t \in forgotten : TTL > 0 /\ silent[t] > TTL
    /\ LET stay == (Known \cup {tag}) \ forgotten
       IN  /\ member' = [t \in stay |->
                            IF t = tag THEN MemberAfter(tag, value) ELSE member[t]]
           /\ run' = [t \in stay |->
                            IF t = tag THEN RunAfter(tag, value) ELSE run[t]]
           /\ silent' = [t \in stay |-> IF t = tag THEN 0 ELSE silent[t]]

\* A tick of real time.
Elapse ==
    /\ silent' = [t \in Known |->
                    IF silent[t] <= TTL THEN silent[t] + 1 ELSE silent[t]]
    /\ UNCHANGED <<member, run>>

Next ==
    \/ \E tag \in Tag, value \in Value :
          \E forgotten \in SUBSET (Known \ {tag}) : Observe(tag, value, forgotten)
    \/ Elapse

Spec == Init /\ [][Next]_vars
=============================================================================

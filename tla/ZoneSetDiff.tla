----------------------------- MODULE ZoneSetDiff -----------------------------
(***************************************************************************)
(* diffZoneSets (internal/geofence/engine.go): the two-pointer merge that  *)
(* turns two sorted ZoneSets into the names left and the names entered.    *)
(* GeofenceEngine uses what it returns; this module shows that the loop    *)
(* returns it, and ZoneEvents runs it on configured zones.  Names are the  *)
(* ranks of their alphabetical order; indices are one more than Go's.      *)
(***************************************************************************)
EXTENDS Integers, Sequences, FiniteSets, Functions

CONSTANT Name

ASSUME NameAssumption == Name \subseteq Nat

VARIABLES
    prev, next,         \* the arguments
    i, j,               \* the pointers
    exits, enters,      \* the results so far
    returned            \* has the function returned

vars == <<prev, next, i, j, exits, enters, returned>>

IsSorted(s) == \A k, l \in DOMAIN s : k < l => s[k] < s[l]

\* The ZoneSets: sorted names without duplicates.
ZoneSets == {s \in Seq(Name) : IsSorted(s)}

\* Tails the merge appends when one side is exhausted.
Rest(s, k) == SubSeq(s, k, Len(s))
-----------------------------------------------------------------------------
Init ==
    /\ prev \in ZoneSets
    /\ next \in ZoneSets
    /\ i = 1 /\ j = 1
    /\ exits = <<>> /\ enters = <<>>
    /\ returned = FALSE

BothLeft == i <= Len(prev) /\ j <= Len(next)

Same ==
    /\ BothLeft
    /\ prev[i] = next[j]
    /\ i' = i + 1 /\ j' = j + 1
    /\ UNCHANGED <<prev, next, exits, enters, returned>>

Left ==
    /\ BothLeft
    /\ prev[i] < next[j]
    /\ exits' = Append(exits, prev[i])
    /\ i' = i + 1
    /\ UNCHANGED <<prev, next, j, enters, returned>>

\* Mutant: both pointers move.
EnteredSkips ==
    /\ BothLeft
    /\ prev[i] > next[j]
    /\ enters' = Append(enters, next[j])
    /\ i' = i + 1 /\ j' = j + 1
    /\ UNCHANGED <<prev, next, exits, returned>>

Entered ==
    /\ BothLeft
    /\ prev[i] > next[j]
    /\ enters' = Append(enters, next[j])
    /\ j' = j + 1
    /\ UNCHANGED <<prev, next, i, exits, returned>>

\* Mutant: the names left over in next are forgotten.
ReturnForgetsEnters ==
    /\ ~ returned /\ ~ BothLeft
    /\ exits' = exits \o Rest(prev, i)
    /\ returned' = TRUE
    /\ UNCHANGED <<prev, next, i, j, enters>>

Return ==
    /\ ~ returned /\ ~ BothLeft
    /\ exits' = exits \o Rest(prev, i)
    /\ enters' = enters \o Rest(next, j)
    /\ returned' = TRUE
    /\ UNCHANGED <<prev, next, i, j>>

Next == Same \/ Left \/ Entered \/ Return

Spec == Init /\ [][Next]_vars
-----------------------------------------------------------------------------
\* The merge has sorted the first i-1 and j-1 names: what it passed over on
\* one side and did not report, it has passed over on the other; and nothing
\* it passed over is still ahead of the other pointer (engine.go:204-218).
MergeInv ==
    ~ returned =>
        LET passedPrev == {prev[k] : k \in 1..i - 1}
            passedNext == {next[k] : k \in 1..j - 1}
        IN  /\ Range(exits) = passedPrev \ passedNext
            /\ Range(enters) = passedNext \ passedPrev
            /\ \A k \in DOMAIN next : k >= j => next[k] \notin passedPrev
            /\ \A k \in DOMAIN prev : k >= i => prev[k] \notin passedNext

\* The result is what GeofenceEngine takes it for: the names of prev that are
\* not in next and those of next that are not in prev, each once and in order
\* (engine.go:202-222).
DiffCorrect ==
    returned =>
        /\ Range(exits) = Range(prev) \ Range(next)
        /\ Range(enters) = Range(next) \ Range(prev)
        /\ IsSorted(exits) /\ IsSorted(enters)

DiffTypeOK ==
    /\ prev \in ZoneSets /\ next \in ZoneSets
    /\ i \in 1..Len(prev) + 1 /\ j \in 1..Len(next) + 1
    /\ exits \in ZoneSets /\ enters \in ZoneSets
    /\ returned \in BOOLEAN

\* The inductive invariant of the merge: what was collected so far is sorted,
\* and it has returned only with one side run out.
DiffInv == DiffTypeOK /\ (returned => ~ BothLeft) /\ MergeInv /\ DiffCorrect
=============================================================================

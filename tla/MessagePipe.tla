----------------------------- MODULE MessagePipe -----------------------------
(***************************************************************************)
(* What the bridge promises to the readers of its messages and of its      *)
(* counters: datagrams are taken in the order in which they came; of a     *)
(* datagram that is begun every item has its turn, in order, and the       *)
(* events of a position come right after it; each message is told or       *)
(* refused, and counted as that.  The bridge ends between two datagrams,   *)
(* when it was cancelled or has no input, and leaves at most Capacity.     *)
(* No goroutine, channel, socket, engine or NATS connection.               *)
(***************************************************************************)
EXTENDS Integers, Sequences

CONSTANTS
    Datagram,       \* [malformed, sender, items]
    Event,          \* what a position may cause
    Watched,        \* are positions watched
    Capacity        \* the datagrams that may wait

VARIABLES
    phase,          \* "starting", "running" or "ended"
    cancelled,
    input,          \* "none", "open" or "closed"
    waiting,        \* datagrams that came and are not begun
    due,            \* items and events that are to be told
    watching,       \* was the last of them a watched position
    told, refused, discarded    \* the counters

vars == <<phase, cancelled, input, waiting, due, watching, told, refused, discarded>>
-----------------------------------------------------------------------------
Init ==
    /\ phase = "starting" /\ ~ cancelled /\ input = "none"
    /\ waiting = <<>> /\ due = <<>> /\ watching = FALSE
    /\ told = 0 /\ refused = 0 /\ discarded = 0

Start ==
    /\ phase = "starting" /\ phase' = "running"
    /\ input' = "open"
    /\ UNCHANGED <<cancelled, waiting, due, watching, told, refused, discarded>>

FailToStart ==
    /\ phase = "starting" /\ phase' = "ended"
    /\ UNCHANGED <<cancelled, input, waiting, due, watching, told, refused, discarded>>

Cancel ==
    /\ cancelled' = TRUE
    /\ UNCHANGED <<phase, input, waiting, due, watching, told, refused, discarded>>

Come(datagram) ==
    /\ input = "open" /\ Len(waiting) < Capacity
    /\ waiting' = Append(waiting, datagram)
    /\ UNCHANGED <<phase, cancelled, input, due, watching, told, refused, discarded>>

\* The input closes; when cancelled, the last datagram may go with it.
CloseInput ==
    /\ input = "open" /\ input' = "closed"
    /\ \/ UNCHANGED waiting
       \/ cancelled /\ waiting' = SubSeq(waiting, 1, Len(waiting) - 1)
    /\ UNCHANGED <<phase, cancelled, due, watching, told, refused, discarded>>

Idle == phase = "running" /\ due = <<>> /\ ~ watching

Begin ==
    /\ Idle /\ waiting # <<>>
    /\ waiting' = Tail(waiting)
    /\ IF Head(waiting).malformed
       THEN discarded' = discarded + 1 /\ UNCHANGED due
       ELSE due' = Head(waiting).items /\ UNCHANGED discarded
    /\ UNCHANGED <<phase, cancelled, input, watching, told, refused>>

\* A watched position is looked at even when it could not be told.
Position(message) ==
    message \notin Event /\ message.marshals /\ message.position

Tell ==
    /\ phase = "running" /\ due # <<>> /\ ~ watching
    /\ due' = Tail(due)
    /\ watching' = (Watched /\ Position(Head(due)))
    /\ \/ /\ Head(due) \in Event \/ Head(due).marshals
          /\ told' = told + 1 /\ UNCHANGED refused
       \/ refused' = refused + 1 /\ UNCHANGED told
    /\ UNCHANGED <<phase, cancelled, input, waiting, discarded>>

\* The events of a position, perhaps none, are due before all that was.
Watch ==
    /\ phase = "running" /\ watching /\ watching' = FALSE
    /\ LET new == Len(due') - Len(due)
       IN  /\ new >= 0 /\ SubSeq(due', new + 1, Len(due')) = due
           /\ \A n \in 1..new : due'[n] \in Event
    /\ UNCHANGED <<phase, cancelled, input, waiting, told, refused, discarded>>

End ==
    /\ Idle
    /\ cancelled \/ input = "closed"
    /\ phase' = "ended"
    /\ UNCHANGED <<cancelled, input, waiting, due, watching, told, refused, discarded>>

Next ==
    \/ Start \/ FailToStart \/ Cancel \/ (\E d \in Datagram : Come(d)) \/ CloseInput
    \/ Begin \/ Tell \/ Watch \/ End

Spec == Init /\ [][Next]_vars
=============================================================================

----------------------------- MODULE BridgeMetrics -----------------------------
(***************************************************************************)
(* The bridge with its Prometheus counters (internal/metrics/metrics.go    *)
(* and where publish and natsGeofenceSink.Emit increment them), and with   *)
(* history variables that number the datagrams and replay the events that  *)
(* NATS accepted.                                                          *)
(***************************************************************************)
EXTENDS Bridge

CONSTANT MaxRead    \* bound: the datagrams the listener reads

ASSUME MaxReadAssumption == MaxRead \in Nat

VARIABLES
    DatagramsReceived, DecodeErrors, ItemsPublished, PublishErrors, GeofenceEvents,
    readCount,      \* datagrams ReadFromUDP returned; they are numbered from 1
    order,          \* the numbers of: the last one taken, those queued, the one held
    owed,           \* items decoded and events emitted
    inside          \* sender |-> zones by the events that NATS accepted

counters == <<DatagramsReceived, DecodeErrors, ItemsPublished, PublishErrors,
              GeofenceEvents>>
history == <<readCount, order, owed, inside>>
mvars == <<bvars, counters, history>>

MetricsInit ==
    /\ BridgeInit
    /\ DatagramsReceived = 0 /\ DecodeErrors = 0 /\ ItemsPublished = 0
    /\ PublishErrors = 0 /\ GeofenceEvents = 0
    /\ readCount = 0
    /\ order = [taken |-> 0, queued |-> <<>>, held |-> <<>>]
    /\ owed = 0
    /\ inside = [s \in Serial |-> {}]

\* Unlike the code's, these counters are bounded, by the datagrams read.
CountedRead ==
    /\ readCount < MaxRead
    /\ ReadDatagram
    /\ readCount' = readCount + 1
    /\ order' = [order EXCEPT !.held = <<readCount + 1>>]
    /\ UNCHANGED <<counters, owed, inside>>

\* Mutant: a busy channel is skipped, the datagram dropped.
SendOrDrop ==
    /\ \/ SendPacket /\ order' = [order EXCEPT !.queued = @ \o order.held, !.held = <<>>]
       \/ /\ listener = "sending" /\ Len(packets) = QueueCap
          /\ listener' = "reading" /\ held' = <<>>
          /\ order' = [order EXCEPT !.held = <<>>]
          /\ UNCHANGED <<engineVars, ctxDone, runVars, conn, packets, listenErr,
                         metricsVars, natsVars, faults>>
    /\ UNCHANGED <<counters, readCount, owed, inside>>

CountedSend ==
    /\ SendPacket
    /\ order' = [taken |-> order.taken, queued |-> order.queued \o order.held,
                  held |-> <<>>]
    /\ UNCHANGED <<counters, readCount, owed, inside>>

CountedGiveUp ==
    /\ GiveUp
    /\ order' = [order EXCEPT !.held = <<>>]
    /\ UNCHANGED <<counters, readCount, owed, inside>>

\* publish() counts the datagram, then a decode error.
CountedTake ==
    /\ SelectPacket
    /\ DatagramsReceived' = DatagramsReceived + 1
    /\ DecodeErrors' = IF Head(packets).malformed THEN DecodeErrors + 1 ELSE DecodeErrors
    /\ order' = [taken |-> Head(order.queued), queued |-> Tail(order.queued),
                  held |-> order.held]
    /\ owed' = owed + Len(Head(packets).items)
    /\ UNCHANGED <<ItemsPublished, PublishErrors, GeofenceEvents, readCount, inside>>

\* Mutant: only a refusal of a live connection is counted.
CountItemQuietly ==
    /\ ItemsPublished' = IF Accepts THEN ItemsPublished + 1 ELSE ItemsPublished
    /\ PublishErrors' = IF ~ Accepts /\ nats = "connected" THEN PublishErrors + 1
                                                           ELSE PublishErrors

CountItem ==
    /\ ItemsPublished' = IF Accepts THEN ItemsPublished + 1 ELSE ItemsPublished
    /\ PublishErrors' = IF Accepts THEN PublishErrors ELSE PublishErrors + 1

CountedPublish ==
    /\ PublishItem
    /\ CountItem
    /\ UNCHANGED <<DatagramsReceived, DecodeErrors, GeofenceEvents, history>>

CountedMarshalFails ==
    /\ MarshalFails
    /\ PublishErrors' = PublishErrors + 1
    /\ UNCHANGED <<DatagramsReceived, DecodeErrors, ItemsPublished, GeofenceEvents,
                   history>>

CountedCall ==
    /\ CallEngine
    /\ owed' = owed + Len(published')
    /\ UNCHANGED <<counters, readCount, order, inside>>

\* Mutant: a refused event counts as published, as if Emit's nil were success.
CountEventAlways ==
    /\ GeofenceEvents' = GeofenceEvents + 1
    /\ UNCHANGED PublishErrors

CountEvent ==
    /\ GeofenceEvents' = IF Accepts THEN GeofenceEvents + 1 ELSE GeofenceEvents
    /\ PublishErrors' = IF Accepts THEN PublishErrors ELSE PublishErrors + 1

CountedEmit ==
    /\ EmitEvent
    /\ CountEvent
    /\ LET ev == Head(emitting)
       IN  inside' = IF ~ Accepts THEN inside
                     ELSE [inside EXCEPT ![ev.tag] =
                              IF ev.type = "enter" THEN @ \cup {ev.zone}
                                                   ELSE @ \ {ev.zone}]
    /\ UNCHANGED <<DatagramsReceived, DecodeErrors, ItemsPublished, readCount, order,
                   owed>>

Uncounted ==
    /\ \/ Cancel \/ Start \/ SelectDone \/ SelectListenErr \/ FlushAndClose
       \/ SetupFails \/ SetupDone \/ ReadFails \/ ReadClosed \/ CheckError
       \/ CloseSocket \/ PollTags \/ PollDone \/ PollStops
       \/ ServeFails \/ ServeStops \/ NatsChange
    /\ UNCHANGED <<counters, history>>

MetricsNext ==
    \/ CountedRead \/ CountedSend \/ CountedGiveUp \/ CountedTake
    \/ CountedMarshalFails \/ CountedPublish \/ CountedCall \/ CountedEmit \/ Uncounted

MetricsSpec == MetricsInit /\ [][MetricsNext]_mvars
-----------------------------------------------------------------------------
\* Items of the current datagram that are still to be published.
Unpublished == IF run \in {"engine", "emitting"} THEN Len(work) - 1 ELSE Len(work)

\* The pipe's view of the bridge.
Phase ==
    CASE run = "starting" -> "starting"
      [] Running -> "running"
      [] OTHER -> "ended"

Input ==
    CASE listener = "idle" -> "none"
      [] listener = "returned" -> "closed"
      [] OTHER -> "open"

Waiting == packets \o held

\* The messages of the datagram Run is at that are still to be published.
Due ==
    CASE run = "publishing" -> work
      [] run = "engine" -> Tail(work)
      [] run = "emitting" -> emitting \o Tail(work)
      [] OTHER -> <<>>

Watching == run = "engine"

Told == ItemsPublished + GeofenceEvents

Pipe == INSTANCE MessagePipe WITH
    Event <- EventRecord,
    Watched <- GeofenceOn,
    Capacity <- QueueCap + 1,
    phase <- Phase,
    cancelled <- ctxDone,
    input <- Input,
    waiting <- Waiting,
    due <- Due,
    watching <- Watching,
    told <- Told,
    refused <- PublishErrors,
    discarded <- DecodeErrors

\* The bridge implements the pipe: the messages of a datagram are published in
\* their order, each event right behind the position that caused it, and Run
\* ends neither in the middle of a datagram nor unasked, with whatever it does
\* not publish counted or left in the channel (run.go:76-87, publish.go:42-79).
ImplementsMessagePipe == Pipe!Spec

\* Every item and every event ends in exactly one counter, whatever NATS did
\* between two of them (publish.go:42-72, geofence_sink.go:28-46).
CountersAddUp ==
    ItemsPublished + GeofenceEvents + PublishErrors
        = owed - Unpublished - Len(emitting)

\* The datagrams are taken in the order in which they came, none skipped and
\* none twice.  A stop, or a failure that Run sees before it has emptied the
\* channel, loses the last ones only: those queued, and one that the listener
\* held when it was cancelled (listener.go:51-68, run.go:52, 76-86).
OnlyTheTailIsLost ==
    LET line == <<order.taken>> \o order.queued \o order.held
        dropped == readCount - line[Len(line)]
    IN  /\ \A k \in 1..Len(line) - 1 : line[k + 1] = line[k] + 1
        /\ dropped \in 0..1
        /\ dropped = 1 => ctxDone /\ listener = "returned"

\* Between two datagrams, if no publish error was counted, the events sent tell
\* the membership the engine holds (publish.go:73-77, geofence_sink.go:16-22).
StreamTellsMembership ==
    run = "selecting" /\ PublishErrors = 0 =>
        \A s \in Tracked : inside[s] = tags[s].committed
-----------------------------------------------------------------------------
(***************************************************************************)
(* What carries these properties, one conjunct for each.                   *)
(***************************************************************************)
\* The counters count, and add up.
CountsInv ==
    /\ {DatagramsReceived, DecodeErrors, ItemsPublished, PublishErrors,
        GeofenceEvents, owed} \subseteq Nat
    /\ CountersAddUp

\* The last one taken, n queued after it, and those held.
Numbered(taken, n, holds) ==
    [taken |-> taken,
     queued |-> [k \in 1..n |-> taken + k],
     held |-> [k \in 1..holds |-> taken + n + k]]

\* The numbers of the datagrams run on from the last one taken, through those
\* in the channel, to the one the listener holds; at most one came after it.
NumbersInv ==
    LET last == order.taken + Len(packets) + Len(held)
    IN  /\ order.taken \in Nat
        /\ order = Numbered(order.taken, Len(packets), Len(held))
        /\ readCount \in {last, last + 1}
        /\ readCount = last + 1 => ctxDone /\ listener = "returned"

\* As long as nothing was refused, the events still to be published take a
\* subscriber to where the engine has each tag.
SentInv ==
    /\ inside \in [Serial -> SUBSET Zone]
    /\ PublishErrors = 0 =>
          \A s \in Serial :
             Replayed(inside[s], emitting, s, Len(emitting)) = StateOf(s).committed
=============================================================================

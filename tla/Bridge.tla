-------------------------------- MODULE Bridge --------------------------------
(***************************************************************************)
(* The bridge process (internal/cdpbridge): Run's goroutine, the listener  *)
(* it starts, the goroutine that closes the socket on cancellation, the    *)
(* metrics poller and server, and the NATS client and the network around   *)
(* them.                                                                   *)
(*                                                                         *)
(* The listener hands datagrams to Run over a bounded channel.  Run        *)
(* publishes one message per data item, feeds positions to the geofence    *)
(* engine (GeofenceEngine), and publishes the events it emits.  A datagram *)
(* is what Decode makes of it: malformed, or a sender and its items.       *)
(***************************************************************************)
EXTENDS GeofenceEngine

CONSTANTS
    Datagram,       \* what Decode makes of a datagram: [malformed, sender, items]
    QueueCap,       \* capacity of the packets channel (2048 in the code)
    PendingCap,     \* messages the NATS client buffers while reconnecting
    GeofenceOn,     \* Config.Geofence.Enabled()
    MetricsOn,      \* cfg.Metrics.Addr is set
    ReconnectsEnd   \* MaxReconnects is not -1: the client may give up

\* A data item: does json.Marshal take it (a float may be NaN), is it a
\* PositionV3, and which zones contain it.
Item == [marshals : BOOLEAN, position : BOOLEAN, zones : Placement]

\* Decode returns no packet with an error.
ASSUME BridgeAssumption ==
    /\ Datagram \subseteq [malformed : BOOLEAN, sender : Serial, items : Seq(Item)]
    /\ \A d \in Datagram : d.malformed => d.items = <<>>
    /\ QueueCap \in Nat \ {0} /\ PendingCap \in Nat
    /\ {GeofenceOn, MetricsOn, ReconnectsEnd} \subseteq BOOLEAN

VARIABLES
    ctxDone,        \* the context is cancelled
    run,            \* where Run is
    result,         \* what Run returned or is about to return
    sender, work,   \* the decoded datagram being published: what is left of it
    emitting,       \* events of the current position not yet published
    listener,       \* where listen() is
    held,           \* the datagram the listener is sending, as a sequence
    conn,           \* the UDP socket
    packets,        \* the packets channel
    listenErr,      \* the listenErr channel
    poller,         \* where PollGauges is
    server,         \* where metrics.Serve is
    nats,           \* nc.Status()
    pending,        \* messages accepted while reconnecting
    faults          \* the failures met so far: startup, listener, metrics

engineVars == vars
runVars == <<run, result, sender, work, emitting>>
listenerVars == <<listener, held>>
metricsVars == <<poller, server>>
natsVars == <<nats, pending>>
bvars == <<engineVars, ctxDone, runVars, listenerVars, conn, packets, listenErr,
           metricsVars, natsVars, faults>>

Running == run \notin {"starting", "flushing", "returned"}
-----------------------------------------------------------------------------
\* nc.Publish: refused when closed, or when the reconnect buffer is full.
Accepts == nats = "connected" \/ (nats = "reconnecting" /\ pending < PendingCap)

\* Mutant: the client's buffer is taken to be unbounded.
PublishUnbounded ==
    /\ pending' = IF nats = "reconnecting" THEN pending + 1 ELSE pending
    /\ UNCHANGED nats

Publish ==
    /\ pending' = IF Accepts /\ nats = "reconnecting" THEN pending + 1 ELSE pending
    /\ UNCHANGED nats

BridgeInit ==
    /\ Init
    /\ ctxDone = FALSE
    /\ run = "starting" /\ result = "none"
    /\ sender \in Serial /\ work = <<>> /\ emitting = <<>>
    /\ listener = "idle" /\ held = <<>> /\ conn = "none"
    /\ packets = <<>> /\ listenErr = <<>>
    /\ poller = "off" /\ server = "off"
    /\ nats = "none" /\ pending = 0
    /\ faults = {}

\* The signal handler cancels the context.
Cancel ==
    /\ ~ ctxDone
    /\ ctxDone' = TRUE
    /\ UNCHANGED <<engineVars, runVars, listenerVars, conn, packets, listenErr,
                   metricsVars, natsVars, faults>>
-----------------------------------------------------------------------------
(***************************************************************************)
(* Run.                                                                    *)
(***************************************************************************)
\* broker.Connect fails: Run returns at once.
ConnectFails ==
    /\ run = "starting" /\ nats = "none"
    /\ run' = "returned" /\ result' = "error"
    /\ faults' = faults \cup {"startup"}
    /\ UNCHANGED <<engineVars, ctxDone, sender, work, emitting, listenerVars, conn,
                   packets, listenErr, metricsVars, natsVars>>

Connects ==
    /\ run = "starting" /\ nats = "none"
    /\ nats' = "connected"
    /\ UNCHANGED <<engineVars, ctxDone, runVars, listenerVars, conn, packets,
                   listenErr, metricsVars, pending, faults>>

\* Geofence.Build refuses the zones: Run returns through its deferred flush.
BuildFails ==
    /\ run = "starting" /\ nats # "none" /\ GeofenceOn
    /\ run' = "flushing" /\ result' = "error"
    /\ faults' = faults \cup {"startup"}
    /\ UNCHANGED <<engineVars, ctxDone, sender, work, emitting, listenerVars, conn,
                   packets, listenErr, metricsVars, natsVars>>

\* The goroutines are started and Run enters its loop.
StartLoop ==
    /\ run = "starting" /\ nats # "none"
    /\ run' = "selecting"
    /\ listener' = "setup"
    /\ poller' = IF MetricsOn THEN "waiting" ELSE "off"
    /\ server' = IF MetricsOn THEN "serving" ELSE "off"
    /\ UNCHANGED <<engineVars, ctxDone, result, sender, work, emitting, held, conn,
                   packets, listenErr, natsVars, faults>>

\* Mutant: publish() looks at the context between two items.
SelectDoneMidway ==
    /\ run \in {"selecting", "publishing"} /\ ctxDone
    /\ run' = "flushing" /\ result' = "nil"
    /\ UNCHANGED <<engineVars, ctxDone, sender, work, emitting, listenerVars, conn,
                   packets, listenErr, metricsVars, natsVars, faults>>

SelectDone ==
    /\ run = "selecting" /\ ctxDone
    /\ run' = "flushing" /\ result' = "nil"
    /\ UNCHANGED <<engineVars, ctxDone, sender, work, emitting, listenerVars, conn,
                   packets, listenErr, metricsVars, natsVars, faults>>

\* Mutant: the listener's end is logged and the loop goes on.
SelectListenErrLogged ==
    /\ run = "selecting" /\ listenErr # <<>>
    /\ listenErr' = Tail(listenErr)
    /\ UNCHANGED <<engineVars, ctxDone, runVars, listenerVars, conn, packets, metricsVars,
                   natsVars, faults>>

SelectListenErr ==
    /\ run = "selecting" /\ listenErr # <<>>
    /\ run' = "flushing" /\ result' = Head(listenErr)
    /\ listenErr' = Tail(listenErr)
    /\ UNCHANGED <<engineVars, ctxDone, sender, work, emitting, listenerVars, conn,
                   packets, metricsVars, natsVars, faults>>

\* Mutant: nothing is taken from the channel while NATS is away.
SelectPacketWhenConnected ==
    /\ run = "selecting" /\ packets # <<>> /\ nats = "connected"
    /\ packets' = Tail(packets)
    /\ LET d == Head(packets)
       IN  IF d.malformed \/ d.items = <<>>
           THEN UNCHANGED <<run, sender, work>>
           ELSE run' = "publishing" /\ sender' = d.sender /\ work' = d.items
    /\ UNCHANGED <<engineVars, ctxDone, result, emitting, listenerVars, conn,
                   listenErr, metricsVars, natsVars, faults>>

\* A datagram is received and decoded; a malformed one is counted and dropped.
SelectPacket ==
    /\ run = "selecting" /\ packets # <<>>
    /\ packets' = Tail(packets)
    /\ LET d == Head(packets)
       IN  IF d.malformed \/ d.items = <<>>
           THEN UNCHANGED <<run, sender, work>>
           ELSE run' = "publishing" /\ sender' = d.sender /\ work' = d.items
    /\ UNCHANGED <<engineVars, ctxDone, result, emitting, listenerVars, conn,
                   listenErr, metricsVars, natsVars, faults>>

\* Where publish() goes once the head of work is dealt with.
NextItem ==
    /\ work' = Tail(work)
    /\ run' = IF Len(work) = 1 THEN "selecting" ELSE "publishing"

\* json.Marshal refuses the item: it is counted and skipped.
MarshalFails ==
    /\ run = "publishing" /\ ~ Head(work).marshals
    /\ NextItem
    /\ UNCHANGED <<engineVars, ctxDone, result, sender, emitting, listenerVars, conn,
                   packets, listenErr, metricsVars, natsVars, faults>>

\* One item is published, whatever nc.Publish says; a position goes on to the
\* engine.
PublishItem ==
    /\ run = "publishing" /\ Head(work).marshals
    /\ Publish
    /\ IF GeofenceOn /\ Head(work).position
       THEN run' = "engine" /\ UNCHANGED work
       ELSE NextItem
    /\ UNCHANGED <<engineVars, ctxDone, result, sender, emitting, listenerVars, conn,
                   packets, listenErr, metricsVars, faults>>

\* engine.OnPosition: keyed by the packet's sender; while Run is at "engine"
\* the tag map is being read and written.
CallEngine ==
    /\ run = "engine"
    /\ OnPosition(sender, Head(work).zones)
    /\ emitting' = published'
    /\ IF published' = <<>> THEN NextItem ELSE run' = "emitting" /\ UNCHANGED work
    /\ UNCHANGED <<ctxDone, result, sender, listenerVars, conn, packets, listenErr,
                   metricsVars, natsVars, faults>>

\* natsGeofenceSink.Emit: an event that is not accepted is dropped.
EmitEvent ==
    /\ run = "emitting"
    /\ Publish
    /\ emitting' = Tail(emitting)
    /\ IF Len(emitting) = 1 THEN NextItem ELSE UNCHANGED <<run, work>>
    /\ UNCHANGED <<engineVars, ctxDone, result, sender, listenerVars, conn, packets,
                   listenErr, metricsVars, faults>>

\* Mutant: a flush without a timeout waits for the connection to come back.
FlushForever ==
    /\ run = "flushing" /\ nats # "reconnecting"
    /\ run' = "returned"
    /\ nats' = "closed" /\ pending' = 0
    /\ UNCHANGED <<engineVars, ctxDone, result, sender, work, emitting, listenerVars,
                   conn, packets, listenErr, metricsVars, faults>>

\* The deferred FlushTimeout ends, with everything sent or by its timeout, and
\* the connection is closed.
FlushAndClose ==
    /\ run = "flushing"
    /\ run' = "returned"
    /\ nats' = "closed" /\ pending' = 0
    /\ UNCHANGED <<engineVars, ctxDone, result, sender, work, emitting, listenerVars,
                   conn, packets, listenErr, metricsVars, faults>>
-----------------------------------------------------------------------------
(***************************************************************************)
(* listen and the goroutine that closes its socket.                        *)
(***************************************************************************)
\* listen returns: its deferred Close, then `listenErr <- err'.
ListenReturns(err) ==
    /\ listener' = "returned"
    /\ held' = <<>>
    /\ conn' = "closed"
    /\ listenErr' = Append(listenErr, err)

\* A bad group, an unknown interface or a failed bind.
SetupFails ==
    /\ listener = "setup"
    /\ ListenReturns("error")
    /\ faults' = faults \cup {"listener"}
    /\ UNCHANGED <<engineVars, ctxDone, runVars, packets, metricsVars, natsVars>>

SetupDone ==
    /\ listener = "setup"
    /\ listener' = "reading" /\ conn' = "open"
    /\ UNCHANGED <<engineVars, ctxDone, runVars, held, packets, listenErr, metricsVars,
                   natsVars, faults>>

\* ReadFromUDP returns a datagram.
ReadDatagram ==
    /\ listener = "reading" /\ conn = "open"
    /\ \E d \in Datagram : held' = <<d>>
    /\ listener' = "sending"
    /\ UNCHANGED <<engineVars, ctxDone, runVars, conn, packets, listenErr, metricsVars,
                   natsVars, faults>>

\* ReadFromUDP fails on an open socket.
ReadFails ==
    /\ listener = "reading" /\ conn = "open"
    /\ listener' = "failed"
    /\ faults' = faults \cup {"listener"}
    /\ UNCHANGED <<engineVars, ctxDone, runVars, held, conn, packets, listenErr,
                   metricsVars, natsVars>>

\* ReadFromUDP returns because the socket was closed under it.
ReadClosed ==
    /\ listener = "reading" /\ conn = "closed"
    /\ listener' = "failed"
    /\ UNCHANGED <<engineVars, ctxDone, runVars, held, conn, packets, listenErr,
                   metricsVars, natsVars, faults>>

\* Mutant: a read error is always reported.
CheckErrorAlways ==
    /\ listener = "failed"
    /\ ListenReturns("error")
    /\ UNCHANGED <<engineVars, ctxDone, runVars, packets, metricsVars, natsVars, faults>>

\* The read error is an error only if the context is not cancelled.
CheckError ==
    /\ listener = "failed"
    /\ ListenReturns(IF ctxDone THEN "nil" ELSE "error")
    /\ UNCHANGED <<engineVars, ctxDone, runVars, packets, metricsVars, natsVars, faults>>

SendPacket ==
    /\ listener = "sending" /\ Len(packets) < QueueCap
    /\ packets' = packets \o held
    /\ listener' = "reading" /\ held' = <<>>
    /\ UNCHANGED <<engineVars, ctxDone, runVars, conn, listenErr, metricsVars, natsVars,
                   faults>>

\* Mutant: a plain send, that does not watch the context.
NeverGiveUp == FALSE /\ UNCHANGED bvars

\* The select of the send sees the cancelled context.
GiveUp ==
    /\ listener = "sending" /\ ctxDone
    /\ ListenReturns("nil")
    /\ UNCHANGED <<engineVars, ctxDone, runVars, packets, metricsVars, natsVars, faults>>

CloseSocket ==
    /\ ctxDone /\ conn = "open"
    /\ conn' = "closed"
    /\ UNCHANGED <<engineVars, ctxDone, runVars, listenerVars, packets, listenErr,
                   metricsVars, natsVars, faults>>
-----------------------------------------------------------------------------
(***************************************************************************)
(* PollGauges, Serve and the NATS client.                                  *)
(***************************************************************************)
\* The ticker fires and geofenceTags() reads len(e.tags) ...
PollTags ==
    /\ poller = "waiting" /\ GeofenceOn
    /\ poller' = "reading tags"
    /\ UNCHANGED <<engineVars, ctxDone, runVars, listenerVars, conn, packets,
                   listenErr, server, natsVars, faults>>

\* ... and the gauge is set.
PollDone ==
    /\ poller = "reading tags"
    /\ poller' = "waiting"
    /\ UNCHANGED <<engineVars, ctxDone, runVars, listenerVars, conn, packets,
                   listenErr, server, natsVars, faults>>

PollStops ==
    /\ poller = "waiting" /\ ctxDone
    /\ poller' = "returned"
    /\ UNCHANGED <<engineVars, ctxDone, runVars, listenerVars, conn, packets,
                   listenErr, server, natsVars, faults>>

\* Serve returns: its listener failed, which Run only logs, or it was cancelled.
ServeFails ==
    /\ server = "serving"
    /\ server' = "returned"
    /\ faults' = faults \cup {"metrics"}
    /\ UNCHANGED <<engineVars, ctxDone, runVars, listenerVars, conn, packets,
                   listenErr, poller, natsVars>>

ServeStops ==
    /\ server = "serving" /\ ctxDone
    /\ server' = "returned"
    /\ UNCHANGED <<engineVars, ctxDone, runVars, listenerVars, conn, packets,
                   listenErr, poller, natsVars, faults>>

\* The connection to the server breaks, comes back, or is given up.
NatsChange ==
    /\ \/ nats = "connected" /\ nats' = "reconnecting" /\ UNCHANGED pending
       \/ nats = "reconnecting" /\ nats' = "connected" /\ pending' = 0
       \/ nats = "reconnecting" /\ ReconnectsEnd /\ nats' = "closed" /\ pending' = 0
    /\ UNCHANGED <<engineVars, ctxDone, runVars, listenerVars, conn, packets,
                   listenErr, metricsVars, faults>>
-----------------------------------------------------------------------------
Start == ConnectFails \/ Connects \/ BuildFails \/ StartLoop
Work == MarshalFails \/ PublishItem \/ CallEngine \/ EmitEvent \/ FlushAndClose
Listen == SetupFails \/ SetupDone \/ ReadClosed \/ CheckError \/ SendPacket \/ GiveUp

BridgeNext ==
    \/ Cancel \/ Start \/ SelectDone \/ SelectListenErr \/ SelectPacket \/ Work
    \/ Listen \/ ReadDatagram \/ ReadFails \/ CloseSocket
    \/ PollTags \/ PollDone \/ PollStops \/ ServeFails \/ ServeStops \/ NatsChange

\* Goroutines that can run do run.  A select picks uniformly among its ready
\* branches, so one that is ready again and again is taken.  Nothing is asked
\* of the network, the signal, the NATS server or the poller's ticker.
Fairness ==
    /\ WF_bvars(Start) /\ WF_bvars(Work)
    /\ SF_bvars(SelectDone) /\ SF_bvars(SelectListenErr) /\ SF_bvars(SelectPacket)
    /\ WF_bvars(Listen) /\ WF_bvars(CloseSocket)

BridgeSpec == BridgeInit /\ [][BridgeNext]_bvars /\ Fairness
-----------------------------------------------------------------------------
BridgeTypeOK ==
    /\ TypeOK
    /\ ctxDone \in BOOLEAN
    /\ run \in {"starting", "selecting", "publishing", "engine", "emitting",
                "flushing", "returned"}
    /\ result \in {"none", "nil", "error"}
    /\ sender \in Serial /\ work \in Seq(Item) /\ emitting \in Seq(EventRecord)
    /\ listener \in {"idle", "setup", "reading", "sending", "failed", "returned"}
    /\ held \in Seq(Datagram) /\ Len(held) <= 1
    /\ conn \in {"none", "open", "closed"}
    /\ packets \in Seq(Datagram) /\ Len(packets) <= QueueCap
    /\ listenErr \in Seq({"nil", "error"}) /\ Len(listenErr) <= 1
    /\ poller \in {"off", "waiting", "reading tags", "returned"}
    /\ nats \in {"none", "connected", "reconnecting", "closed"}
    /\ pending \in 0..PendingCap
    /\ server \in {"off", "serving", "returned"}
    /\ faults \subseteq {"startup", "listener", "metrics"}

\* What ties the places of Run and the listener to what they carry: Run has an
\* item before it from the first of a datagram to the last, events only while
\* it emits them; the listener has a datagram only while it sends it, and says
\* one thing when it returns (run.go:52-54, 76-90, publish.go:42-79,
\* listener.go:24-70).
ShapeInv ==
    /\ BridgeTypeOK /\ EngineInv
    /\ run \in {"publishing", "engine", "emitting"} <=> work # <<>>
    /\ run = "emitting" <=> emitting # <<>>
    /\ run = "engine" => GeofenceOn /\ Head(work).position
    /\ listener = "sending" <=> held # <<>>
    /\ listener # "returned" => listenErr = <<>>
    /\ run = "starting" => listener = "idle"

\* The process exits with status 0 only when it was asked to stop, and with an
\* error only when the start or the listener failed: closing the socket to wake
\* the listener is not taken for a failure, and the end of the metrics server is
\* none (run.go:17-21, 66-72, 76-80, listener.go:54-58).
ExitStatusTold ==
    /\ result = "nil" => ctxDone
    /\ result = "error" => faults \cap {"startup", "listener"} # {}

\* The invariant that carries ExitStatusTold: what waits in listenErr, or is
\* about to be put there, has its reason already (listener.go:46-58, run.go:54).
ReasonInv ==
    /\ ExitStatusTold
    /\ listenErr \in Seq({"nil", "error"})
    /\ \A k \in DOMAIN listenErr :
          IF listenErr[k] = "nil" THEN ctxDone ELSE "listener" \in faults
    /\ listener = "failed" => ctxDone \/ "listener" \in faults
    /\ conn = "closed" /\ listener \in {"reading", "sending"} => ctxDone

\* Once cancelled, Run returns, however fast datagrams arrive and whatever
\* NATS does (run.go:27-35, 76-80).
CancelReturns == ctxDone ~> run = "returned"

\* Once the listener has ended, Run returns too: the bridge does not stay up
\* without its input (run.go:54, 80-81).
NoRunWithoutListener == listener = "returned" ~> run = "returned"

\* Once cancelled, a listener that was started ends, blocked in a read or on a
\* full channel though it may be (listener.go:45-49, 63-67).
ListenerStops == ctxDone /\ listener # "idle" ~> listener = "returned"

\* A full channel is emptied unless Run has returned: the listener and Run
\* never wait for each other (run.go:76-87, listener.go:63-64).
QueueDrains ==
    Len(packets) = QueueCap ~> Len(packets) < QueueCap \/ run = "returned"

\* What engine.go:37-39 asks of its callers: the Engine is not goroutine-safe,
\* so nobody else looks at it while OnPosition is running.
EngineAccessExclusive == ~ (run = "engine" /\ poller = "reading tags")
=============================================================================

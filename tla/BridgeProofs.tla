----------------------------- MODULE BridgeProofs -----------------------------
(***************************************************************************)
(* Proofs about the bridge process, for every set of datagrams, tags and   *)
(* zones, every capacity and configuration: its shape and its exit status, *)
(* what the counters add up to, which datagrams are lost, what the events  *)
(* sent tell, and that the counted bridge implements MessagePipe.          *)
(***************************************************************************)
EXTENDS BridgeMetrics, GeofenceEngineProofs

\* The network, NATS, the poller, the server and the work on a datagram leave
\* alone all that the exit status depends on.
LEMMA ReasonUntouched ==
    ASSUME ReasonInv,
           UNCHANGED <<ctxDone, result, listener, conn, listenErr>>, faults \subseteq faults'
    PROVE  ReasonInv'
BY DEF ReasonInv, ExitStatusTold

\* What listen returns is put into listenErr with its reason.
LEMMA ReasonReturned ==
    ASSUME ReasonInv, NEW err \in {"nil", "error"}, ListenReturns(err),
           UNCHANGED <<ctxDone, result>>, faults \subseteq faults',
           IF err = "nil" THEN ctxDone ELSE "listener" \in faults'
    PROVE  ReasonInv'
<1>1. listenErr' \in Seq({"nil", "error"})
  BY DEF ReasonInv, ListenReturns
<1>2. \A k \in DOMAIN listenErr' :
         IF listenErr'[k] = "nil" THEN ctxDone' ELSE "listener" \in faults'
  BY DEF ReasonInv, ListenReturns
<1> QED BY <1>1, <1>2 DEF ReasonInv, ExitStatusTold, ListenReturns

\* Before Run starts there is nothing to give a reason for.
LEMMA BridgeStart == BridgeInit => ReasonInv
BY DEF BridgeInit, ReasonInv, ExitStatusTold

\* Every step keeps the reason of what Run will return.
LEMMA BridgeStep == ReasonInv /\ [BridgeNext]_bvars => ReasonInv'
<1> SUFFICES ASSUME ReasonInv, [BridgeNext]_bvars PROVE ReasonInv'
  OBVIOUS
<1> USE DEF runVars, listenerVars, metricsVars, natsVars
<1>1. CASE Cancel
  BY <1>1 DEF Cancel, ReasonInv, ExitStatusTold
<1>2. CASE Start
  <2>1. CASE ConnectFails
    BY <2>1 DEF ConnectFails, ReasonInv, ExitStatusTold
  <2>2. CASE Connects
    BY <2>2, ReasonUntouched DEF Connects
  <2>3. CASE BuildFails
    BY <2>3 DEF BuildFails, ReasonInv, ExitStatusTold
  <2>4. CASE StartLoop
    BY <2>4 DEF StartLoop, ReasonInv, ExitStatusTold
  <2> QED BY <1>2, <2>1, <2>2, <2>3, <2>4 DEF Start
<1>3. CASE SelectDone
  BY <1>3 DEF SelectDone, ReasonInv, ExitStatusTold
<1>4. CASE SelectListenErr
  <2>1. 1 \in DOMAIN listenErr /\ listenErr \in Seq({"nil", "error"})
    BY <1>4 DEF SelectListenErr, ReasonInv
  <2>2. Head(listenErr) = listenErr[1] /\ listenErr[1] \in {"nil", "error"}
    BY <2>1
  <2>3. ExitStatusTold'
    BY <1>4, <2>1, <2>2 DEF SelectListenErr, ReasonInv, ExitStatusTold
  <2>4. /\ listenErr' \in Seq({"nil", "error"})
        /\ \A k \in DOMAIN listenErr' :
              k + 1 \in DOMAIN listenErr /\ listenErr'[k] = listenErr[k + 1]
    BY <1>4, <2>1 DEF SelectListenErr
  <2> QED BY <1>4, <2>3, <2>4 DEF SelectListenErr, ReasonInv
<1>5. CASE SelectPacket
  BY <1>5, ReasonUntouched DEF SelectPacket
<1>6. CASE Work
  BY <1>6, ReasonUntouched
  DEF Work, MarshalFails, PublishItem, CallEngine, EmitEvent, FlushAndClose
<1>7. CASE Listen
  <2>1. CASE SetupFails
    BY <2>1, ReasonReturned DEF SetupFails
  <2>2. CASE SetupDone
    BY <2>2 DEF SetupDone, ReasonInv, ExitStatusTold
  <2>3. CASE ReadClosed
    BY <2>3 DEF ReadClosed, ReasonInv, ExitStatusTold
  <2>4. CASE CheckError
    BY <2>4, ReasonReturned DEF CheckError, ReasonInv
  <2>5. CASE SendPacket
    BY <2>5 DEF SendPacket, ReasonInv, ExitStatusTold
  <2>6. CASE GiveUp
    BY <2>6, ReasonReturned DEF GiveUp
  <2> QED BY <1>7, <2>1, <2>2, <2>3, <2>4, <2>5, <2>6 DEF Listen
<1>8. CASE ReadDatagram
  BY <1>8 DEF ReadDatagram, ReasonInv, ExitStatusTold
<1>9. CASE ReadFails
  BY <1>9 DEF ReadFails, ReasonInv, ExitStatusTold
<1>10. CASE CloseSocket
  BY <1>10 DEF CloseSocket, ReasonInv, ExitStatusTold
<1>11. CASE PollTags \/ PollDone \/ PollStops \/ ServeFails \/ ServeStops \/ NatsChange
  BY <1>11, ReasonUntouched
  DEF PollTags, PollDone, PollStops, ServeFails, ServeStops, NatsChange
<1>12. CASE UNCHANGED bvars
  BY <1>12, ReasonUntouched DEF bvars
<1> QED
  BY <1>1, <1>2, <1>3, <1>4, <1>5, <1>6, <1>7, <1>8, <1>9, <1>10, <1>11, <1>12
  DEF BridgeNext

\* ReasonInv is an invariant of the bridge.
THEOREM ReasonInvariant == BridgeSpec => []ReasonInv
BY BridgeStart, BridgeStep, PTL DEF BridgeSpec

\* The process exits with status 0 only when it was asked to stop, and with an
\* error only when the start or the listener failed (run.go:17-21, 66-72,
\* 76-80, listener.go:54-58): for every stream of datagrams, every capacity of
\* the channel and of the NATS client's buffer, and every configuration.
THEOREM ExitStatus == BridgeSpec => []ExitStatusTold
<1>1. ReasonInv => ExitStatusTold
  BY DEF ReasonInv
<1> QED BY <1>1, ReasonInvariant, PTL
-----------------------------------------------------------------------------
(***************************************************************************)
(* Types and shape.                                                        *)
(***************************************************************************)
\* A queue after its head is taken.
LEMMA QueueTail ==
  ASSUME NEW S, NEW q \in Seq(S), q # <<>>
  PROVE  /\ Tail(q) \in Seq(S) /\ Head(q) \in S
         /\ Len(q) \in Nat \ {0} /\ Len(Tail(q)) = Len(q) - 1
         /\ Tail(q) = <<>> <=> Len(q) = 1
         /\ q = <<Head(q)>> \o Tail(q)
<1>1. /\ Tail(q) \in Seq(S) /\ Head(q) \in S
      /\ Len(q) \in Nat \ {0} /\ Len(Tail(q)) = Len(q) - 1
  OBVIOUS
<1>2. \A s \in Seq(S) : s = <<>> <=> Len(s) = 0
  OBVIOUS
<1>3. Tail(q) = <<>> <=> Len(q) = 1
  <2> DEFINE t == Tail(q)
  <2>1. t \in Seq(S) /\ Len(q) \in Nat \ {0} /\ Len(t) = Len(q) - 1
    BY <1>1
  <2> HIDE DEF t
  <2>2. t = <<>> <=> Len(t) = 0
    BY <1>2, <2>1
  <2>3. Len(t) = 0 <=> Len(q) = 1
    BY <2>1
  <2> QED BY <2>2, <2>3 DEF t
<1>4. q = <<Head(q)>> \o Tail(q)
  OBVIOUS
<1> QED BY <1>1, <1>3, <1>4

\* The work on an item ends with the next one, or with the datagram.
LEMMA NextItemShape ==
  ASSUME work \in Seq(Item), work # <<>>, NextItem
  PROVE  /\ work' \in Seq(Item) /\ work' = Tail(work)
         /\ run' = IF work' = <<>> THEN "selecting" ELSE "publishing"
         /\ run' \in {"selecting", "publishing"}
         /\ Len(work) \in Nat \ {0} /\ Len(work') = Len(work) - 1
BY QueueTail DEF NextItem

\* A datagram's items are begun, or there are none.
LEMMA SelectPacketShape ==
  ASSUME ShapeInv, SelectPacket
  PROVE  /\ packets' \in Seq(Datagram) /\ Len(packets') = Len(packets) - 1
         /\ work' \in Seq(Item) /\ sender' \in Serial
         /\ run' = IF work' = <<>> THEN "selecting" ELSE "publishing"
         /\ packets = <<Head(packets)>> \o packets' /\ Head(packets) \in Datagram
         /\ work = <<>> /\ work' = Head(packets).items
         /\ Len(packets) \in Nat
<1> DEFINE d == Head(packets)
<1>1. packets \in Seq(Datagram) /\ packets # <<>> /\ packets' = Tail(packets)
  BY DEF SelectPacket, ShapeInv, BridgeTypeOK
<1>2. /\ d \in Datagram /\ packets' \in Seq(Datagram) /\ Len(packets') = Len(packets) - 1
      /\ packets = <<d>> \o packets' /\ Len(packets) \in Nat
  BY <1>1
<1>3. /\ d.items \in Seq(Item) /\ d.sender \in Serial
      /\ d.malformed => d.items = <<>>
  BY <1>2, BridgeAssumption
<1>4. run = "selecting" /\ work = <<>> /\ sender \in Serial
  BY DEF SelectPacket, ShapeInv, BridgeTypeOK
<1> HIDE DEF d
<1> QED BY <1>2, <1>3, <1>4 DEF SelectPacket, d

\* At a position the engine is called with its zones.
LEMMA CallEngineShape ==
  ASSUME ShapeInv, CallEngine
  PROVE  /\ work \in Seq(Item) /\ work # <<>> /\ sender \in Serial
         /\ Head(work).zones \in Placement
         /\ OnPosition(sender, Head(work).zones)
         /\ EngineInv' /\ TypeOK' /\ published' \in Seq(EventRecord)
<1>1. work \in Seq(Item) /\ work # <<>> /\ sender \in Serial
  BY DEF CallEngine, ShapeInv, BridgeTypeOK
<1>2. Head(work).zones \in Placement
  <2>1. Head(work) \in Item
    BY <1>1
  <2> QED BY <2>1 DEF Item
<1>3. OnPosition(sender, Head(work).zones) /\ EngineInv
  BY DEF CallEngine, ShapeInv
<1>4. EngineInv'
  <2>1. Next
    BY <1>1, <1>2, <1>3 DEF Next
  <2> QED BY <1>3, <2>1, EngineStep
<1>5. published' \in Seq(EventRecord)
  BY <1>1, <1>2, <1>3, PublishedReplay
<1>6. TypeOK'
  BY <1>4, <1>5 DEF EngineInv, TypeOK, EventRecord
<1> QED BY <1>1, <1>2, <1>3, <1>4, <1>5, <1>6

\* What Publish leaves of the reconnect buffer.
LEMMA PublishShape ==
  ASSUME pending \in 0..PendingCap, Publish PROVE pending' \in 0..PendingCap /\ nats' = nats
BY BridgeAssumption DEF Publish, Accepts

\* The parts of ShapeInv: the places, what Run carries, what the listener does.
PlacesOK ==
    /\ run \in {"starting", "selecting", "publishing", "engine", "emitting",
                "flushing", "returned"}
    /\ result \in {"none", "nil", "error"}
    /\ listener \in {"idle", "setup", "reading", "sending", "failed", "returned"}
    /\ conn \in {"none", "open", "closed"}
    /\ poller \in {"off", "waiting", "reading tags", "returned"}
    /\ nats \in {"none", "connected", "reconnecting", "closed"}
    /\ pending \in 0..PendingCap
    /\ server \in {"off", "serving", "returned"}
    /\ run = "starting" => listener = "idle"

ReasonsOK == ctxDone \in BOOLEAN /\ faults \subseteq {"startup", "listener", "metrics"}

RunCarries ==
    /\ sender \in Serial /\ work \in Seq(Item) /\ emitting \in Seq(EventRecord)
    /\ run \in {"publishing", "engine", "emitting"} <=> work # <<>>
    /\ run = "emitting" <=> emitting # <<>>
    /\ run = "engine" => GeofenceOn /\ Head(work).position

ListenerCarries ==
    /\ held \in Seq(Datagram) /\ Len(held) <= 1
    /\ packets \in Seq(Datagram) /\ Len(packets) <= QueueCap
    /\ listenErr \in Seq({"nil", "error"}) /\ Len(listenErr) <= 1
    /\ listener = "sending" <=> held # <<>>
    /\ listener # "returned" => listenErr = <<>>

\* ShapeInv, by the parts that the actions disturb one by one.
LEMMA ShapeParts ==
  ShapeInv <=> TypeOK /\ EngineInv /\ PlacesOK /\ ReasonsOK
                  /\ RunCarries /\ ListenerCarries
BY DEF ShapeInv, BridgeTypeOK, PlacesOK, ReasonsOK, RunCarries, ListenerCarries

\* Nothing runs before Run is called.
LEMMA BridgeShapeStart == BridgeInit => ShapeInv
<1> SUFFICES ASSUME BridgeInit PROVE ShapeInv
  OBVIOUS
<1>1. EngineInv /\ TypeOK
  BY EngineInit DEF BridgeInit, Init, EngineInv, TypeOK
<1>2. PlacesOK
  BY BridgeAssumption DEF BridgeInit, PlacesOK
<1>3. ReasonsOK
  BY DEF BridgeInit, ReasonsOK
<1>4. RunCarries
  BY DEF BridgeInit, RunCarries
<1>5. ListenerCarries
  BY BridgeAssumption DEF BridgeInit, ListenerCarries
<1> QED BY <1>1, <1>2, <1>3, <1>4, <1>5, ShapeParts

\* Only CallEngine touches the engine.
LEMMA EngineKept ==
  ASSUME ShapeInv, UNCHANGED engineVars PROVE TypeOK' /\ EngineInv'
<1>1. EngineInv'
  BY EngineStep DEF engineVars, ShapeInv
<1>2. published \in Seq(EventRecord) /\ published' = published
  BY DEF engineVars, vars, ShapeInv, BridgeTypeOK, TypeOK
<1>3. EventRecord' = EventRecord
  BY DEF EventRecord
<1> QED BY <1>1, <1>2, <1>3 DEF TypeOK, EngineInv

\* The engine inside the bridge keeps its own invariant.
LEMMA EngineShapeStep == ShapeInv /\ [BridgeNext]_bvars => TypeOK' /\ EngineInv'
<1> SUFFICES ASSUME ShapeInv, [BridgeNext]_bvars PROVE TypeOK' /\ EngineInv'
  OBVIOUS
<1>1. CASE CallEngine
  BY <1>1, CallEngineShape
<1>2. CASE ~ CallEngine
  <2>1. UNCHANGED engineVars
    BY <1>2
    DEF BridgeNext, bvars, Cancel, Start, ConnectFails, Connects, BuildFails, StartLoop,
        SelectDone, SelectListenErr, SelectPacket, Work, MarshalFails, PublishItem,
        EmitEvent, FlushAndClose, Listen, SetupFails, SetupDone, ReadClosed, CheckError,
        SendPacket, GiveUp, ReadDatagram, ReadFails, CloseSocket, PollTags, PollDone,
        PollStops, ServeFails, ServeStops, NatsChange
  <2> QED BY <2>1, EngineKept
<1> QED BY <1>1, <1>2

\* Run goes on and nobody else moves.
LEMMA RunGoesOn ==
  ASSUME PlacesOK, UNCHANGED <<listener, conn, poller, server>>,
         result' \in {result, "nil", "error"}, nats' \in {nats, "closed"},
         pending' \in 0..PendingCap,
         run' \in {"selecting", "publishing", "engine", "emitting", "flushing", "returned"}
  PROVE  PlacesOK'
<1>1. /\ result' \in {"none", "nil", "error"}
      /\ conn' \in {"none", "open", "closed"}
      /\ server' \in {"off", "serving", "returned"}
  BY Zenon DEF PlacesOK
<1>2. /\ listener' \in {"idle", "setup", "reading", "sending", "failed", "returned"}
      /\ poller' \in {"off", "waiting", "reading tags", "returned"}
      /\ nats' \in {"none", "connected", "reconnecting", "closed"}
  BY Zenon DEF PlacesOK
<1>3. /\ run' \in {"starting", "selecting", "publishing", "engine", "emitting",
                   "flushing", "returned"}
      /\ run' # "starting"
  OBVIOUS
<1> QED BY <1>1, <1>2, <1>3, Zenon DEF PlacesOK

\* The listener goes on and nobody else moves.
LEMMA ListenerGoesOn ==
  ASSUME PlacesOK, UNCHANGED <<run, result, poller, nats, pending, server>>,
         listener # "idle", listener' \in {"setup", "reading", "sending", "failed", "returned"},
         conn' \in {conn, "open", "closed"}
  PROVE  PlacesOK'
<1>1. /\ result' \in {"none", "nil", "error"}
      /\ conn' \in {"none", "open", "closed"}
      /\ server' \in {"off", "serving", "returned"}
  BY Zenon DEF PlacesOK
<1>2. /\ run' \in {"starting", "selecting", "publishing", "engine", "emitting",
                   "flushing", "returned"}
      /\ poller' \in {"off", "waiting", "reading tags", "returned"}
      /\ nats' \in {"none", "connected", "reconnecting", "closed"}
      /\ pending' \in 0..PendingCap
      /\ run' # "starting"
  BY Zenon DEF PlacesOK
<1> QED BY <1>1, <1>2, Zenon DEF PlacesOK

\* The program counters of Run, the listener, the poller and the server.
LEMMA PlacesStep == ShapeInv /\ [BridgeNext]_bvars => PlacesOK'
<1> SUFFICES ASSUME ShapeInv, PlacesOK, [BridgeNext]_bvars PROVE PlacesOK'
  BY ShapeParts
<1> USE DEF runVars, listenerVars, metricsVars, natsVars
<1>1. CASE Cancel \/ SelectDone \/ CloseSocket \/ PollTags \/ PollDone \/ PollStops
           \/ ServeFails \/ ServeStops
  BY <1>1
  DEF PlacesOK, Cancel, SelectDone, CloseSocket, PollTags, PollDone, PollStops,
      ServeFails, ServeStops
<1>0. 0 \in 0..PendingCap /\ pending \in 0..PendingCap
  <2>1. 0 \in 0..PendingCap
    BY BridgeAssumption
  <2>2. pending \in 0..PendingCap
    BY Zenon DEF PlacesOK
  <2> QED BY <2>1, <2>2
<1>2. CASE NatsChange \/ UNCHANGED bvars
  BY <1>0, <1>2 DEF PlacesOK, NatsChange, bvars
<1>3. CASE Start
  BY <1>3 DEF PlacesOK, Start, ConnectFails, Connects, BuildFails, StartLoop
<1>4. CASE SelectListenErr
  <2>1. Head(listenErr) \in {"nil", "error"}
    BY <1>4, QueueTail DEF SelectListenErr, ShapeInv, BridgeTypeOK
  <2>2. /\ run' = "flushing" /\ result' = Head(listenErr)
        /\ UNCHANGED <<listener, conn, poller, server, nats, pending>>
    BY <1>4 DEF SelectListenErr
  <2> QED BY <1>0, <2>1, <2>2, RunGoesOn
<1>5. CASE SelectPacket
  <2>1. run' \in {"selecting", "publishing"}
    BY <1>5 DEF SelectPacket
  <2>2. UNCHANGED <<result, listener, conn, poller, server, nats, pending>>
    BY <1>5 DEF SelectPacket
  <2> QED BY <1>0, <2>1, <2>2, RunGoesOn
<1>6. CASE MarshalFails
  <2>1. run' \in {"selecting", "publishing"}
    BY <1>6 DEF MarshalFails, NextItem
  <2>2. UNCHANGED <<result, listener, conn, poller, server, nats, pending>>
    BY <1>6 DEF MarshalFails
  <2> QED BY <1>0, <2>1, <2>2, RunGoesOn
<1>7. CASE PublishItem
  <2>1. pending' \in 0..PendingCap /\ nats' = nats
    BY <1>0, <1>7, PublishShape DEF PublishItem
  <2>2. run' \in {"selecting", "publishing", "engine"}
    BY <1>7 DEF PublishItem, NextItem
  <2>3. UNCHANGED <<result, listener, conn, poller, server>>
    BY <1>7 DEF PublishItem
  <2> QED BY <2>1, <2>2, <2>3, RunGoesOn
<1>8. CASE CallEngine
  <2>1. run' \in {"selecting", "publishing", "emitting"}
    BY <1>8 DEF CallEngine, NextItem
  <2>2. UNCHANGED <<result, listener, conn, poller, server, nats, pending>>
    BY <1>8 DEF CallEngine
  <2> QED BY <1>0, <2>1, <2>2, RunGoesOn
<1>9. CASE EmitEvent
  <2>1. pending' \in 0..PendingCap /\ nats' = nats
    BY <1>0, <1>9, PublishShape DEF EmitEvent
  <2>2. run' \in {"selecting", "publishing", "emitting"}
    BY <1>9 DEF EmitEvent, NextItem
  <2>3. UNCHANGED <<result, listener, conn, poller, server>>
    BY <1>9 DEF EmitEvent
  <2> QED BY <2>1, <2>2, <2>3, RunGoesOn
<1>10. CASE FlushAndClose
  <2>1. /\ run' = "returned" /\ nats' = "closed" /\ pending' = 0
        /\ UNCHANGED <<result, listener, conn, poller, server>>
    BY <1>10 DEF FlushAndClose
  <2> QED BY <1>0, <2>1, RunGoesOn
<1>11. CASE Listen \/ ReadDatagram \/ ReadFails
  <2>1. /\ listener' \in {"reading", "sending", "failed", "returned"}
        /\ listener # "idle" /\ conn' \in {conn, "open", "closed"}
    BY <1>11
    DEF Listen, SetupFails, SetupDone, ReadClosed, CheckError, SendPacket, GiveUp,
        ListenReturns, ReadDatagram, ReadFails
  <2>2. UNCHANGED <<run, result, poller, nats, pending, server>>
    BY <1>11
    DEF Listen, SetupFails, SetupDone, ReadClosed, CheckError, SendPacket, GiveUp,
        ReadDatagram, ReadFails
  <2> QED BY <2>1, <2>2, ListenerGoesOn
<1>12. CASE Work
  BY <1>6, <1>7, <1>8, <1>9, <1>10, <1>12 DEF Work
<1> QED
  BY <1>1, <1>2, <1>3, <1>4, <1>5, <1>11, <1>12 DEF BridgeNext

\* The results and what is in listenErr.
LEMMA ReasonsStep == ShapeInv /\ [BridgeNext]_bvars => ReasonsOK'
<1> SUFFICES ASSUME ReasonsOK, [BridgeNext]_bvars PROVE ReasonsOK'
  BY ShapeParts
<1>1. ctxDone' = ctxDone \/ ctxDone' = TRUE
  BY DEF BridgeNext, bvars, Cancel, Start, ConnectFails, Connects, BuildFails, StartLoop,
         SelectDone, SelectListenErr, SelectPacket, Work, MarshalFails, PublishItem,
         CallEngine, EmitEvent, FlushAndClose, Listen, SetupFails, SetupDone,
         ReadClosed, CheckError, SendPacket, GiveUp, ReadDatagram, ReadFails,
         CloseSocket, PollTags, PollDone, PollStops, ServeFails, ServeStops, NatsChange
<1>2. \E f \in {"startup", "listener", "metrics"} : faults' \in {faults, faults \cup {f}}
  BY DEF BridgeNext, bvars, Cancel, Start, ConnectFails, Connects, BuildFails, StartLoop,
         SelectDone, SelectListenErr, SelectPacket, Work, MarshalFails, PublishItem,
         CallEngine, EmitEvent, FlushAndClose, Listen, SetupFails, SetupDone,
         ReadClosed, CheckError, SendPacket, GiveUp, ReadDatagram, ReadFails,
         CloseSocket, PollTags, PollDone, PollStops, ServeFails, ServeStops, NatsChange
<1> QED BY <1>1, <1>2 DEF ReasonsOK

\* What Run carries between two steps.
LEMMA RunCarriesStep == ShapeInv /\ [BridgeNext]_bvars => RunCarries'
<1> SUFFICES ASSUME ShapeInv, RunCarries, [BridgeNext]_bvars PROVE RunCarries'
  BY ShapeParts
<1> USE DEF runVars, listenerVars, metricsVars, natsVars
<1>1. Item' = Item /\ EventRecord' = EventRecord
  BY DEF Item, EventRecord
<1>2. ASSUME UNCHANGED <<sender, work, emitting>>,
             \/ run' = run
             \/ /\ {run, run'} \cap {"publishing", "engine", "emitting"} = {}
      PROVE  RunCarries'
  BY <1>1, <1>2 DEF RunCarries
<1>3. CASE \/ Cancel \/ Start \/ SelectDone \/ SelectListenErr \/ FlushAndClose
           \/ Listen \/ ReadDatagram \/ ReadFails \/ CloseSocket \/ PollTags \/ PollDone
           \/ PollStops \/ ServeFails \/ ServeStops \/ NatsChange \/ UNCHANGED bvars
  <2>1. /\ UNCHANGED <<sender, work, emitting>>
        /\ \/ run' = run
           \/ run \in {"starting", "selecting", "flushing"}
              /\ run' \in {"selecting", "flushing", "returned"}
    BY <1>3
    DEF bvars, Cancel, Start, ConnectFails, Connects, BuildFails, StartLoop,
        SelectDone, SelectListenErr, FlushAndClose, Listen, SetupFails, SetupDone,
        ReadClosed, CheckError, SendPacket, GiveUp, ReadDatagram, ReadFails,
        CloseSocket, PollTags, PollDone, PollStops, ServeFails, ServeStops, NatsChange
  <2> QED BY <1>2, <2>1
<1>4. CASE SelectPacket
  BY <1>1, <1>4, SelectPacketShape DEF SelectPacket, RunCarries
<1>5. ASSUME NextItem, work # <<>>, emitting' = <<>>, sender' = sender PROVE RunCarries'
  BY <1>1, <1>5, NextItemShape DEF RunCarries
<1>6. CASE MarshalFails
  BY <1>5, <1>6 DEF MarshalFails, RunCarries
<1>7. CASE PublishItem
  BY <1>1, <1>5, <1>7 DEF PublishItem, RunCarries
<1>8. CASE CallEngine
  BY <1>1, <1>5, <1>8, CallEngineShape DEF CallEngine, RunCarries
<1>9. CASE EmitEvent
  <2>1. /\ emitting' \in Seq(EventRecord)
        /\ emitting' = <<>> <=> Len(emitting) = 1
    BY <1>9, QueueTail DEF EmitEvent, RunCarries
  <2> QED BY <1>1, <1>5, <1>9, <2>1 DEF EmitEvent, RunCarries
<1> QED BY <1>3, <1>4, <1>6, <1>7, <1>8, <1>9 DEF BridgeNext, Work

\* What the listener carries between two steps.
LEMMA ListenerCarriesStep == ShapeInv /\ [BridgeNext]_bvars => ListenerCarries'
<1> SUFFICES ASSUME ShapeInv, ListenerCarries, [BridgeNext]_bvars PROVE ListenerCarries'
  BY ShapeParts
<1> USE DEF runVars, listenerVars, metricsVars, natsVars
<1>1. CASE \/ Cancel \/ ConnectFails \/ Connects \/ BuildFails \/ SelectDone \/ Work
           \/ CloseSocket \/ PollTags \/ PollDone
           \/ PollStops \/ ServeFails \/ ServeStops \/ NatsChange \/ UNCHANGED bvars
  <2>1. UNCHANGED <<listener, held, packets, listenErr>>
    BY <1>1
    DEF bvars, Cancel, ConnectFails, Connects, BuildFails, SelectDone, Work,
        MarshalFails, PublishItem, CallEngine, EmitEvent, FlushAndClose, CloseSocket,
        PollTags, PollDone, PollStops, ServeFails, ServeStops, NatsChange
  <2> QED BY <2>1 DEF ListenerCarries
<1>2. CASE StartLoop \/ SetupDone \/ ReadFails \/ ReadClosed
  <2>1. /\ UNCHANGED <<held, packets, listenErr>>
        /\ listener' \notin {"sending", "returned"} /\ listener \notin {"sending", "returned"}
    BY <1>2 DEF StartLoop, SetupDone, ReadFails, ReadClosed, ShapeInv
  <2> QED BY <2>1 DEF ListenerCarries
<1>3. CASE SelectListenErr
  <2>1. /\ listenErr \in Seq({"nil", "error"}) /\ listenErr # <<>> /\ Len(listenErr) <= 1
        /\ listenErr' = Tail(listenErr)
    BY <1>3 DEF SelectListenErr, ListenerCarries
  <2>2. /\ listenErr' \in Seq({"nil", "error"}) /\ Len(listenErr') <= 1
        /\ listener # "returned" => listenErr' = <<>>
    BY <2>1, QueueTail DEF ListenerCarries
  <2> QED BY <1>3, <2>2 DEF SelectListenErr, ListenerCarries
<1>4. CASE SelectPacket
  BY <1>4, SelectPacketShape, BridgeAssumption DEF SelectPacket, ListenerCarries
<1>5. ASSUME NEW err \in {"nil", "error"}, ListenReturns(err), listener # "returned",
             packets' = packets
      PROVE  ListenerCarries'
  <2>1. listenErr' = <<err>>
    BY <1>5 DEF ListenReturns, ListenerCarries
  <2>2. /\ listenErr' \in Seq({"nil", "error"}) /\ Len(listenErr') <= 1
        /\ held' \in Seq(Datagram) /\ Len(held') <= 1 /\ held' = <<>>
    BY <1>5, <2>1 DEF ListenReturns
  <2> QED BY <1>5, <2>2 DEF ListenReturns, ListenerCarries
<1>6. CASE SetupFails \/ CheckError \/ GiveUp
  BY <1>5, <1>6 DEF SetupFails, CheckError, GiveUp
<1>7. CASE SendPacket
  <2>1. packets \in Seq(Datagram) /\ held \in Seq(Datagram) /\ packets' = packets \o held
        /\ Len(packets) < QueueCap /\ Len(held) <= 1
    BY <1>7 DEF SendPacket, ListenerCarries
  <2>2. packets' \in Seq(Datagram) /\ Len(packets') <= QueueCap
    BY <2>1, BridgeAssumption
  <2>3. held' = <<>> /\ held' \in Seq(Datagram) /\ Len(held') <= 1
    BY <1>7 DEF SendPacket
  <2> QED BY <1>7, <2>2, <2>3 DEF SendPacket, ListenerCarries
<1>8. CASE ReadDatagram
  <2>1. held' \in Seq(Datagram) /\ Len(held') <= 1 /\ held' # <<>>
    BY <1>8 DEF ReadDatagram
  <2> QED BY <1>8, <2>1 DEF ReadDatagram, ListenerCarries
<1> QED
  BY <1>1, <1>2, <1>3, <1>4, <1>6, <1>7, <1>8 DEF BridgeNext, Start, Listen

\* All parts together.
LEMMA BridgeShapeStep == ShapeInv /\ [BridgeNext]_bvars => ShapeInv'
<1>1. TypeOK' /\ EngineInv' /\ PlacesOK' /\ ReasonsOK' /\ RunCarries' /\ ListenerCarries'
         => ShapeInv'
  BY DEF ShapeInv, BridgeTypeOK, PlacesOK, ReasonsOK, RunCarries, ListenerCarries
<1> QED
  BY <1>1, EngineShapeStep, PlacesStep, ReasonsStep, RunCarriesStep, ListenerCarriesStep

\* ShapeInv is an invariant of the bridge.
THEOREM ShapeInvariant == BridgeSpec => []ShapeInv
BY BridgeShapeStart, BridgeShapeStep, PTL DEF BridgeSpec

\* Every variable of the bridge keeps its type, the channel and the client's
\* buffer their bounds (run.go:52-54, listener.go:62-67), for every capacity.
THEOREM BridgeTyped == BridgeSpec => []BridgeTypeOK
<1>1. ShapeInv => BridgeTypeOK
  BY DEF ShapeInv
<1> QED BY <1>1, ShapeInvariant, PTL
-----------------------------------------------------------------------------
(***************************************************************************)
(* The counted bridge.                                                     *)
(***************************************************************************)
\* Every step of the counted bridge is one of the bridge.
LEMMA CountedIsBridge == [MetricsNext]_mvars => [BridgeNext]_bvars
BY DEF MetricsNext, mvars, CountedRead, CountedSend, CountedGiveUp, CountedTake,
       CountedMarshalFails, CountedPublish, CountedCall, CountedEmit, Uncounted,
       BridgeNext, Work, Listen

\* The counting does not touch the shape of the bridge.
LEMMA MetricsShape == MetricsSpec => []ShapeInv
<1>1. MetricsInit => ShapeInv
  BY BridgeShapeStart DEF MetricsInit
<1>2. ShapeInv /\ [MetricsNext]_mvars => ShapeInv'
  BY CountedIsBridge, BridgeShapeStep
<1> QED BY <1>1, <1>2, PTL DEF MetricsSpec

\* What an uncounted step leaves alone: all that Run carries.
LEMMA UncountedKeeps ==
  ASSUME ShapeInv, Uncounted \/ UNCHANGED mvars
  PROVE  /\ UNCHANGED <<counters, history, sender, work, emitting, engineVars, packets>>
         /\ \/ run' = run
            \/ /\ run \in {"starting", "selecting", "flushing"}
               /\ run' \in {"selecting", "flushing", "returned"}
         /\ run = "starting" => run' \in {"starting", "selecting", "flushing", "returned"}
         /\ held' = held
         /\ ctxDone => ctxDone'
         /\ listener = "returned" => listener' = "returned"
<1>1. /\ UNCHANGED <<counters, history, sender, work, emitting, packets>>
      /\ UNCHANGED engineVars
  BY DEF mvars, bvars, runVars, Uncounted, Cancel, Start, ConnectFails, Connects,
         BuildFails, StartLoop, SelectDone, SelectListenErr, FlushAndClose, SetupFails,
         SetupDone, ReadFails, ReadClosed, CheckError, CloseSocket, PollTags, PollDone,
         PollStops, ServeFails, ServeStops, NatsChange
<1>2. \/ run' = run
      \/ /\ run \in {"starting", "selecting", "flushing"}
         /\ run' \in {"selecting", "flushing", "returned"}
  BY DEF mvars, bvars, runVars, Uncounted, Cancel, Start, ConnectFails, Connects,
         BuildFails, StartLoop, SelectDone, SelectListenErr, FlushAndClose, SetupFails,
         SetupDone, ReadFails, ReadClosed, CheckError, CloseSocket, PollTags, PollDone,
         PollStops, ServeFails, ServeStops, NatsChange
<1>3. held' = held
  BY DEF mvars, bvars, listenerVars, Uncounted, Cancel, Start, ConnectFails, Connects,
         BuildFails, StartLoop, SelectDone, SelectListenErr, FlushAndClose, SetupFails,
         SetupDone, ReadFails, ReadClosed, CheckError, CloseSocket, PollTags, PollDone,
         PollStops, ServeFails, ServeStops, NatsChange, ListenReturns, ShapeInv
<1>4. ctxDone' = ctxDone \/ ctxDone' = TRUE
  BY DEF mvars, bvars, Uncounted, Cancel, Start, ConnectFails, Connects,
         BuildFails, StartLoop, SelectDone, SelectListenErr, FlushAndClose, SetupFails,
         SetupDone, ReadFails, ReadClosed, CheckError, CloseSocket, PollTags, PollDone,
         PollStops, ServeFails, ServeStops, NatsChange
<1>5. listener = "returned" => listener' = "returned"
  BY DEF mvars, bvars, listenerVars, Uncounted, Cancel, Start, ConnectFails, Connects,
         BuildFails, StartLoop, SelectDone, SelectListenErr, FlushAndClose, SetupFails,
         SetupDone, ReadFails, ReadClosed, CheckError, CloseSocket, PollTags, PollDone,
         PollStops, ServeFails, ServeStops, NatsChange, ListenReturns, ShapeInv
<1> QED BY <1>1, <1>2, <1>3, <1>4, <1>5
-----------------------------------------------------------------------------
(***************************************************************************)
(* The order of the datagrams.                                             *)
(***************************************************************************)
LEMMA QueueLength ==
  ASSUME NEW S, NEW q \in Seq(S) PROVE Len(q) \in Nat /\ (q = <<>> <=> Len(q) = 0)
OBVIOUS

\* How the line moves: a datagram is read, sent, given up, and taken.
LEMMA LineRead ==
  ASSUME NEW t \in Nat, NEW n \in Nat
  PROVE  [Numbered(t, n, 0) EXCEPT !.held = <<t + n + 1>>] = Numbered(t, n, 1)
<1> DEFINE q == [k \in 1..n |-> t + k]
           none == [k \in 1..0 |-> t + n + k]
           one == [k \in 1..1 |-> t + n + k]
<1>1. <<t + n + 1>> = one
  OBVIOUS
<1>2. /\ Numbered(t, n, 0) = [taken |-> t, queued |-> q, held |-> none]
      /\ Numbered(t, n, 1) = [taken |-> t, queued |-> q, held |-> one]
  BY DEF Numbered
<1> HIDE DEF q, none, one
<1> QED BY <1>1, <1>2

\* The listener sends what it holds: the newest number joins the end of the queue.
LEMMA LineSent ==
  ASSUME NEW t \in Nat, NEW n \in Nat
  PROVE  LET line == Numbered(t, n, 1)
         IN  [taken |-> line.taken, queued |-> line.queued \o line.held, held |-> <<>>]
                = Numbered(t, n + 1, 0)
<1> DEFINE old == [k \in 1..n |-> t + k]
           new == [k \in 1..n + 1 |-> t + k]
           one == [k \in 1..1 |-> t + n + k]
<1>1. /\ old \in Seq(Nat) /\ new \in Seq(Nat) /\ one \in Seq(Nat)
      /\ Len(old) = n /\ Len(new) = n + 1 /\ Len(one) = 1
  OBVIOUS
<1>2. Len(old \o one) = n + 1 /\ old \o one \in Seq(Nat)
  BY <1>1
<1>3. ASSUME NEW k \in 1..n + 1 PROVE (old \o one)[k] = new[k]
  BY <1>1
<1> DEFINE none == [k \in 1..0 |-> t + (n + 1) + k]
<1>4. <<>> = none
  OBVIOUS
<1>5. /\ Numbered(t, n, 1) = [taken |-> t, queued |-> old, held |-> one]
      /\ Numbered(t, n + 1, 0) = [taken |-> t, queued |-> new, held |-> none]
  BY DEF Numbered
<1> HIDE DEF old, new, one, none
<1>6. old \o one = new
  BY <1>1, <1>2, <1>3
<1>7. /\ Numbered(t, n, 1).taken = t /\ Numbered(t, n, 1).queued = old
      /\ Numbered(t, n, 1).held = one
  BY <1>5
<1> DEFINE line == Numbered(t, n, 1)
           both == line.queued \o line.held
<1>8. line.taken = t /\ both = new
  BY <1>6, <1>7
<1> HIDE DEF line, both
<1>9. [taken |-> line.taken, queued |-> both, held |-> <<>>] = Numbered(t, n + 1, 0)
  BY <1>4, <1>5, <1>8
<1> QED BY <1>9 DEF line, both

\* A datagram the listener gives up is the newest, so the line stays without gap.
LEMMA LineGivenUp ==
  ASSUME NEW t \in Nat, NEW n \in Nat, NEW h \in Nat
  PROVE  [Numbered(t, n, h) EXCEPT !.held = <<>>] = Numbered(t, n, 0)
<1> DEFINE q == [k \in 1..n |-> t + k]
           none == [k \in 1..0 |-> t + n + k]
           some == [k \in 1..h |-> t + n + k]
<1>1. <<>> = none
  OBVIOUS
<1>2. /\ Numbered(t, n, 0) = [taken |-> t, queued |-> q, held |-> none]
      /\ Numbered(t, n, h) = [taken |-> t, queued |-> q, held |-> some]
  BY DEF Numbered
<1> HIDE DEF q, none, some
<1> QED BY <1>1, <1>2

\* Run takes the head of the channel, which has the next number.
LEMMA LineTaken ==
  ASSUME NEW t \in Nat, NEW n \in Nat \ {0}, NEW h \in Nat
  PROVE  LET line == Numbered(t, n, h)
         IN  [taken |-> Head(line.queued), queued |-> Tail(line.queued), held |-> line.held]
                = Numbered(t + 1, n - 1, h)
<1> DEFINE old == [k \in 1..n |-> t + k]
           new == [k \in 1..n - 1 |-> (t + 1) + k]
<1>1. /\ old \in Seq(Nat) /\ new \in Seq(Nat)
      /\ Len(old) = n /\ Len(new) = n - 1 /\ Head(old) = t + 1
  OBVIOUS
<1>2. Tail(old) \in Seq(Nat) /\ Len(Tail(old)) = n - 1
  BY <1>1
<1>3. ASSUME NEW k \in 1..n - 1 PROVE Tail(old)[k] = new[k]
  BY <1>1
<1> DEFINE some == [k \in 1..h |-> t + n + k]
           same == [k \in 1..h |-> (t + 1) + (n - 1) + k]
<1>4. some = same
  OBVIOUS
<1>5. /\ Numbered(t, n, h) = [taken |-> t, queued |-> old, held |-> some]
      /\ Numbered(t + 1, n - 1, h) = [taken |-> t + 1, queued |-> new, held |-> same]
  BY DEF Numbered
<1> HIDE DEF old, new, some, same
<1>6. Tail(old) = new
  <2> DEFINE tail == Tail(old)
  <2>1. /\ tail \in Seq(Nat) /\ new \in Seq(Nat) /\ Len(tail) = Len(new)
        /\ \A k \in 1..Len(new) : tail[k] = new[k]
    BY <1>1, <1>2, <1>3
  <2> HIDE DEF tail
  <2>2. tail = new
    BY <2>1
  <2> QED BY <2>2 DEF tail
<1> DEFINE line == Numbered(t, n, h)
           first == Head(line.queued)
           rest == Tail(line.queued)
<1>7. line.queued = old /\ line.held = some
  BY <1>5
<1>8. first = t + 1 /\ rest = new /\ line.held = same
  BY <1>1, <1>4, <1>6, <1>7
<1> HIDE DEF line, first, rest
<1>9. [taken |-> first, queued |-> rest, held |-> line.held] = Numbered(t + 1, n - 1, h)
  BY <1>5, <1>8
<1> QED BY <1>9 DEF line, first, rest

\* At the start nothing has come.
LEMMA NumbersStart == MetricsInit => NumbersInv
<1> SUFFICES ASSUME MetricsInit PROVE NumbersInv
  OBVIOUS
<1>1. /\ packets = <<>> /\ held = <<>> /\ readCount = 0
      /\ order = [taken |-> 0, queued |-> <<>>, held |-> <<>>]
  BY DEF MetricsInit, BridgeInit
<1>2. Len(packets) = 0 /\ Len(held) = 0
  BY <1>1
<1>3. <<>> = [k \in 1..0 |-> 0 + k] /\ <<>> = [k \in 1..0 |-> 0 + 0 + k]
  OBVIOUS
<1> QED BY <1>1, <1>2, <1>3 DEF NumbersInv, Numbered

\* A datagram is numbered when it is read, keeps its place in the line from
\* hand to channel, and leaves at the head, or last of all with the listener.
LEMMA NumbersStep == ShapeInv /\ NumbersInv /\ [MetricsNext]_mvars => NumbersInv'
<1> SUFFICES ASSUME ShapeInv, NumbersInv, [MetricsNext]_mvars PROVE NumbersInv'
  OBVIOUS
<1> DEFINE n == Len(packets)
           h == Len(held)
           t == order.taken
<1>1. n \in Nat /\ h \in 0..1 /\ (held = <<>> <=> h = 0)
  <2>1. packets \in Seq(Datagram) /\ held \in Seq(Datagram) /\ Len(held) <= 1
    BY DEF ShapeInv, BridgeTypeOK
  <2>2. n \in Nat /\ h \in Nat /\ h <= 1 /\ (held = <<>> <=> h = 0)
    BY <2>1, QueueLength
  <2> HIDE DEF n, h
  <2> QED BY <2>2
<1>2. /\ t \in Nat /\ order = Numbered(t, n, h) /\ readCount \in {t + n + h, t + n + h + 1}
      /\ readCount = t + n + h + 1 => ctxDone /\ listener = "returned"
  BY DEF NumbersInv
<1> DEFINE Now(taken, queued, holds) ==
             /\ taken \in Nat /\ order' = Numbered(taken, queued, holds)
             /\ Len(packets') = queued /\ Len(held') = holds
<1>3. ASSUME NEW taken \in Nat, NEW queued \in Nat, NEW holds \in Nat,
             Now(taken, queued, holds),
             readCount' = taken + queued + holds
      PROVE  NumbersInv'
  <2>1. order'.taken = taken
    BY <1>3 DEF Numbered
  <2>2. readCount' # taken + queued + holds + 1
    BY <1>3
  <2> QED BY <1>3, <2>1, <2>2 DEF NumbersInv
<1> HIDE DEF n, h, t
<1>4. CASE CountedRead
  <2>1. h = 0 /\ listener = "reading"
    BY <1>1, <1>4 DEF CountedRead, ReadDatagram, ShapeInv
  <2>2. readCount = t + n
    BY <1>1, <1>2, <2>1
  <2>3. Len(held') = 1 /\ Len(packets') = n
    BY <1>4 DEF CountedRead, ReadDatagram, n
  <2>4. order' = [Numbered(t, n, 0) EXCEPT !.held = <<t + n + 1>>] /\ readCount' = t + n + 1
    BY <1>2, <1>4, <2>1, <2>2 DEF CountedRead
  <2>5. Now(t, n, 1)
    BY <1>1, <1>2, <2>3, <2>4, LineRead
  <2> QED BY <1>1, <1>2, <1>3, <2>4, <2>5
<1>5. CASE CountedSend
  <2>1. h = 1 /\ listener # "returned"
    BY <1>1, <1>5 DEF CountedSend, SendPacket, ShapeInv
  <2>2. readCount = t + n + 1
    BY <1>1, <1>2, <2>1
  <2>3. Len(packets') = n + 1 /\ Len(held') = 0
    <3>1. packets \in Seq(Datagram) /\ held \in Seq(Datagram) /\ packets' = packets \o held
      BY <1>5 DEF CountedSend, SendPacket, ShapeInv, BridgeTypeOK
    <3>2. Len(packets \o held) = n + h
      BY <3>1 DEF n, h
    <3>3. Len(held') = 0
      BY <1>5 DEF CountedSend, SendPacket
    <3> QED BY <2>1, <3>1, <3>2, <3>3
  <2>4. /\ order' = [taken |-> order.taken, queued |-> order.queued \o order.held,
                      held |-> <<>>]
        /\ readCount' = readCount
    BY <1>5 DEF CountedSend
  <2>5. order' = Numbered(t, n + 1, 0)
    BY <1>1, <1>2, <2>1, <2>4, LineSent
  <2>6. Now(t, n + 1, 0)
    BY <1>2, <2>3, <2>5
  <2>7. t \in Nat /\ n + 1 \in Nat /\ 0 \in Nat /\ readCount' = t + (n + 1) + 0
    BY <1>1, <1>2, <2>2, <2>4
  <2> HIDE DEF Now
  <2> QED BY <1>3, <2>6, <2>7
<1>6. CASE CountedGiveUp
  <2>1. h = 1 /\ listener # "returned" /\ ctxDone
    BY <1>1, <1>6 DEF CountedGiveUp, GiveUp, ShapeInv
  <2>2. readCount = t + n + 1
    BY <1>1, <1>2, <2>1
  <2>3. /\ Len(packets') = n /\ Len(held') = 0 /\ readCount' = readCount
        /\ listener' = "returned" /\ order' = [order EXCEPT !.held = <<>>]
    BY <1>6 DEF CountedGiveUp, GiveUp, ListenReturns, n
  <2>4. ctxDone'
    BY <1>6, <2>1 DEF CountedGiveUp, GiveUp
  <2>5. order' = Numbered(t, n, 0)
    BY <1>1, <1>2, <2>3, LineGivenUp
  <2>6. order'.taken = t
    BY <2>5 DEF Numbered
  <2> QED BY <1>1, <1>2, <2>2, <2>3, <2>4, <2>5, <2>6 DEF NumbersInv
<1>7. CASE CountedTake
  <2>1. /\ Len(packets') = n - 1 /\ n \in Nat \ {0}
        /\ held' = held /\ listener' = listener /\ ctxDone' = ctxDone
    <3>1. packets' \in Seq(Datagram) /\ Len(packets') = Len(packets) - 1
      BY <1>7, SelectPacketShape DEF CountedTake
    <3>2. Len(packets') \in Nat
      BY <3>1
    <3> QED BY <1>1, <1>7, <3>1, <3>2 DEF CountedTake, SelectPacket, listenerVars, n
  <2>2. /\ order' = [taken |-> Head(order.queued), queued |-> Tail(order.queued),
                      held |-> order.held]
        /\ readCount' = readCount
    BY <1>7 DEF CountedTake
  <2>3. order' = Numbered(t + 1, n - 1, h)
    <3>1. h \in Nat
      BY <1>1
    <3> DEFINE line == Numbered(t, n, h)
    <3>2. [taken |-> Head(line.queued), queued |-> Tail(line.queued), held |-> line.held]
             = Numbered(t + 1, n - 1, h)
      BY <1>2, <2>1, <3>1, LineTaken
    <3> HIDE DEF line
    <3> QED BY <1>2, <2>2, <3>2 DEF line
  <2>4. order'.taken = t + 1
    BY <2>3 DEF Numbered
  <2>5. /\ order' = Numbered(order'.taken, Len(packets'), Len(held'))
        /\ Len(held') = h /\ t + 1 \in Nat
    BY <1>2, <2>1, <2>3, <2>4 DEF h
  <2>6. order'.taken + Len(packets') + Len(held') = t + n + h
    BY <1>1, <1>2, <2>1, <2>4, <2>5
  <2> QED BY <1>1, <1>2, <2>1, <2>2, <2>4, <2>5, <2>6 DEF NumbersInv
<1>8. CASE CountedMarshalFails \/ CountedPublish \/ CountedCall \/ CountedEmit
  <2>1. UNCHANGED <<packets, held, order, readCount, listener, ctxDone>>
    BY <1>8 DEF CountedMarshalFails, CountedPublish, CountedCall, CountedEmit, history,
                MarshalFails, PublishItem, CallEngine, EmitEvent, listenerVars
  <2> QED BY <2>1 DEF NumbersInv
<1>9. CASE Uncounted \/ UNCHANGED mvars
  <2>1. /\ UNCHANGED <<packets, held, order, readCount>>
        /\ ctxDone => ctxDone'
        /\ listener = "returned" => listener' = "returned"
    BY <1>9, UncountedKeeps DEF history
  <2> QED BY <2>1 DEF NumbersInv
<1> QED BY <1>4, <1>5, <1>6, <1>7, <1>8, <1>9 DEF MetricsNext

\* The numbers taken, queued and held follow each other at all times
\* (listener.go:51-68, run.go:76-86).
THEOREM NumbersInvariant == MetricsSpec => []NumbersInv
BY NumbersStart, NumbersStep, MetricsShape, PTL DEF MetricsSpec

\* The datagrams are taken in the order in which they came, none skipped and
\* none twice, and only the last ones are lost (listener.go:51-68, run.go:52,
\* 76-86): for every capacity of the channel.
THEOREM TailOnly == MetricsSpec => []OnlyTheTailIsLost
<1>1. ShapeInv /\ NumbersInv => OnlyTheTailIsLost
  <2> SUFFICES ASSUME ShapeInv, NumbersInv PROVE OnlyTheTailIsLost
    OBVIOUS
  <2> DEFINE n == Len(packets)
             h == Len(held)
             t == order.taken
             queued == [k \in 1..n |-> t + k]
             one == [k \in 1..h |-> t + n + k]
             line == <<t>> \o queued \o one
  <2>1. n \in Nat /\ h \in 0..1
    <3>1. packets \in Seq(Datagram) /\ held \in Seq(Datagram) /\ Len(held) <= 1
      BY DEF ShapeInv, BridgeTypeOK
    <3>2. n \in Nat /\ h \in Nat /\ h <= 1
      BY <3>1, QueueLength
    <3> HIDE DEF n, h
    <3> QED BY <3>2
  <2>2. /\ t \in Nat /\ order = Numbered(t, n, h) /\ readCount \in {t + n + h, t + n + h + 1}
        /\ readCount = t + n + h + 1 => ctxDone /\ listener = "returned"
    BY DEF NumbersInv
  <2> HIDE DEF n, h, t
  <2>3. order.queued = queued /\ order.held = one
    BY <2>2 DEF Numbered
  <2>4. Len(line) = 1 + n + h /\ \A k \in 1..1 + n + h : line[k] = t + (k - 1)
    <3>1. /\ <<t>> \in Seq(Nat) /\ queued \in Seq(Nat) /\ one \in Seq(Nat)
          /\ Len(<<t>>) = 1 /\ Len(queued) = n /\ Len(one) = h
      BY <2>1, <2>2
    <3>2. <<t>>[1] = t /\ (\A k \in 1..n : queued[k] = t + k)
          /\ \A k \in 1..h : one[k] = t + n + k
      BY <2>1, <2>2
    <3> DEFINE last == <<t>>
    <3> HIDE DEF last, queued, one
    <3>3. /\ last \o queued \in Seq(Nat) /\ Len(last \o queued) = 1 + n
          /\ (last \o queued)[1] = t
          /\ \A k \in 1..n : (last \o queued)[1 + k] = t + k
      BY <2>1, <3>1, <3>2 DEF last
    <3> DEFINE front == last \o queued
    <3> HIDE DEF front
    <3>4. Len(front \o one) = 1 + n + h /\ \A k \in 1..1 + n + h : (front \o one)[k] = t + (k - 1)
      <4>1. front \in Seq(Nat) /\ Len(front) = 1 + n /\ one \in Seq(Nat) /\ Len(one) = h
        BY <3>1, <3>3 DEF front
      <4>2. \A k \in 1..1 + n : front[k] = t + (k - 1)
        <5>1. front[1] = t /\ \A k \in 1..n : front[1 + k] = t + k
          BY <3>3 DEF front
        <5> SUFFICES ASSUME NEW k \in 1..1 + n, k # 1 PROVE front[k] = t + (k - 1)
          BY <2>2, <5>1
        <5>2. k - 1 \in 1..n /\ 1 + (k - 1) = k
          BY <2>1
        <5> QED BY <5>1, <5>2
      <4>3. Len(front \o one) = 1 + n + h
        BY <2>1, <4>1
      <4>4. ASSUME NEW k \in 1..1 + n PROVE (front \o one)[k] = t + (k - 1)
        BY <2>1, <2>2, <4>1, <4>2
      <4>5. ASSUME NEW k \in 1..1 + n + h, k \notin 1..1 + n
            PROVE  (front \o one)[k] = t + (k - 1)
        <5>1. k - (1 + n) \in 1..h
          BY <2>1, <4>5
        <5>2. one[k - (1 + n)] = t + n + (k - (1 + n))
          BY <3>2, <5>1
        <5>3. (front \o one)[k] = one[k - (1 + n)]
          BY <2>1, <4>1, <4>5
        <5> QED BY <2>1, <2>2, <5>2, <5>3
      <4> QED BY <4>3, <4>4, <4>5
    <3> QED BY <3>4 DEF front, last
  <2> HIDE DEF line
  <2>5. /\ \A k \in 1..Len(line) - 1 : line[k + 1] = line[k] + 1
        /\ line[Len(line)] = t + n + h
    BY <2>1, <2>2, <2>4
  <2>6. <<order.taken>> \o order.queued \o order.held = line
    BY <2>3 DEF line, t
  <2>7. readCount - line[Len(line)] \in 0..1
        /\ (readCount - line[Len(line)] = 1 => ctxDone /\ listener = "returned")
    BY <2>1, <2>2, <2>5
  <2> QED BY <2>5, <2>6, <2>7 DEF OnlyTheTailIsLost
<1> QED BY <1>1, MetricsShape, NumbersInvariant, PTL
-----------------------------------------------------------------------------
(***************************************************************************)
(* The counters.                                                           *)
(***************************************************************************)
\* What Run carries, as numbers.
LEMMA CarriedLengths ==
  ASSUME ShapeInv
  PROVE  /\ work \in Seq(Item) /\ emitting \in Seq(EventRecord)
         /\ Len(work) \in Nat /\ Len(emitting) \in Nat
         /\ Len(work) = 0 <=> run \notin {"publishing", "engine", "emitting"}
         /\ Len(emitting) = 0 <=> run # "emitting"
<1>1. RunCarries
  BY ShapeParts
<1>2. work \in Seq(Item) /\ emitting \in Seq(EventRecord)
  BY <1>1 DEF RunCarries
<1>3. /\ Len(work) \in Nat /\ Len(emitting) \in Nat
      /\ work = <<>> <=> Len(work) = 0
      /\ emitting = <<>> <=> Len(emitting) = 0
  BY <1>2, QueueLength
<1> QED BY <1>1, <1>2, <1>3 DEF RunCarries

\* The counters start at zero with nothing published (metrics.go:21-55).
LEMMA CountsStart == MetricsInit => CountsInv
<1> SUFFICES ASSUME MetricsInit PROVE CountsInv
  OBVIOUS
<1>1. work = <<>> /\ emitting = <<>> /\ run = "starting"
  BY DEF MetricsInit, BridgeInit
<1>2. Unpublished = 0 /\ Len(emitting) = 0
  BY <1>1 DEF Unpublished
<1> QED BY <1>2 DEF MetricsInit, CountsInv, CountersAddUp

\* Every item and every event moves from what is owed to one counter.
LEMMA CountsStep == ShapeInv /\ CountsInv /\ [MetricsNext]_mvars => CountsInv'
<1> SUFFICES ASSUME ShapeInv, CountsInv, [MetricsNext]_mvars PROVE CountsInv'
  OBVIOUS
<1> DEFINE told == ItemsPublished + GeofenceEvents + PublishErrors
           w == Len(work)
           e == Len(emitting)
<1>1. /\ DatagramsReceived \in Nat /\ DecodeErrors \in Nat /\ ItemsPublished \in Nat
      /\ PublishErrors \in Nat /\ GeofenceEvents \in Nat /\ owed \in Nat
      /\ told = owed - Unpublished - e
  BY DEF CountsInv, CountersAddUp
<1>2. /\ w \in Nat /\ e \in Nat
      /\ w = 0 <=> run \notin {"publishing", "engine", "emitting"}
      /\ e = 0 <=> run # "emitting"
  BY CarriedLengths
<1>3. ASSUME DatagramsReceived' \in Nat, DecodeErrors' \in Nat, ItemsPublished' \in Nat,
             PublishErrors' \in Nat, GeofenceEvents' \in Nat, owed' \in Nat,
             told' = owed' - Unpublished' - e'
      PROVE  CountsInv'
  BY <1>3 DEF CountsInv, CountersAddUp
<1>4. ASSUME NextItem, work # <<>>, run \in {"engine", "emitting"}
      PROVE  Unpublished' = Unpublished
  <2>1. w' = w - 1 /\ run' \notin {"engine", "emitting"}
    BY <1>4, CarriedLengths, NextItemShape
  <2> QED BY <1>4, <2>1 DEF Unpublished
<1>5. ASSUME NextItem, work # <<>>, run = "publishing"
      PROVE  Unpublished' = Unpublished - 1
  <2>1. w' = w - 1 /\ run' \notin {"engine", "emitting"}
    BY <1>5, CarriedLengths, NextItemShape
  <2> QED BY <1>5, <2>1 DEF Unpublished
<1>6. w # 0 => work # <<>>
  OBVIOUS
<1>7. CASE CountedRead \/ CountedSend \/ CountedGiveUp \/ Uncounted \/ UNCHANGED mvars
  <2>1. UNCHANGED <<counters, owed, work, emitting>>
    BY <1>7, UncountedKeeps
    DEF CountedRead, CountedSend, CountedGiveUp, ReadDatagram, SendPacket, GiveUp,
        runVars, history
  <2>2. (run \in {"engine", "emitting"})' <=> run \in {"engine", "emitting"}
    BY <1>7, UncountedKeeps
    DEF CountedRead, CountedSend, CountedGiveUp, ReadDatagram, SendPacket, GiveUp,
        runVars
  <2> QED BY <2>1, <2>2 DEF counters, CountsInv, CountersAddUp, Unpublished
<1>8. CASE CountedTake
  <2>1. /\ work = <<>> /\ work' = Head(packets).items /\ work' \in Seq(Item)
        /\ run = "selecting" /\ run' \in {"selecting", "publishing"}
    BY <1>8, SelectPacketShape DEF CountedTake, SelectPacket
  <2>2. w' \in Nat /\ owed' = owed + w'
    BY <1>8, <2>1, QueueLength DEF CountedTake
  <2>3. Unpublished = 0 /\ Unpublished' = w' /\ e' = e /\ told' = told
    BY <1>8, <2>1 DEF Unpublished, CountedTake, SelectPacket
  <2>4. /\ DatagramsReceived' \in Nat /\ DecodeErrors' \in Nat
        /\ UNCHANGED <<ItemsPublished, PublishErrors, GeofenceEvents>>
    BY <1>1, <1>8 DEF CountedTake
  <2> QED BY <1>1, <1>2, <1>3, <2>2, <2>3, <2>4
<1>9. CASE CountedMarshalFails
  <2>1. Unpublished' = Unpublished - 1 /\ Unpublished \in Nat
    BY <1>2, <1>5, <1>6, <1>9 DEF CountedMarshalFails, MarshalFails, Unpublished
  <2>2. /\ PublishErrors' = PublishErrors + 1 /\ e' = e
        /\ UNCHANGED <<DatagramsReceived, DecodeErrors, ItemsPublished, GeofenceEvents,
                       owed>>
    BY <1>9 DEF CountedMarshalFails, MarshalFails, history
  <2> QED BY <1>1, <1>2, <1>3, <2>1, <2>2
<1>10. CASE CountedPublish
  <2>1. Unpublished' = Unpublished - 1 /\ Unpublished \in Nat
    <3>1. CASE NextItem
      BY <1>2, <1>5, <1>6, <1>10, <3>1 DEF CountedPublish, PublishItem, Unpublished
    <3>2. CASE run' = "engine" /\ UNCHANGED work
      BY <1>2, <1>10, <3>2 DEF CountedPublish, PublishItem, Unpublished
    <3> QED BY <1>10, <3>1, <3>2 DEF CountedPublish, PublishItem
  <2>2. /\ \/ ItemsPublished' = ItemsPublished + 1 /\ PublishErrors' = PublishErrors
           \/ ItemsPublished' = ItemsPublished /\ PublishErrors' = PublishErrors + 1
        /\ e' = e /\ UNCHANGED <<DatagramsReceived, DecodeErrors, GeofenceEvents, owed>>
    <3>1. e' = e
      BY <1>10 DEF CountedPublish, PublishItem
    <3> QED BY <1>10, <3>1 DEF CountedPublish, CountItem, history
  <2>3. ItemsPublished' \in Nat /\ PublishErrors' \in Nat
    BY <1>1, <2>2
  <2>4. told' = owed' - Unpublished' - e'
    BY <1>1, <1>2, <2>1, <2>2
  <2> QED BY <1>1, <1>3, <2>2, <2>3, <2>4
<1>11. CASE CountedCall
  <2>1. published' \in Seq(EventRecord) /\ work # <<>>
    BY <1>11, CallEngineShape DEF CountedCall
  <2>2. e = 0 /\ e' = Len(published') /\ e' \in Nat /\ owed' = owed + e'
    BY <1>2, <1>11, <2>1, QueueLength DEF CountedCall, CallEngine
  <2>3. Unpublished' = Unpublished /\ Unpublished \in Nat
    <3>1. CASE NextItem
      BY <1>2, <1>4, <1>6, <1>11, <2>1, <3>1 DEF CountedCall, CallEngine, Unpublished
    <3>2. CASE run' = "emitting" /\ UNCHANGED work
      BY <1>2, <1>11, <3>2 DEF CountedCall, CallEngine, Unpublished
    <3> QED BY <1>11, <3>1, <3>2 DEF CountedCall, CallEngine
  <2>4. UNCHANGED <<DatagramsReceived, DecodeErrors, ItemsPublished, PublishErrors,
                    GeofenceEvents>>
    BY <1>11 DEF CountedCall, counters
  <2> QED BY <1>1, <1>3, <2>2, <2>3, <2>4
<1>12. CASE CountedEmit
  <2>1. e' = e - 1 /\ e \in Nat \ {0}
    <3>1. emitting \in Seq(EventRecord) /\ emitting # <<>>
      BY <1>2, <1>12, CarriedLengths DEF CountedEmit, EmitEvent
    <3> QED BY <1>12, <3>1, QueueTail DEF CountedEmit, EmitEvent
  <2>2. Unpublished' = Unpublished /\ Unpublished \in Nat
    <3>1. CASE NextItem
      BY <1>2, <1>4, <1>6, <1>12, <3>1 DEF CountedEmit, EmitEvent, Unpublished
    <3>2. CASE UNCHANGED <<run, work>>
      BY <1>2, <1>12, <3>2 DEF CountedEmit, EmitEvent, Unpublished
    <3> QED BY <1>12, <3>1, <3>2 DEF CountedEmit, EmitEvent
  <2>3. /\ \/ GeofenceEvents' = GeofenceEvents + 1 /\ PublishErrors' = PublishErrors
           \/ GeofenceEvents' = GeofenceEvents /\ PublishErrors' = PublishErrors + 1
        /\ UNCHANGED <<DatagramsReceived, DecodeErrors, ItemsPublished, owed>>
    BY <1>12 DEF CountedEmit, CountEvent
  <2> QED BY <1>1, <1>3, <2>1, <2>2, <2>3
<1> QED BY <1>7, <1>8, <1>9, <1>10, <1>11, <1>12 DEF MetricsNext

\* Every item and every event of a position ends in exactly one counter,
\* whatever NATS did in between (publish.go:42-72, geofence_sink.go:28-46).
THEOREM CountersSum == MetricsSpec => []CountersAddUp
<1>1. MetricsSpec => []CountsInv
  BY CountsStart, CountsStep, MetricsShape, PTL DEF MetricsSpec
<1>2. CountsInv => CountersAddUp
  BY DEF CountsInv
<1> QED BY <1>1, <1>2, PTL
-----------------------------------------------------------------------------
(***************************************************************************)
(* The events sent.                                                        *)
(***************************************************************************)
LEMMA SentStart == MetricsInit => SentInv
<1> SUFFICES ASSUME MetricsInit PROVE SentInv
  OBVIOUS
<1>1. /\ emitting = <<>> /\ Len(emitting) = 0 /\ inside = [s \in Serial |-> {}]
      /\ \A s \in Serial : StateOf(s).committed = {}
  BY DEF MetricsInit, BridgeInit, Init, StateOf, Tracked, NewTag
<1>2. \A s \in Serial : Replayed(inside[s], emitting, s, 0) = {}
  BY <1>1 DEF Replayed
<1>3. inside \in [Serial -> SUBSET Zone]
  BY <1>1
<1> QED BY <1>1, <1>2, <1>3 DEF SentInv

\* What a call of the engine emits takes each tag on to where the engine has it.
LEMMA SentCall ==
  ASSUME ForgetsOnlyOutside, ShapeInv, SentInv, CountedCall PROVE SentInv'
<1>1. /\ OnPosition(sender, Head(work).zones) /\ sender \in Serial
      /\ Head(work).zones \in Placement /\ EngineInv
      /\ emitting = <<>> /\ emitting' = published' /\ inside' = inside
      /\ PublishErrors' = PublishErrors
  BY CallEngineShape DEF CountedCall, CallEngine, counters, ShapeInv
<1>2. inside \in [Serial -> SUBSET Zone]
  BY DEF SentInv
<1>3. ASSUME PublishErrors = 0, NEW s \in Serial
      PROVE  Replayed(inside[s], published', s, Len(published')) = StateOf(s)'.committed
  <2>1. inside[s] = StateOf(s).committed
    <3>1. Len(emitting) = 0 /\ inside[s] \in SUBSET Zone
      BY <1>1, <1>2
    <3>2. Replayed(inside[s], emitting, s, 0) = inside[s]
      BY <3>1, ReplayNone
    <3> QED BY <1>3, <3>1, <3>2 DEF SentInv
  <2>2. CASE s = sender
    BY <1>1, <2>1, <2>2, PublishedReplay, MembershipKept
  <2>3. CASE s # sender
    <3>1. published' \in Seq(EventRecord) /\ \A k \in DOMAIN published' : published'[k].tag = sender
      BY <1>1, PublishedReplay
    <3>2. Len(published') \in Nat /\ DOMAIN published' = 1..Len(published')
      BY <3>1
    <3>3. \A k \in 1..Len(published') : published'[k].tag # s
      BY <2>3, <3>1, <3>2
    <3>4. Replayed(inside[s], published', s, Len(published')) = inside[s]
      BY <1>2, <3>2, <3>3, ReplayOthers
    <3> QED BY <1>1, <2>1, <2>3, <3>4, MembershipKept
  <2> QED BY <2>2, <2>3
<1> QED BY <1>1, <1>2, <1>3 DEF SentInv

\* An event that NATS accepts is taken off those to come.
LEMMA SentEmit ==
  ASSUME ShapeInv, CountsInv, SentInv, CountedEmit PROVE SentInv'
<1> DEFINE ev == emitting[1]
<1>1. /\ emitting \in Seq(EventRecord) /\ emitting # <<>> /\ emitting' = Tail(emitting)
      /\ inside \in [Serial -> SUBSET Zone] /\ tags' = tags
  BY DEF CountedEmit, EmitEvent, ShapeInv, BridgeTypeOK, SentInv, engineVars, vars
<1>2. /\ Len(emitting') \in Nat /\ Len(emitting) = Len(emitting') + 1
      /\ \A k \in 1..Len(emitting') : emitting[1 + k] = emitting'[k]
      /\ ev \in EventRecord /\ ev = Head(emitting)
  BY <1>1
<1>3. ev.tag \in Serial /\ ev.zone \in Zone
  BY <1>2 DEF EventRecord
<1>4. inside' = IF ~ Accepts THEN inside
                ELSE [inside EXCEPT ![ev.tag] = IF ev.type = "enter" THEN @ \cup {ev.zone}
                                                                     ELSE @ \ {ev.zone}]
  BY <1>2 DEF CountedEmit
<1>5. inside' \in [Serial -> SUBSET Zone]
  BY <1>1, <1>3, <1>4
<1>6. ASSUME PublishErrors' = 0, NEW s \in Serial
      PROVE  Replayed(inside'[s], emitting', s, Len(emitting')) = StateOf(s)'.committed
  <2>1. Accepts /\ PublishErrors = 0
    BY <1>6 DEF CountedEmit, CountEvent, CountsInv
  <2>2. inside'[s] = After(inside[s], ev, s)
    BY <1>1, <1>3, <1>4, <2>1 DEF After
  <2> DEFINE k == Len(emitting')
  <2>3. /\ inside[s] \in SUBSET Zone /\ emitting[1].zone \in Zone /\ k \in Nat
        /\ \A i \in 1..k : emitting[1 + i] = emitting'[i]
    BY <1>1, <1>2, <1>3
  <2> HIDE DEF k
  <2>4. Replayed(inside[s], emitting, s, k + 1) =
           Replayed(After(inside[s], emitting[1], s), emitting', s, k)
    BY <2>3, ReplayHead
  <2>5. Replayed(inside[s], emitting, s, k + 1) = StateOf(s).committed
    BY <1>2, <2>1 DEF SentInv, k
  <2>6. StateOf(s)' = StateOf(s)
    BY <1>1 DEF StateOf, Tracked
  <2> QED BY <2>2, <2>4, <2>5, <2>6 DEF k
<1> QED BY <1>5, <1>6 DEF SentInv

\* Only a call of the engine and the emission of an event touch what SentInv
\* relates.
LEMMA SentStep ==
  ASSUME ShapeInv, CountsInv, SentInv, [MetricsNext]_mvars, [ForgetsOnlyOutside]_mvars
  PROVE  SentInv'
<1>1. CASE CountedCall /\ ~ UNCHANGED mvars
  BY <1>1, SentCall
<1>2. CASE CountedEmit
  BY <1>2, SentEmit
<1>3. CASE (~ CountedCall /\ ~ CountedEmit) \/ UNCHANGED mvars
  <2>1. UNCHANGED <<emitting, tags, inside>>
    <3>1. CASE Uncounted \/ UNCHANGED mvars
      BY <3>1, UncountedKeeps DEF history, engineVars, vars
    <3>2. CASE \/ CountedRead \/ CountedSend \/ CountedGiveUp \/ CountedTake
               \/ CountedMarshalFails \/ CountedPublish
      BY <3>2 DEF CountedRead, CountedSend, CountedGiveUp, CountedTake,
        CountedMarshalFails, CountedPublish, ReadDatagram, SendPacket, GiveUp,
        SelectPacket, MarshalFails, PublishItem, history, engineVars, vars, runVars
    <3> QED BY <1>3, <3>1, <3>2 DEF MetricsNext
  <2>2. PublishErrors' = PublishErrors \/ PublishErrors' = PublishErrors + 1
    <3>1. CASE Uncounted \/ UNCHANGED mvars
      BY <3>1, UncountedKeeps DEF counters
    <3>2. CASE \/ CountedRead \/ CountedSend \/ CountedGiveUp \/ CountedTake
               \/ CountedMarshalFails \/ CountedPublish
      BY <3>2 DEF CountedRead, CountedSend, CountedGiveUp, CountedTake,
        CountedMarshalFails, CountedPublish, CountItem, counters
    <3> QED BY <1>3, <3>1, <3>2 DEF MetricsNext
  <2>3. PublishErrors' = 0 => PublishErrors = 0
    BY <2>2 DEF CountsInv
  <2>4. \A s : StateOf(s)' = StateOf(s)
    BY <2>1 DEF StateOf, Tracked
  <2> QED BY <2>1, <2>3, <2>4 DEF SentInv
<1> QED BY <1>1, <1>2, <1>3

\* Between two datagrams, if no publish error was counted, the events sent tell
\* the membership the engine holds (publish.go:73-77, geofence_sink.go:16-22),
\* as long as no tag is dropped from inside a zone.
THEOREM StreamTells ==
  MetricsSpec /\ [][ForgetsOnlyOutside]_mvars => []StreamTellsMembership
<1>1. MetricsSpec => []CountsInv
  BY CountsStart, CountsStep, MetricsShape, PTL DEF MetricsSpec
<1>2. MetricsInit => SentInv
  BY SentStart
<1>3. ShapeInv /\ CountsInv /\ SentInv /\ [MetricsNext]_mvars /\ [ForgetsOnlyOutside]_mvars
        => SentInv'
  BY SentStep
<1>4. ShapeInv /\ SentInv => StreamTellsMembership
  <2> SUFFICES ASSUME ShapeInv, SentInv, run = "selecting", PublishErrors = 0,
                      NEW s \in Tracked
               PROVE  inside[s] = tags[s].committed
    BY DEF StreamTellsMembership
  <2>1. emitting = <<>> /\ Len(emitting) = 0
    BY DEF ShapeInv
  <2>2. s \in Serial /\ StateOf(s) = tags[s]
    BY DEF ShapeInv, EngineInv, StateTypeOK, StateOf
  <2>3. inside[s] \in SUBSET Zone
    BY <2>2 DEF SentInv
  <2>4. Replayed(inside[s], emitting, s, 0) = inside[s]
    BY <2>3, ReplayNone
  <2> QED BY <2>1, <2>2, <2>4 DEF SentInv
<1> QED BY <1>1, <1>2, <1>3, <1>4, MetricsShape, PTL DEF MetricsSpec
-----------------------------------------------------------------------------
(***************************************************************************)
(* The bridge implements the pipe: one lemma for each kind of step.        *)
(***************************************************************************)
LEMMA PipeStart == MetricsInit => Pipe!Init
<1> SUFFICES ASSUME MetricsInit PROVE Pipe!Init
  OBVIOUS
<1>1. /\ run = "starting" /\ listener = "idle" /\ packets = <<>> /\ held = <<>> /\ ~ ctxDone
      /\ ItemsPublished = 0 /\ GeofenceEvents = 0 /\ PublishErrors = 0 /\ DecodeErrors = 0
  BY DEF MetricsInit, BridgeInit
<1>2. Phase = "starting" /\ Input = "none"
  BY <1>1 DEF Phase, Running, Input
<1>3. Due = <<>>
  BY <1>1 DEF Due
<1>4. Watching = FALSE
  BY <1>1 DEF Watching
<1>5. Waiting = <<>> /\ Told = 0
  BY <1>1 DEF Waiting, Told
<1> QED BY <1>1, <1>2, <1>3, <1>4, <1>5 DEF Pipe!Init

\* Two queues, one behind the other.
LEMMA QueueJoin ==
  ASSUME NEW S, NEW a \in Seq(S), NEW b \in Seq(S)
  PROVE  /\ a \o b \in Seq(S) /\ Len(a) \in Nat /\ Len(b) \in Nat
         /\ Len(a \o b) = Len(a) + Len(b)
         /\ SubSeq(a \o b, 1, Len(a)) = a
         /\ SubSeq(a \o b, Len(a) + 1, Len(a) + Len(b)) = b
         /\ \A k \in 1..Len(a) : (a \o b)[k] = a[k] /\ a[k] \in S
<1>1. /\ a \o b \in Seq(S) /\ Len(a) \in Nat /\ Len(b) \in Nat
      /\ Len(a \o b) = Len(a) + Len(b)
      /\ \A k \in 1..Len(a) : (a \o b)[k] = a[k] /\ a[k] \in S
  OBVIOUS
<1>2. SubSeq(a \o b, 1, Len(a)) = a
  OBVIOUS
<1>3. SubSeq(a \o b, Len(a) + 1, Len(a) + Len(b)) = b
  OBVIOUS
<1> QED BY <1>1, <1>2, <1>3

\* The head and tail of two sequences joined, the first of which is not empty.
LEMMA JoinedHead ==
  ASSUME NEW S, NEW a, NEW b, NEW q, a \in Seq(S), b \in Seq(S), a # <<>>, q = a \o b
  PROVE  q # <<>> /\ Head(q) = Head(a) /\ Tail(q) = Tail(a) \o b
OBVIOUS

\* What a step leaves alone, the pipe's view of it leaves alone.
LEMMA SameView ==
  /\ run' = run => Phase' = Phase /\ Watching' = Watching
  /\ UNCHANGED <<run, work, emitting>> => Due' = Due
  /\ listener' = listener => Input' = Input
  /\ UNCHANGED <<packets, held>> => Waiting' = Waiting
  /\ UNCHANGED counters => /\ Told' = Told /\ PublishErrors' = PublishErrors
                           /\ DecodeErrors' = DecodeErrors
<1>1. run' = run => Phase' = Phase /\ Watching' = Watching
  BY DEF Phase, Running, Watching
<1>2. UNCHANGED <<run, work, emitting>> => Due' = Due
  BY DEF Due
<1>3. listener' = listener => Input' = Input
  BY DEF Input
<1>4. UNCHANGED <<packets, held>> => Waiting' = Waiting
  BY DEF Waiting
<1>5. UNCHANGED counters => /\ Told' = Told /\ PublishErrors' = PublishErrors
                            /\ DecodeErrors' = DecodeErrors
  BY DEF counters, Told
<1> QED BY <1>1, <1>2, <1>3, <1>4, <1>5

\* Outside of a datagram nothing is due.
LEMMA NothingDue ==
  /\ run \in {"starting", "selecting", "flushing", "returned"}
        => Due = <<>> /\ Watching = FALSE
  /\ run = "selecting" => Pipe!Idle
<1>1. run \in {"starting", "selecting", "flushing", "returned"}
         => Due = <<>> /\ Watching = FALSE
  BY DEF Due, Watching
<1>2. run = "selecting" => Phase = "running"
  BY DEF Phase, Running
<1> QED BY <1>1, <1>2 DEF Pipe!Idle

\* The start, the end and the signal.
LEMMA PipeRun ==
  ASSUME ShapeInv, Cancel \/ Start \/ SelectDone \/ SelectListenErr \/ FlushAndClose,
         UNCHANGED counters
  PROVE  Pipe!Next \/ UNCHANGED Pipe!vars
<1> USE DEF runVars, listenerVars
<1>1. CASE Cancel
  <2>1. UNCHANGED <<Phase, Input, Waiting, Due, Watching, Told, PublishErrors, DecodeErrors>>
        /\ ctxDone' = TRUE
    BY <1>1, SameView DEF Cancel
  <2>2. Pipe!Cancel
    BY <2>1 DEF Pipe!Cancel
  <2> QED BY <2>2 DEF Pipe!Next
<1>2. CASE ConnectFails \/ BuildFails
  <2>1. /\ UNCHANGED <<Input, Waiting, Told, PublishErrors, DecodeErrors, ctxDone>>
        /\ run = "starting" /\ run' \in {"flushing", "returned"}
    BY <1>2, SameView DEF ConnectFails, BuildFails
  <2>2. Due = <<>> /\ Due' = <<>> /\ Watching = FALSE /\ Watching' = FALSE
    BY <2>1 DEF Due, Watching
  <2>3. Phase = "starting" /\ Phase' = "ended"
    BY <2>1 DEF Phase, Running
  <2>4. Pipe!FailToStart
    BY <2>1, <2>2, <2>3 DEF Pipe!FailToStart
  <2> QED BY <2>4 DEF Pipe!Next
<1>3. CASE Connects
  <2>1. UNCHANGED <<Phase, Input, Waiting, Due, Watching, Told, PublishErrors, DecodeErrors,
                    ctxDone>>
    BY <1>3, SameView DEF Connects
  <2> QED BY <2>1 DEF Pipe!vars
<1>4. CASE StartLoop
  <2>1. /\ UNCHANGED <<Waiting, Told, PublishErrors, DecodeErrors, ctxDone>>
        /\ run = "starting" /\ run' = "selecting" /\ listener' = "setup"
    BY <1>4, SameView DEF StartLoop
  <2>2. Due = <<>> /\ Due' = <<>> /\ Watching = FALSE /\ Watching' = FALSE
    BY <2>1 DEF Due, Watching
  <2>3. Phase = "starting" /\ Phase' = "running" /\ Input' = "open"
    BY <2>1 DEF Phase, Running, Input
  <2>4. Pipe!Start
    BY <2>1, <2>2, <2>3 DEF Pipe!Start
  <2> QED BY <2>4 DEF Pipe!Next
<1>5. CASE SelectDone \/ SelectListenErr
  <2>1. /\ UNCHANGED <<Input, Waiting, Told, PublishErrors, DecodeErrors, ctxDone>>
        /\ run = "selecting" /\ run' = "flushing"
    BY <1>5, SameView DEF SelectDone, SelectListenErr
  <2>2. ctxDone \/ Input = "closed"
    <3>1. CASE SelectDone
      BY <3>1 DEF SelectDone
    <3>2. CASE SelectListenErr
      <4>1. listener = "returned"
        BY <3>2 DEF SelectListenErr, ShapeInv
      <4> QED BY <4>1 DEF Input
    <3> QED BY <1>5, <3>1, <3>2
  <2>3. Due = <<>> /\ Due' = <<>> /\ Watching = FALSE /\ Watching' = FALSE
    BY <2>1 DEF Due, Watching
  <2>4. Phase' = "ended" /\ Pipe!Idle
    BY <2>1, NothingDue DEF Phase, Running
  <2>5. Pipe!End
    BY <2>1, <2>2, <2>3, <2>4 DEF Pipe!End
  <2> QED BY <2>5 DEF Pipe!Next
<1>6. CASE FlushAndClose
  <2>1. /\ UNCHANGED <<Input, Waiting, Told, PublishErrors, DecodeErrors, ctxDone>>
        /\ run = "flushing" /\ run' = "returned"
    BY <1>6, SameView DEF FlushAndClose
  <2>2. UNCHANGED <<Due, Watching, Phase>>
    BY <2>1 DEF Due, Watching, Phase, Running
  <2> QED BY <2>1, <2>2 DEF Pipe!vars
<1> QED BY <1>1, <1>2, <1>3, <1>4, <1>5, <1>6 DEF Start

\* The listener: a datagram waits from the moment it is read; the last one may
\* go with the input.
LEMMA PipeListener ==
  ASSUME ShapeInv,
         \/ SetupFails \/ SetupDone \/ ReadFails \/ ReadClosed \/ CheckError
         \/ ReadDatagram \/ SendPacket \/ GiveUp,
         UNCHANGED counters
  PROVE  Pipe!Next \/ UNCHANGED Pipe!vars
<1> USE DEF runVars
<1>1. packets \in Seq(Datagram) /\ held \in Seq(Datagram) /\ Len(packets) <= QueueCap
      /\ QueueCap \in Nat /\ (held # <<>> <=> listener = "sending") /\ Len(held) <= 1
  BY BridgeAssumption DEF ShapeInv, BridgeTypeOK
<1>2. /\ UNCHANGED <<Phase, Due, Watching, Told, PublishErrors, DecodeErrors>>
      /\ ctxDone' = ctxDone
  <2>1. UNCHANGED <<run, work, emitting>>
    BY DEF SetupFails, SetupDone, ReadFails, ReadClosed, CheckError, ReadDatagram,
           SendPacket, GiveUp
  <2>2. ctxDone' = ctxDone
    BY DEF SetupFails, SetupDone, ReadFails, ReadClosed, CheckError, ReadDatagram,
           SendPacket, GiveUp
  <2> QED BY <2>1, <2>2, SameView
<1>3. CASE SetupFails \/ CheckError
  <2>1. /\ held = <<>> /\ held' = <<>> /\ packets' = packets
        /\ listener \in {"setup", "failed"} /\ listener' = "returned"
    BY <1>1, <1>3 DEF SetupFails, CheckError, ListenReturns
  <2>2. Waiting' = Waiting /\ Input = "open" /\ Input' = "closed"
    BY <2>1 DEF Waiting, Input
  <2>3. Pipe!CloseInput
    BY <1>2, <2>2 DEF Pipe!CloseInput
  <2> QED BY <2>3 DEF Pipe!Next
<1>4. CASE SetupDone \/ ReadFails \/ ReadClosed
  <2>1. /\ UNCHANGED <<packets, held>>
        /\ listener \in {"setup", "reading"} /\ listener' \in {"reading", "failed"}
    BY <1>4 DEF SetupDone, ReadFails, ReadClosed
  <2>2. Waiting' = Waiting /\ Input' = Input
    BY <2>1 DEF Waiting, Input
  <2> QED BY <1>2, <2>2 DEF Pipe!vars
<1>5. CASE ReadDatagram
  <2>1. PICK d \in Datagram : held' = <<d>>
    BY <1>5 DEF ReadDatagram
  <2>2. held = <<>> /\ packets' = packets /\ listener = "reading" /\ listener' = "sending"
    BY <1>1, <1>5 DEF ReadDatagram
  <2>3. Waiting = packets /\ Waiting' = Append(Waiting, d)
    BY <1>1, <2>1, <2>2 DEF Waiting
  <2>4. Input = "open" /\ Input' = Input
    BY <2>2 DEF Input
  <2>5. Len(Waiting) < QueueCap + 1
    BY <1>1, <2>3
  <2>6. Pipe!Come(d)
    BY <1>2, <2>3, <2>4, <2>5 DEF Pipe!Come
  <2> QED BY <2>6 DEF Pipe!Next
<1>6. CASE SendPacket
  <2>1. /\ packets' = packets \o held /\ held' = <<>>
        /\ listener = "sending" /\ listener' = "reading"
    BY <1>6 DEF SendPacket
  <2>2. Waiting' = Waiting
    <3>1. packets \o held \in Seq(Datagram)
      BY <1>1
    <3>2. (packets \o held) \o <<>> = packets \o held
      BY <3>1
    <3> QED BY <2>1, <3>2 DEF Waiting
  <2>3. Input' = Input
    BY <2>1 DEF Input
  <2> QED BY <1>2, <2>2, <2>3 DEF Pipe!vars
<1>7. CASE GiveUp
  <2>1. /\ packets' = packets /\ held' = <<>> /\ held # <<>>
        /\ listener = "sending" /\ listener' = "returned" /\ ctxDone
    BY <1>1, <1>7 DEF GiveUp, ListenReturns
  <2>2. Len(held) = 1
    <3>1. held \in Seq(Datagram) /\ held # <<>>
      BY <1>1, <2>1
    <3>2. Len(held) \in Nat \ {0}
      BY <3>1, QueueTail
    <3>3. Len(held) <= 1
      BY <1>1
    <3>4. \A n \in Nat \ {0} : n <= 1 => n = 1
      OBVIOUS
    <3> QED BY <3>2, <3>3, <3>4, Zenon
  <2>3. Waiting' = packets
    BY <1>1, <2>1 DEF Waiting
  <2>4. SubSeq(packets \o held, 1, Len(packets \o held) - 1) = packets
    <3>1. packets \in Seq(Datagram) /\ held \in Seq(Datagram)
      BY <1>1
    <3>2. /\ Len(packets \o held) = Len(packets) + Len(held) /\ Len(packets) \in Nat
          /\ SubSeq(packets \o held, 1, Len(packets)) = packets
      BY <3>1, QueueJoin
    <3>3. Len(packets \o held) - 1 = Len(packets)
      BY <2>2, <3>2
    <3> QED BY <3>2, <3>3, Zenon
  <2>5. Waiting' = SubSeq(Waiting, 1, Len(Waiting) - 1)
    BY <2>3, <2>4 DEF Waiting
  <2>6. Input = "open" /\ Input' = "closed"
    BY <2>1 DEF Input
  <2>7. Pipe!CloseInput
    BY <1>2, <2>1, <2>5, <2>6 DEF Pipe!CloseInput
  <2> QED BY <2>7 DEF Pipe!Next
<1> QED BY <1>3, <1>4, <1>5, <1>6, <1>7

\* A datagram is taken: its items are due, a malformed one is discarded.
LEMMA PipeTake == ShapeInv /\ CountedTake => Pipe!Next
<1> SUFFICES ASSUME ShapeInv, CountedTake PROVE Pipe!Next
  OBVIOUS
<1> DEFINE d == Head(packets)
<1>1. /\ run = "selecting" /\ run' \in {"selecting", "publishing"}
      /\ packets # <<>> /\ packets \in Seq(Datagram) /\ held \in Seq(Datagram)
      /\ packets' = Tail(packets) /\ held' = held
      /\ UNCHANGED <<listener, ctxDone, ItemsPublished, GeofenceEvents, PublishErrors>>
      /\ DecodeErrors' = IF d.malformed THEN DecodeErrors + 1 ELSE DecodeErrors
  BY SelectPacketShape
  DEF CountedTake, SelectPacket, ShapeInv, BridgeTypeOK, listenerVars, runVars
<1>2. UNCHANGED <<Phase, Input, Watching, Told, PublishErrors>> /\ ctxDone' = ctxDone
  BY <1>1 DEF Phase, Running, Input, Watching, Told
<1>3. Waiting # <<>> /\ Head(Waiting) = d /\ Waiting' = Tail(Waiting)
  <2>1. packets \in Seq(Datagram) /\ held \in Seq(Datagram) /\ packets # <<>>
    BY <1>1
  <2>2. Waiting = packets \o held
    BY DEF Waiting
  <2>3. Waiting # <<>> /\ Head(Waiting) = d /\ Tail(Waiting) = Tail(packets) \o held
    BY <2>1, <2>2, JoinedHead, Zenon
  <2>4. packets' = Tail(packets) /\ held' = held
    BY <1>1
  <2> QED BY <2>3, <2>4, Zenon DEF Waiting
<1>4. Due = <<>> /\ Pipe!Idle
  BY <1>1, NothingDue
<1>5. Due' = d.items /\ (d.malformed => d.items = <<>>)
  <2>1. work' = d.items /\ run' = IF work' = <<>> THEN "selecting" ELSE "publishing"
    BY SelectPacketShape DEF CountedTake
  <2>2. Due' = work'
    BY <2>1 DEF Due
  <2>3. d \in Datagram
    BY SelectPacketShape DEF CountedTake
  <2>4. d.malformed => d.items = <<>>
    BY <2>3, BridgeAssumption
  <2> QED BY <2>1, <2>2, <2>4
<1>6. IF Head(Waiting).malformed
      THEN DecodeErrors' = DecodeErrors + 1 /\ Due' = Due
      ELSE Due' = Head(Waiting).items /\ DecodeErrors' = DecodeErrors
  BY <1>1, <1>3, <1>4, <1>5
<1>7. Pipe!Begin
  BY <1>2, <1>3, <1>4, <1>6 DEF Pipe!Begin
<1> QED BY <1>7 DEF Pipe!Next

\* An item is no event.
LEMMA ItemIsNoEvent == \A i \in Item : i \notin EventRecord
<1> SUFFICES ASSUME NEW i \in Item, i \in EventRecord PROVE FALSE
  OBVIOUS
<1>1. DOMAIN i = {"marshals", "position", "zones"}
  BY DEF Item
<1>2. DOMAIN i = {"type", "tag", "zone", "inZones"}
  BY DEF EventRecord
<1> QED BY <1>1, <1>2

\* An item or an event is told or refused, and what is due moves up.
LEMMA PipeTells ==
  ASSUME Phase = "running", Phase' = "running", ~ Watching, Due # <<>>,
         Due' = Tail(Due), Watching' = (GeofenceOn /\ Pipe!Position(Head(Due))),
         UNCHANGED <<ctxDone, Input, Waiting, DecodeErrors>>,
         \/ /\ Head(Due) \in EventRecord \/ Head(Due).marshals
            /\ Told' = Told + 1 /\ PublishErrors' = PublishErrors
         \/ PublishErrors' = PublishErrors + 1 /\ Told' = Told
  PROVE  Pipe!Next
<1>1. Pipe!Tell
  BY DEF Pipe!Tell
<1> QED BY <1>1 DEF Pipe!Next

\* Publishing an item, or failing to marshal it, is a step of the pipe.
LEMMA PipePublish == ShapeInv /\ CountsInv /\ (CountedMarshalFails \/ CountedPublish) => Pipe!Next
<1> SUFFICES ASSUME ShapeInv, CountsInv, CountedMarshalFails \/ CountedPublish
             PROVE  Pipe!Next
  OBVIOUS
<1>1. /\ run = "publishing" /\ work \in Seq(Item) /\ work # <<>>
      /\ Head(work) \in Item
  BY QueueTail DEF CountedMarshalFails, CountedPublish, MarshalFails, PublishItem, ShapeInv,
    BridgeTypeOK
<1>2. Due = work /\ Watching = FALSE /\ Phase = "running"
  BY <1>1 DEF Due, Watching, Phase, Running
<1>3. Head(work) \notin EventRecord
  BY <1>1, ItemIsNoEvent
<1>4. UNCHANGED <<packets, held, listener, ctxDone, DecodeErrors>>
  BY DEF CountedMarshalFails, CountedPublish, MarshalFails, PublishItem, listenerVars
<1>5. UNCHANGED <<Waiting, Input, DecodeErrors>> /\ ctxDone' = ctxDone
  BY <1>4 DEF Waiting, Input
<1>6. CASE CountedMarshalFails
  <2>1. NextItem /\ ~ Head(work).marshals
    BY <1>6 DEF CountedMarshalFails, MarshalFails
  <2>2. work' = Tail(work) /\ run' = IF work' = <<>> THEN "selecting" ELSE "publishing"
    BY <1>1, <2>1, NextItemShape
  <2>3. Due' = Tail(work) /\ Watching' = FALSE /\ Phase' = "running"
    BY <2>2 DEF Due, Watching, Phase, Running
  <2>4. Told' = Told /\ PublishErrors' = PublishErrors + 1
    BY <1>6 DEF CountedMarshalFails, Told
  <2>5. ~ Pipe!Position(Head(Due))
    BY <1>2, <2>1 DEF Pipe!Position
  <2> QED BY <1>1, <1>2, <1>5, <2>3, <2>4, <2>5, PipeTells
<1>7. CASE CountedPublish
  <2>1. Head(work).marshals
    BY <1>7 DEF CountedPublish, PublishItem
  <2>2. Due' = Tail(work) /\ Phase' = "running"
        /\ Watching' = (GeofenceOn /\ Head(work).position)
    <3>1. CASE GeofenceOn /\ Head(work).position
      <4>1. run' = "engine" /\ work' = work
        BY <1>7, <3>1 DEF CountedPublish, PublishItem
      <4> QED BY <3>1, <4>1 DEF Due, Watching, Phase, Running
    <3>2. CASE ~ (GeofenceOn /\ Head(work).position)
      <4>1. NextItem
        BY <1>7, <3>2 DEF CountedPublish, PublishItem
      <4>2. work' = Tail(work) /\ run' = IF work' = <<>> THEN "selecting" ELSE "publishing"
        BY <1>1, <4>1, NextItemShape
      <4> QED BY <3>2, <4>2 DEF Due, Watching, Phase, Running
    <3> QED BY <3>1, <3>2
  <2>3. \/ Told' = Told + 1 /\ PublishErrors' = PublishErrors
        \/ PublishErrors' = PublishErrors + 1 /\ Told' = Told
    BY <1>7 DEF CountedPublish, CountItem, Told, CountsInv
  <2>4. Pipe!Position(Head(Due)) = Head(work).position
    BY <1>1, <1>2, <1>3, <2>1 DEF Pipe!Position, Item
  <2> QED BY <1>1, <1>2, <1>5, <2>1, <2>2, <2>3, <2>4, PipeTells
<1> QED BY <1>6, <1>7

\* Events are told in the order in which the engine emitted them.
LEMMA PipeEmit == ShapeInv /\ CountsInv /\ CountedEmit => Pipe!Next
<1> SUFFICES ASSUME ShapeInv, CountsInv, CountedEmit PROVE Pipe!Next
  OBVIOUS
<1> DEFINE Message == EventRecord \cup Item
<1>1. /\ run = "emitting" /\ work \in Seq(Item) /\ work # <<>>
      /\ emitting \in Seq(EventRecord) /\ emitting # <<>> /\ emitting' = Tail(emitting)
  BY DEF CountedEmit, EmitEvent, ShapeInv, BridgeTypeOK
<1>2. Due = emitting \o Tail(work) /\ Watching = FALSE /\ Phase = "running"
  BY <1>1 DEF Due, Watching, Phase, Running
<1>3. /\ Due # <<>> /\ Head(Due) = Head(emitting)
      /\ Tail(Due) = Tail(emitting) \o Tail(work)
  <2>1. Tail(work) \in Seq(Item)
    BY <1>1, QueueTail
  <2>2. emitting \in Seq(Message) /\ Tail(work) \in Seq(Message)
    BY <1>1, <2>1
  <2> HIDE DEF Message
  <2>3. emitting # <<>> /\ Due = emitting \o Tail(work)
    BY <1>1, <1>2
  <2> QED BY <2>2, <2>3, JoinedHead, Zenon
<1>4. Head(emitting) \in EventRecord
  BY <1>1, QueueTail
<1>5. UNCHANGED <<Waiting, Input, DecodeErrors>> /\ ctxDone' = ctxDone
  BY DEF CountedEmit, EmitEvent, Waiting, Input, listenerVars
<1>6. Due' = Tail(Due) /\ Watching' = FALSE /\ Phase' = "running"
  <2>1. CASE Len(emitting) = 1
    <3>1. Tail(emitting) = <<>> /\ NextItem
      BY <1>1, <2>1, QueueTail DEF CountedEmit, EmitEvent
    <3>2. work' = Tail(work) /\ run' = IF work' = <<>> THEN "selecting" ELSE "publishing"
      BY <1>1, <3>1, NextItemShape
    <3>3. Due' = Tail(work) /\ Watching' = FALSE /\ Phase' = "running"
      BY <3>2 DEF Due, Watching, Phase, Running
    <3>4. Tail(work) \in Seq(Item)
      BY <1>1, QueueTail
    <3>5. <<>> \o Tail(work) = Tail(work)
      BY <3>4
    <3> QED BY <1>3, <3>1, <3>3, <3>5
  <2>2. CASE Len(emitting) # 1
    <3>1. run' = run /\ work' = work
      BY <2>2 DEF CountedEmit, EmitEvent
    <3>2. Due' = Tail(emitting) \o Tail(work) /\ Watching' = FALSE /\ Phase' = "running"
      BY <1>1, <3>1 DEF Due, Watching, Phase, Running
    <3> QED BY <1>3, <3>2
  <2> QED BY <2>1, <2>2
<1>7. \/ Told' = Told + 1 /\ PublishErrors' = PublishErrors
      \/ PublishErrors' = PublishErrors + 1 /\ Told' = Told
  BY DEF CountedEmit, CountEvent, Told, CountsInv
<1>8. ~ Pipe!Position(Head(Due)) /\ Head(Due) \in EventRecord
  BY <1>3, <1>4 DEF Pipe!Position
<1> QED BY <1>2, <1>3, <1>5, <1>6, <1>7, <1>8, PipeTells

\* The events of a position come before the items that were left.
LEMMA PipeWatch == ShapeInv /\ CountedCall => Pipe!Next
<1> SUFFICES ASSUME ShapeInv, CountedCall PROVE Pipe!Next
  OBVIOUS
<1> DEFINE Message == EventRecord \cup Item
           rest == Tail(work)
<1>1. /\ run = "engine" /\ work \in Seq(Item) /\ work # <<>> /\ CallEngine
      /\ published' \in Seq(EventRecord) /\ emitting' = published'
  BY CallEngineShape DEF CountedCall, CallEngine, ShapeInv, BridgeTypeOK
<1>2. rest \in Seq(Item)
  BY <1>1, QueueTail
<1>3. Due = rest /\ Watching = TRUE /\ Phase = "running"
  BY <1>1 DEF Due, Watching, Phase, Running
<1>4. Due' = published' \o rest /\ Watching' = FALSE /\ Phase' = "running"
  <2>1. CASE published' = <<>>
    <3>1. NextItem
      BY <1>1, <2>1 DEF CallEngine
    <3>2. work' = rest /\ run' = IF work' = <<>> THEN "selecting" ELSE "publishing"
      BY <1>1, <3>1, NextItemShape
    <3>3. Due' = rest /\ Watching' = FALSE /\ Phase' = "running"
      BY <3>2 DEF Due, Watching, Phase, Running
    <3>4. <<>> \o rest = rest
      BY <1>2
    <3> QED BY <2>1, <3>3, <3>4
  <2>2. CASE published' # <<>>
    <3>1. run' = "emitting" /\ work' = work
      BY <1>1, <2>2 DEF CallEngine
    <3> QED BY <1>1, <3>1 DEF Due, Watching, Phase, Running
  <2> QED BY <2>1, <2>2
<1>5. UNCHANGED <<Waiting, Input, Told, PublishErrors, DecodeErrors>> /\ ctxDone' = ctxDone
  BY DEF CountedCall, CallEngine, Waiting, Input, Told, counters, listenerVars
<1>6. LET new == Len(Due') - Len(Due)
      IN  /\ new >= 0 /\ SubSeq(Due', new + 1, Len(Due')) = Due
          /\ \A n \in 1..new : Due'[n] \in EventRecord
  <2> DEFINE a == published'
  <2>1. a \in Seq(Message) /\ rest \in Seq(Message)
    BY <1>1, <1>2
  <2>2. \A n \in 1..Len(a) : a[n] \in EventRecord
    BY <1>1
  <2> HIDE DEF Message, a, rest
  <2>3. /\ Len(a) \in Nat /\ Len(rest) \in Nat /\ Len(a \o rest) = Len(a) + Len(rest)
        /\ SubSeq(a \o rest, Len(a) + 1, Len(a) + Len(rest)) = rest
        /\ \A n \in 1..Len(a) : (a \o rest)[n] = a[n]
    BY <2>1, QueueJoin
  <2>4. Len(a \o rest) - Len(rest) = Len(a) /\ Len(a) >= 0
    BY <2>3
  <2>5. Due' = a \o rest /\ Due = rest
    BY <1>3, <1>4 DEF a
  <2> QED BY <2>2, <2>3, <2>4, <2>5
<1>7. Pipe!Watch
  BY <1>3, <1>4, <1>5, <1>6 DEF Pipe!Watch
<1> QED BY <1>7 DEF Pipe!Next

\* Every step of the bridge is a step of the pipe, or none.
LEMMA PipeStep == ShapeInv /\ CountsInv /\ [MetricsNext]_mvars => [Pipe!Next]_Pipe!vars
<1> SUFFICES ASSUME ShapeInv, CountsInv, [MetricsNext]_mvars
             PROVE  Pipe!Next \/ UNCHANGED Pipe!vars
  OBVIOUS
<1>1. CASE CountedTake \/ CountedMarshalFails \/ CountedPublish \/ CountedCall \/ CountedEmit
  BY <1>1, PipeTake, PipePublish, PipeWatch, PipeEmit
<1>2. CASE CountedRead \/ CountedSend \/ CountedGiveUp
  <2>1. (ReadDatagram \/ SendPacket \/ GiveUp) /\ UNCHANGED counters
    BY <1>2 DEF CountedRead, CountedSend, CountedGiveUp
  <2> QED BY <2>1, PipeListener
<1>3. CASE Uncounted
  <2>1. UNCHANGED counters
    BY <1>3 DEF Uncounted
  <2>2. CASE Cancel \/ Start \/ SelectDone \/ SelectListenErr \/ FlushAndClose
    BY <2>1, <2>2, PipeRun
  <2>3. CASE SetupFails \/ SetupDone \/ ReadFails \/ ReadClosed \/ CheckError
    BY <2>1, <2>3, PipeListener
  <2>4. CASE CloseSocket \/ PollTags \/ PollDone \/ PollStops \/ ServeFails \/ ServeStops
              \/ NatsChange
    <3>1. UNCHANGED <<run, work, emitting, listener, packets, held, ctxDone>>
      BY <2>4 DEF CloseSocket, PollTags, PollDone, PollStops, ServeFails, ServeStops,
        NatsChange, runVars, listenerVars
    <3> QED BY <2>1, <3>1, SameView DEF Pipe!vars
  <2> QED BY <1>3, <2>2, <2>3, <2>4 DEF Uncounted
<1>4. CASE UNCHANGED mvars
  <2>1. UNCHANGED <<run, work, emitting, listener, packets, held, ctxDone, counters>>
    BY <1>4 DEF mvars, bvars, runVars, listenerVars
  <2> QED BY <2>1, SameView DEF Pipe!vars
<1> QED BY <1>1, <1>2, <1>3, <1>4 DEF MetricsNext

\* The bridge implements the pipe: the messages of a datagram are published in
\* their order, each event right behind the position that caused it, and Run
\* ends neither in the middle of a datagram nor unasked, with whatever it does
\* not publish counted or left in the channel (run.go:76-87, publish.go:42-79).
THEOREM PipeRefinement == MetricsSpec => ImplementsMessagePipe
<1>1. MetricsSpec => []CountsInv
  BY CountsStart, CountsStep, MetricsShape, PTL DEF MetricsSpec
<1> QED BY <1>1, MetricsShape, PipeStart, PipeStep, PTL
     DEF MetricsSpec, ImplementsMessagePipe, Pipe!Spec
=============================================================================

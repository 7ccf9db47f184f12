---------------------------- MODULE TimingPorts ----------------------------
(***************************************************************************)
(* The timing port protocol as an I/O system uses it: DMA devices (DmaPort)  *)
(* send requests through a non-coherent crossbar to three slaves, a bridge   *)
(* with a simple memory ("far") behind it, a simple memory of its own        *)
(* ("near") and a PIO device whose port answers through a PacketQueue; and   *)
(* the drain protocol (DrainManager, m5.drain) that stops such a system.     *)
(*                                                                         *)
(* A timing call (sendTimingReq, sendTimingResp, sendRetry...) runs the      *)
(* peer's handler before it returns, so an event's handler is the whole      *)
(* chain of calls it starts.  The handlers are therefore functions from a    *)
(* system state s, a record of the variables below, to the state they leave; *)
(* a handler that answers true or false returns [s |-> ..., ok |-> ...].     *)
(* Ticks are left out: a scheduled event may fire at any time, which covers  *)
(* every latency.                                                          *)
(***************************************************************************)
EXTENDS Integers, Sequences, SequencesExt, FiniteSets, FiniteSetsExt

CONSTANTS
    Devs,        \* the DMA devices, one master port each
    Acts,        \* the calls of dmaAction that may be made
    ActDev,      \* the device that makes the call
    ActDests,    \* the slaves their addresses may belong to: functions on Acts
    Chunks,      \* the number of cache lines it spans
    ReqLimit,    \* Bridge req_size
    RespLimit,   \* Bridge resp_size
    QueueLimit,  \* packets a PacketQueue may hold when one is added: 100
    Null         \* no port

Slaves == {"bridge", "near", "pio"}
Mems == {"near", "far"}

Pkts == UNION {{[act |-> a, chunk |-> c] : c \in 1..Chunks[a]} : a \in Acts}
Owner(p) == ActDev[p.act]

(***************************************************************************)
(* dma[d]   transmitList, pendingCount, sendEvent.scheduled(), inRetry       *)
(* layer[l] the request layer towards slave l, or the response layer towards *)
(*          device l: state, waitingForLayer, waitingForPeer; its            *)
(*          releaseEvent is scheduled exactly while the state is BUSY        *)
(* routeTo  the packets whose response the crossbar expects                  *)
(* bridge   the transmitLists of the two sides with their sendEvents,        *)
(*          outstandingResponses, retryReq                                   *)
(* mem[m]   packetQueue, isBusy (releaseEvent is scheduled), retryReq,       *)
(*          retryResp, dequeueEvent.scheduled()                              *)
(* pio      transmitList, waitingOnRetry, sendEvent.scheduled()              *)
(* numBytes the chunks answered of every action (DmaReqState), -1 before it  *)
(* drain    what m5.drain is doing, _count, and the objects whose            *)
(*          drainManager is set                                             *)
(* asserts  the assertions of the code that have failed                      *)
(* dest     the slave the addresses of every action belong to; never changes *)
(***************************************************************************)
VARIABLES dma, layer, routeTo, bridge, mem, pio, numBytes, drain, asserts, dest

vars == <<dma, layer, routeTo, bridge, mem, pio, numBytes, drain, asserts,
          dest>>

\* BaseXBar::findPort
findPort(p) == dest[p.act]

\* The state a handler starts from; when the handler hands a packet to the
\* PIO port, pos is the place its tick gives it in the transmit list.
State(pos) ==
    [dma |-> dma, layer |-> layer, routeTo |-> routeTo, bridge |-> bridge,
     mem |-> mem, pio |-> pio, numBytes |-> numBytes, drain |-> drain,
     asserts |-> asserts, pos |-> pos]

\* The handler leaves the state result.
Become(result) ==
    \E s \in {result} :
        /\ dma' = s.dma
        /\ layer' = s.layer
        /\ routeTo' = s.routeTo
        /\ bridge' = s.bridge
        /\ mem' = s.mem
        /\ pio' = s.pio
        /\ numBytes' = s.numBytes
        /\ drain' = s.drain
        /\ asserts' = s.asserts
        /\ UNCHANGED dest

\* What the constructors leave behind.
DmaInit == [transmitList |-> <<>>, pendingCount |-> 0, sendEvent |-> FALSE,
            inRetry |-> FALSE]
LayerInit == [state |-> "IDLE", waitingForLayer |-> <<>>, waitingForPeer |-> Null]
BridgeInit == [reqs |-> <<>>, reqEvent |-> FALSE, resps |-> <<>>,
               respEvent |-> FALSE, outstandingResponses |-> 0,
               retryReq |-> FALSE]
MemInit == [packetQueue |-> <<>>, isBusy |-> FALSE, retryReq |-> FALSE,
            retryResp |-> FALSE, dequeueEvent |-> FALSE]
PioInit == [transmitList |-> <<>>, waitingOnRetry |-> FALSE, sendEvent |-> FALSE]
DrainInit == [phase |-> "running", count |-> 0, managers |-> {}]

Init ==
    /\ dma = [d \in Devs |-> DmaInit]
    /\ layer = [l \in Slaves \cup Devs |-> LayerInit]
    /\ routeTo = {}
    /\ bridge = BridgeInit
    /\ mem = [m \in Mems |-> MemInit]
    /\ pio = PioInit
    /\ numBytes = [a \in Acts |-> -1]
    /\ drain = DrainInit
    /\ asserts = {}
    /\ dest \in ActDests

\* assert(cond): what names the assertion
Check(s, what, cond) ==
    IF cond THEN s ELSE [s EXCEPT !.asserts = @ \cup {what}]

\* DrainManager::signalDrainDone, called by obj, which then forgets its
\* drainManager.  At zero drainCycleDone leaves the simulation loop, and the
\* script asks every object again.
signalDrainDone(s, obj) ==
    [Check(s, "count", s.drain.count > 0) EXCEPT
        !.drain.count = @ - 1,
        !.drain.managers = @ \ {obj}]

-----------------------------------------------------------------------------
(* The slaves' request side.                                                 *)

\* SimpleMemory::recvTimingReq
MemRecvTimingReq(s, m, p) ==
    IF s.mem[m].retryReq THEN [s |-> s, ok |-> FALSE]
    ELSE IF s.mem[m].isBusy
    THEN [s |-> [s EXCEPT !.mem[m].retryReq = TRUE], ok |-> FALSE]
    ELSE [s |-> [s EXCEPT !.mem[m].isBusy = TRUE,
                          !.mem[m].packetQueue = Append(@, p),
                          !.mem[m].dequeueEvent =
                                @ \/ ~s.mem[m].retryResp],
          ok |-> TRUE]

\* Mutant: the end of a drain is not reported.
PioSchedSendEvent_silent(s) ==
    IF s.pio.waitingOnRetry THEN Check(s, "sendEvent", ~s.pio.sendEvent)
    ELSE [s EXCEPT !.pio.sendEvent = @ \/ s.pio.transmitList # <<>>]

\* PacketQueue::schedSendEvent for the head of the transmit list: nothing while
\* the queue waits for a retry; with an empty list (MaxTick) there may be a
\* drain to report as done.
PioSchedSendEvent(s) ==
    IF s.pio.waitingOnRetry THEN Check(s, "sendEvent", ~s.pio.sendEvent)
    ELSE IF s.pio.transmitList # <<>> THEN [s EXCEPT !.pio.sendEvent = TRUE]
    ELSE IF <<"pio", "pio">> \in s.drain.managers /\ ~s.pio.sendEvent
    THEN signalDrainDone(s, <<"pio", "pio">>)
    ELSE s

\* PacketQueue::schedSendTiming: a panic when the list has grown too long; else
\* into the list at the place of the packet's tick.  Only a packet that becomes
\* the head schedules the send event.  This port never asks for force_order.
PioSchedSendTiming(s, p) ==
    LET t == [Check(s, "panic", Len(s.pio.transmitList) <= QueueLimit)
                EXCEPT !.pio.transmitList = InsertAt(@, s.pos + 1, p)]
    IN  IF s.pos = 0 THEN PioSchedSendEvent(t) ELSE t

\* SimpleTimingPort::recvTimingReq: never refuses
PioRecvTimingReq(s, p) == [s |-> PioSchedSendTiming(s, p), ok |-> TRUE]

reqQueueFull(s) == Len(s.bridge.reqs) = ReqLimit
respQueueFull(s) == s.bridge.outstandingResponses = RespLimit

\* BridgeMasterPort::schedTimingReq: the send event is scheduled when the
\* packet becomes the head
BridgeSchedTimingReq(s, p) ==
    [Check(s, "schedule", s.bridge.reqs = <<>> => ~s.bridge.reqEvent) EXCEPT
        !.bridge.reqs = Append(@, p),
        !.bridge.reqEvent = @ \/ s.bridge.reqs = <<>>]

\* BridgeSlavePort::recvTimingReq; a DMA request always expects a response,
\* whose place is reserved here
BridgeRecvTimingReq(s, p) ==
    LET t == Check(s, "retryReq", ~s.bridge.retryReq)
    IN  IF reqQueueFull(s) \/ respQueueFull(s)
        THEN [s |-> [t EXCEPT !.bridge.retryReq = TRUE], ok |-> FALSE]
        ELSE [s |-> BridgeSchedTimingReq(
                        [t EXCEPT !.bridge.outstandingResponses = @ + 1], p),
              ok |-> TRUE]

SlaveRecvTimingReq(s, l, p) ==
    CASE l = "bridge" -> BridgeRecvTimingReq(s, p)
      [] l = "near" -> MemRecvTimingReq(s, "near", p)
      [] l = "pio" -> PioRecvTimingReq(s, p)

-----------------------------------------------------------------------------
(* The crossbar's layers.                                                    *)

\* Layer::tryTiming: refused while the layer is busy or one port already waits
\* for the peer; a refused port joins the retry list.
tryTiming(s, l, src) ==
    IF s.layer[l].state = "BUSY" \/ s.layer[l].waitingForPeer # Null
    THEN [s |-> [Check(s, "waiting",
                        ~Contains(s.layer[l].waitingForLayer, src))
                    EXCEPT !.layer[l].waitingForLayer = Append(@, src)],
          ok |-> FALSE]
    ELSE [s |-> [s EXCEPT !.layer[l].state = "BUSY"], ok |-> TRUE]

\* Layer::occupyLayer: the release event is scheduled in the state BUSY that
\* tryTiming has set
occupyLayer(s, l) == Check(s, "occupied", s.layer[l].state = "BUSY")

succeededTiming(s, l) == occupyLayer(s, l)

failedTiming(s, l, src) ==
    occupyLayer([Check(s, "peer", s.layer[l].waitingForPeer = Null)
                    EXCEPT !.layer[l].waitingForPeer = src], l)

\* NoncoherentXBar::recvTimingReq
XBarRecvTimingReq(s, d, p) ==
    LET l == findPort(p)
        try == tryTiming(s, l, d)
        sent == SlaveRecvTimingReq(try.s, l, p)
    IN  IF ~try.ok THEN try
        ELSE IF ~sent.ok
        THEN [s |-> failedTiming(sent.s, l, d), ok |-> FALSE]
        ELSE [s |-> succeededTiming(
                        [Check(sent.s, "route", p \notin s.routeTo)
                            EXCEPT !.routeTo = @ \cup {p}], l),
              ok |-> TRUE]

\* DmaPort::trySendTimingReq
DmaTrySendTimingReq(s, d) ==
    LET sent == XBarRecvTimingReq(s, d, Head(s.dma[d].transmitList))
        more == Tail(s.dma[d].transmitList) # <<>>
    IN  IF ~sent.ok THEN [sent.s EXCEPT !.dma[d].inRetry = TRUE]
        ELSE [Check(sent.s, "schedule", more => ~s.dma[d].sendEvent)
                EXCEPT !.dma[d].inRetry = FALSE,
                       !.dma[d].transmitList = Tail(@),
                       !.dma[d].sendEvent = @ \/ more]

\* DmaPort::recvReqRetry
DmaRecvReqRetry(s, d) ==
    DmaTrySendTimingReq(
        Check(s, "transmitList", s.dma[d].transmitList # <<>>), d)

\* Layer::retryWaiting for a request layer: the port at the head of the list
\* retries inside the call; a port that did not call back leaves the layer in
\* the retry state, and it is then occupied until the next clock edge.
RetryWaiting(s, l) ==
    LET d == Head(s.layer[l].waitingForLayer)
        t == DmaRecvReqRetry(
                [s EXCEPT !.layer[l].state = "RETRY",
                          !.layer[l].waitingForLayer = Tail(@)], d)
    IN  IF t.layer[l].state = "RETRY"
        THEN [t EXCEPT !.layer[l].state = "BUSY"] ELSE t

\* Mutant: an idle layer leaves the retry to its next release.
LayerRecvRetry_waits(s, l) ==
    [s EXCEPT !.layer[l].waitingForLayer = <<s.layer[l].waitingForPeer>> \o @,
              !.layer[l].waitingForPeer = Null]

\* NoncoherentXBar::recvReqRetry, Layer::recvRetry: the refused port goes to the
\* front of the list
LayerRecvRetry(s, l) ==
    LET t == [Check(s, "waitingForPeer", s.layer[l].waitingForPeer # Null)
                EXCEPT !.layer[l].waitingForLayer =
                            <<s.layer[l].waitingForPeer>> \o @,
                       !.layer[l].waitingForPeer = Null]
    IN  IF t.layer[l].state = "IDLE" THEN RetryWaiting(t, l)
        ELSE Check(t, "state", t.layer[l].state = "BUSY")

\* BridgeSlavePort::retryStalledReq
retryStalledReq(s) ==
    IF s.bridge.retryReq
    THEN LayerRecvRetry([s EXCEPT !.bridge.retryReq = FALSE], "bridge")
    ELSE s

\* BridgeMasterPort::trySendTiming, from its send event and from recvReqRetry
BridgeReqTrySendTiming(s) ==
    LET sent == MemRecvTimingReq(s, "far", Head(s.bridge.reqs))
        more == Tail(s.bridge.reqs) # <<>>
    IN  IF ~sent.ok THEN sent.s
        ELSE retryStalledReq(
                [Check(sent.s, "schedule", more => ~s.bridge.reqEvent)
                    EXCEPT !.bridge.reqs = Tail(@),
                           !.bridge.reqEvent = @ \/ more])

\* Mutant: the refused port is forgotten.
MemRelease_noRetry(s, m) ==
    [s EXCEPT !.mem[m].isBusy = FALSE, !.mem[m].retryReq = FALSE]

\* SimpleMemory::release
MemRelease(s, m) ==
    LET t == [s EXCEPT !.mem[m].isBusy = FALSE, !.mem[m].retryReq = FALSE]
    IN  IF ~s.mem[m].retryReq THEN t
        ELSE IF m = "far" THEN BridgeReqTrySendTiming(t)
        ELSE LayerRecvRetry(t, "near")

-----------------------------------------------------------------------------
(* The way back.                                                             *)

\* DmaPort::recvTimingResp, handleResp: never refuses; the last chunk completes
\* the action
DmaHandleResp(s, p) ==
    LET d == Owner(p)
        r == [Check(s, "pendingCount", s.dma[d].pendingCount # 0)
                EXCEPT !.dma[d].pendingCount = @ - 1,
                       !.numBytes[p.act] = @ + 1]
        t == Check(r, "totBytes", r.numBytes[p.act] <= Chunks[p.act])
    IN  IF t.dma[d].pendingCount = 0 /\ <<"dma", d>> \in t.drain.managers
        THEN signalDrainDone(t, <<"dma", d>>) ELSE t

\* NoncoherentXBar::recvTimingResp
XBarRecvTimingResp(s, src, p) ==
    LET d == Owner(p)
        t == Check(s, "route", p \in s.routeTo)
        try == tryTiming(t, d, src)
    IN  IF ~try.ok THEN try
        ELSE [s |-> succeededTiming([DmaHandleResp(try.s, p) EXCEPT
                                        !.routeTo = @ \ {p}], d),
              ok |-> TRUE]

\* BridgeSlavePort::trySendTiming, from its send event and from recvRespRetry
BridgeRespTrySendTiming(s) ==
    LET sent == XBarRecvTimingResp(s, "bridge", Head(s.bridge.resps))
        more == Tail(s.bridge.resps) # <<>>
        t == [Check(Check(sent.s, "outstandingResponses",
                            s.bridge.outstandingResponses # 0),
                     "schedule", more => ~s.bridge.respEvent)
                EXCEPT !.bridge.resps = Tail(@),
                       !.bridge.outstandingResponses = @ - 1,
                       !.bridge.respEvent = @ \/ more]
    IN  IF ~sent.ok THEN sent.s
        ELSE IF ~reqQueueFull(t) THEN retryStalledReq(t) ELSE t

\* BridgeMasterPort::recvTimingResp and schedTimingResp
BridgeRecvTimingResp(s, p) ==
    [s |-> [Check(s, "schedule", s.bridge.resps = <<>> => ~s.bridge.respEvent)
                EXCEPT !.bridge.resps = Append(@, p),
                       !.bridge.respEvent = @ \/ s.bridge.resps = <<>>],
     ok |-> TRUE]

\* SimpleMemory::dequeue, from its event and from recvRespRetry
MemDequeue(s, m) ==
    LET p == Head(s.mem[m].packetQueue)
        sent == IF m = "far" THEN BridgeRecvTimingResp(s, p)
                ELSE XBarRecvTimingResp(s, m, p)
        t == [sent.s EXCEPT !.mem[m].retryResp = ~sent.ok]
    IN  IF ~sent.ok THEN t
        ELSE IF Tail(s.mem[m].packetQueue) # <<>>
        THEN [t EXCEPT !.mem[m].packetQueue = Tail(@),
                       !.mem[m].dequeueEvent = TRUE]
        ELSE LET u == [t EXCEPT !.mem[m].packetQueue = <<>>]
             IN  IF <<"mem", m>> \in u.drain.managers
                 THEN signalDrainDone(u, <<"mem", m>>) ELSE u

\* Mutant: a refused packet is not put back.
PioSendDeferredPacket_dropped(s) ==
    LET sent == XBarRecvTimingResp([s EXCEPT !.pio.transmitList = Tail(@)],
                                   "pio", Head(s.pio.transmitList))
    IN  [sent.s EXCEPT !.pio.waitingOnRetry = ~sent.ok,
                       !.pio.sendEvent = @ \/ sent.s.pio.transmitList # <<>>]

\* PacketQueue::sendDeferredPacket: the head leaves the list before it is sent
\* and returns to the front when it is refused
PioSendDeferredPacket(s) ==
    LET p == Head(s.pio.transmitList)
        sent == XBarRecvTimingResp([s EXCEPT !.pio.transmitList = Tail(@)],
                                   "pio", p)
        t == [sent.s EXCEPT !.pio.waitingOnRetry = ~sent.ok]
    IN  IF sent.ok THEN PioSchedSendEvent(t)
        ELSE [t EXCEPT !.pio.transmitList = <<p>> \o @]

\* PacketQueue::retry
PioRetry(s) ==
    PioSendDeferredPacket(
        [Check(s, "waitingOnRetry", s.pio.waitingOnRetry)
            EXCEPT !.pio.waitingOnRetry = FALSE])

SlaveRecvRespRetry(s, src) ==
    CASE src = "bridge" -> BridgeRespTrySendTiming(s)
      [] src = "near" ->
            MemDequeue(Check(s, "retryResp", s.mem[src].retryResp), src)
      [] src = "pio" -> PioRetry(s)

\* Layer::retryWaiting for a response layer
RespRetryWaiting(s, l) ==
    LET src == Head(s.layer[l].waitingForLayer)
        t == SlaveRecvRespRetry(
                [s EXCEPT !.layer[l].state = "RETRY",
                          !.layer[l].waitingForLayer = Tail(@)], src)
    IN  IF t.layer[l].state = "RETRY"
        THEN [t EXCEPT !.layer[l].state = "BUSY"] ELSE t

\* Layer::releaseLayer
releaseLayer(s, l) ==
    LET t == [s EXCEPT !.layer[l].state = "IDLE"]
        peer == s.layer[l].waitingForPeer # Null
    IN  IF s.layer[l].waitingForLayer # <<>>
        THEN IF peer THEN t
             ELSE IF l \in Slaves THEN RetryWaiting(t, l)
             ELSE RespRetryWaiting(t, l)
        ELSE IF ~peer /\ <<"layer", l>> \in t.drain.managers
        THEN signalDrainDone(t, <<"layer", l>>) ELSE t

-----------------------------------------------------------------------------
(* The events the event queue fires, and the calls of the devices and of the *)
(* script.                                                                   *)

\* The simulation loop runs, also while the script drains the system.
Simulating == drain.phase # "drained"

\* Where a packet handed to the PIO port may go: its tick is no earlier than
\* now, and a head that has been refused was due already.
PioPlaces ==
    LET front == IF pio.waitingOnRetry THEN 1 ELSE 0
    IN  front..Len(pio.transmitList)

\* DmaPort::dmaAction: one packet per cache line, then sendDma
dmaAction(a) ==
    /\ Simulating
    /\ numBytes[a] = -1
    /\ \E pos \in PioPlaces :
        LET d == ActDev[a]
            s == [State(pos) EXCEPT
                    !.numBytes[a] = 0,
                    !.dma[d].transmitList =
                        @ \o [c \in 1..Chunks[a] |-> [act |-> a, chunk |-> c]],
                    !.dma[d].pendingCount = @ + Chunks[a]]
        IN  Become(IF dma[d].inRetry \/ dma[d].sendEvent THEN s
                   ELSE DmaTrySendTimingReq(s, d))

\* DmaPort::sendDma from the send event
sendDma(d) ==
    /\ Simulating
    /\ dma[d].sendEvent
    /\ \E pos \in PioPlaces :
        LET s == [State(pos) EXCEPT !.dma[d].sendEvent = FALSE]
        IN  Become(IF s.dma[d].inRetry THEN s
                   ELSE DmaTrySendTimingReq(
                            Check(s, "transmitList",
                                  s.dma[d].transmitList # <<>>), d))

ReleaseLayer(l) ==
    /\ Simulating
    /\ layer[l].state = "BUSY"
    /\ \E pos \in PioPlaces : Become(releaseLayer(State(pos), l))

\* The two send events of the bridge
BridgeReqEvent ==
    /\ Simulating
    /\ bridge.reqEvent
    /\ Become(BridgeReqTrySendTiming(
                [State(0) EXCEPT !.bridge.reqEvent = FALSE]))

BridgeRespEvent ==
    /\ Simulating
    /\ bridge.respEvent
    /\ Become(BridgeRespTrySendTiming(
                [State(0) EXCEPT !.bridge.respEvent = FALSE]))

ReleaseMem(m) ==
    /\ Simulating
    /\ mem[m].isBusy
    /\ Become(MemRelease(State(0), m))

DequeueEvent(m) ==
    /\ Simulating
    /\ mem[m].dequeueEvent
    /\ Become(MemDequeue([State(0) EXCEPT !.mem[m].dequeueEvent = FALSE], m))

\* PacketQueue::processSendEvent
processSendEvent ==
    /\ Simulating
    /\ pio.sendEvent
    /\ Become(PioSendDeferredPacket(
                [Check(State(0), "waitingOnRetry", ~pio.waitingOnRetry)
                    EXCEPT !.pio.sendEvent = FALSE]))

\* Mutant: a DMA port that has sent everything is drained.
DmaPortDrain_unsent(d) == dma[d].transmitList # <<>>

\* What drain() answers, 1 for an object that is not ready and keeps the
\* manager.  The bridge inherits SimObject::drain, which answers 0.
DmaPortDrain(d) == dma[d].pendingCount # 0
MemDrain(m) == mem[m].packetQueue # <<>>
PioDrain == pio.transmitList # <<>>
LayerDrain(l) == layer[l].state # "IDLE"

unready ==
    {<<"dma", d>> : d \in {d \in Devs : DmaPortDrain(d)}}
    \cup {<<"mem", m>> : m \in {m \in Mems : MemDrain(m)}}
    \cup (IF PioDrain THEN {<<"pio", "pio">>} ELSE {})
    \cup {<<"layer", l>> : l \in {l \in Slaves \cup Devs : LayerDrain(l)}}

\* _drain() of m5.drain: called by a script, and again whenever the manager's
\* count has come down to zero, until no object is unready
Drain ==
    /\ \/ drain.phase = "running"
       \/ drain.phase = "draining" /\ drain.count = 0
    /\ drain' = [phase |-> IF unready = {} THEN "drained" ELSE "draining",
                 count |-> Cardinality(unready),
                 managers |-> drain.managers \cup unready]
    /\ UNCHANGED <<dma, layer, routeTo, bridge, mem, pio, numBytes, asserts,
                   dest>>

\* The other exits of simulate() while m5.drain waits, an exit event or the end
\* of the event queue: the script calls it again.
SimulateAgain ==
    /\ drain.phase = "draining"
    /\ drain.count > 0
    /\ UNCHANGED vars

\* m5.resume, after the checkpoint has been written or the mode changed
Resume ==
    /\ drain.phase = "drained"
    /\ drain' = [drain EXCEPT !.phase = "running"]
    /\ UNCHANGED <<dma, layer, routeTo, bridge, mem, pio, numBytes, asserts,
                   dest>>

\* EventQueue::serviceOne: the events in whatever order their ticks give
serviceOne ==
    \/ \E d \in Devs : sendDma(d)
    \/ \E l \in Slaves \cup Devs : ReleaseLayer(l)
    \/ BridgeReqEvent
    \/ BridgeRespEvent
    \/ \E m \in Mems : ReleaseMem(m) \/ DequeueEvent(m)
    \/ processSendEvent

EventScheduled ==
    /\ Simulating
    /\ \/ \E d \in Devs : dma[d].sendEvent
       \/ \E l \in Slaves \cup Devs : layer[l].state = "BUSY"
       \/ bridge.reqEvent \/ bridge.respEvent
       \/ \E m \in Mems : mem[m].isBusy \/ mem[m].dequeueEvent
       \/ pio.sendEvent

Next ==
    \/ \E a \in Acts : dmaAction(a)
    \/ serviceOne
    \/ Drain
    \/ SimulateAgain
    \/ Resume

Spec == Init /\ [][Next]_vars

\* The simulation loop serves the event queue as long as it holds an event (weak
\* fairness of serviceOne, which is enabled exactly when an event is
\* scheduled); the drain loop of the script runs to its end, and a drained
\* system is resumed.  Nothing makes a device start a DMA or a script call
\* drain.
Fairness ==
    /\ <>[]EventScheduled => []<><<serviceOne>>_vars
    /\ WF_vars(Drain /\ drain.phase = "draining")
    /\ WF_vars(Resume)

FairSpec == Spec /\ Fairness

-----------------------------------------------------------------------------
TypeOK ==
    /\ \A d \in Devs : /\ dma[d].transmitList \in Seq(Pkts)
                       /\ dma[d].pendingCount \in Nat
    /\ \A l \in Slaves \cup Devs :
        /\ layer[l].state \in {"IDLE", "BUSY"}
        /\ layer[l].waitingForPeer \in Devs \cup {Null}
        /\ Range(layer[l].waitingForLayer) \subseteq
                IF l \in Slaves THEN Devs ELSE Slaves
    /\ routeTo \subseteq Pkts
    /\ bridge.reqs \in Seq(Pkts) /\ bridge.resps \in Seq(Pkts)
    /\ \A m \in Mems : mem[m].packetQueue \in Seq(Pkts)
    /\ pio.transmitList \in Seq(Pkts)
    /\ \A a \in Acts : numBytes[a] \in -1..Chunks[a]
    /\ drain.phase \in {"running", "draining", "drained"}
    /\ drain.count \in 0..Cardinality(drain.managers)

\* No assertion of the code fails: no port is asked while it owes a retry
\* (bridge.cc), nobody waits twice for a layer, a layer is retried only by a
\* peer that refused it, a response finds its route, no event is scheduled
\* twice, and the drain manager is never told of more objects than it counts.
NoAssertionFails == asserts = {}

Occurrences(p) ==
    LET in(q) == Cardinality({i \in DOMAIN q : q[i] = p})
    IN  in(dma[Owner(p)].transmitList) + in(bridge.reqs) + in(bridge.resps)
        + in(mem["near"].packetQueue) + in(mem["far"].packetQueue)
        + in(pio.transmitList)

\* The bridge keeps a place for the response of every request it let through
\* and for no other, so the response queue never outgrows its limit although
\* recvTimingResp does not look at it.
ReservationsBalance ==
    /\ bridge.outstandingResponses =
        Len(bridge.reqs) + Len(mem["far"].packetQueue) + Len(bridge.resps)
    /\ bridge.outstandingResponses <= RespLimit
    /\ Len(bridge.reqs) <= ReqLimit

\* No packet is lost or doubled on its way through refusals and retries: the
\* queues of the system hold as many packets of an action as it still awaits,
\* each once, the device counts exactly those as pending, and the bridge has a
\* place for the response of each of its own.
PacketsConserved ==
    /\ \A p \in Pkts : Occurrences(p) <= 1
    /\ \A a \in Acts :
        Cardinality({p \in Pkts : p.act = a /\ Occurrences(p) = 1})
            = IF numBytes[a] = -1 THEN 0 ELSE Chunks[a] - numBytes[a]
    /\ \A d \in Devs :
        dma[d].pendingCount =
            Cardinality({p \in Pkts : Owner(p) = d /\ Occurrences(p) = 1})
    /\ ReservationsBalance

\* The layers at which a port waits, as often as it waits there
Waits(src, layers) ==
    MapThenSumSet(LAMBDA l :
        Cardinality({i \in DOMAIN layer[l].waitingForLayer :
                        layer[l].waitingForLayer[i] = src})
        + (IF layer[l].waitingForPeer = src THEN 1 ELSE 0), layers)
Flag(b) == IF b THEN 1 ELSE 0

\* Whoever has something to send is woken by exactly one party: by its own
\* event, or by the one port that refused it and knows that it owes a retry
\* (DmaPort::inRetry, Layer::waitingForLayer and waitingForPeer, retryReq of
\* the bridge and of the memory, retryResp, waitingOnRetry).
OneWakeUpEach ==
    /\ \A d \in Devs :
        /\ Waits(d, Slaves) = Flag(dma[d].inRetry)
        /\ Flag(dma[d].transmitList # <<>>)
                = Waits(d, Slaves) + Flag(dma[d].sendEvent)
    /\ Flag(bridge.reqs # <<>>)
            = Flag(bridge.reqEvent) + Flag(mem["far"].retryReq)
    /\ Flag(bridge.resps # <<>>)
            = Flag(bridge.respEvent) + Waits("bridge", Devs)
    /\ Flag(pio.transmitList # <<>>) = Flag(pio.sendEvent) + Waits("pio", Devs)
    /\ Waits("pio", Devs) = Flag(pio.waitingOnRetry)
    /\ \A m \in Mems : Flag(mem[m].packetQueue # <<>>) =
                Flag(mem[m].dequeueEvent) + Flag(mem[m].retryResp)
    /\ Waits("near", Devs) = Flag(mem["near"].retryResp)
    /\ (layer["bridge"].waitingForPeer # Null) = bridge.retryReq
    /\ (layer["near"].waitingForPeer # Null) = mem["near"].retryReq
    /\ \A m \in Mems : mem[m].retryReq => mem[m].isBusy
    /\ bridge.retryReq => bridge.outstandingResponses > 0

\* The retry protocol is kept: no assertion fails, and a port that was refused is
\* woken once (sendTimingReq, sendRetry and their peers).
RetryProtocol == TypeOK /\ NoAssertionFails /\ OneWakeUpEach

\* When m5.drain returns, the system is quiet although neither the bridge nor
\* the list of waiting ports of a layer takes part in the drain: no packet is
\* anywhere, no layer is occupied, nobody waits for a retry and no event is
\* left that would send one.
DrainedIsQuiet ==
    drain.phase = "drained" =>
        /\ \A p \in Pkts : Occurrences(p) = 0
        /\ routeTo = {}
        /\ \A l \in Slaves \cup Devs : layer[l] = LayerInit
        /\ ~bridge.retryReq /\ bridge.outstandingResponses = 0
        /\ drain.managers = {}

\* Every DMA action that was started completes, whatever was refused on the way
\* and however often the system is drained meanwhile (dmaAction is called a
\* bounded number of times).
EveryActionCompletes ==
    <>[](\A a \in Acts : numBytes[a] \in {-1, Chunks[a]})

\* A drain ends: no object that answered "not drained" forgets to signal
\* (PacketQueue::schedSendEvent, Layer::releaseLayer, SimpleMemory::dequeue,
\* DmaPort::handleResp).
DrainEnds == (drain.phase = "draining") ~> (drain.phase = "drained")

=============================================================================

------------------------------ MODULE SnapMem ------------------------------
(***************************************************************************)
(* SnapMemCtrl, the snapshot memory controller.  It snoops the memory bus, *)
(* notes the units (runs of cache blocks) written since the last snapshot, *)
(* and at every interval suspends the CPUs, reads the blocks of the noted  *)
(* units and writes them to a second, snapshot memory.                     *)
(*                                                                         *)
(* A block is its index; a unit is a run of BlkInUnit blocks.  Contents    *)
(* are version numbers.  The bus, the caches in front of it and the two    *)
(* memories are modelled as far as the controller sees them; the CPUs are  *)
(* TimingSimpleCPUs.  A failed assert or a panic ends the simulation: it   *)
(* is recorded in failed and nothing moves after.                          *)
(***************************************************************************)
EXTENDS Naturals, FiniteSetsExt

CONSTANTS CPUs,       \* basecpus
          NumUnits,   \* units of the memory
          BlkInUnit,  \* unitSize / cacheLineSize
          QueueSize,  \* queue_size; 0 is "no limit"
          PortLimit,  \* packets a port may hold when one is added: 100
          MaxVersion, \* how often a block is written at most
          StartModes  \* isTimingMode() when the simulation starts

ASSUME SnapAssumption ==
    /\ NumUnits \in Nat \ {0} /\ BlkInUnit \in Nat \ {0}
    /\ QueueSize \in Nat /\ PortLimit \in Nat /\ MaxVersion \in Nat
    /\ StartModes \subseteq BOOLEAN

Units == 0 .. NumUnits - 1
Blocks == 0 .. NumUnits * BlkInUnit - 1

VARIABLES
    timing,    \* system->isTimingMode()
    events,    \* the events of the controller that are scheduled
    wat, scat, \* written address table, snapshot current address table
    agu,       \* address generation unit
    flight,    \* per block: where its copying stands
    cpu,       \* per CPU: Idle, Running with its fetchEvent scheduled,
               \* Waiting for memory, or Stopped: Idle with a fetchEvent left
    quiesced,  \* CPUs whose thread context is Suspended
    line,      \* per block: its state in the CPUs' caches
    version,   \* per block: its newest contents
    captured,  \* per block: the contents the last snapshot read returned
    snap,      \* per block: the contents of the snapshot memory
    recorded,  \* blocks snooped as written and not read since
    failed     \* the assert or panic that ended the run, or "none"

ctrl == <<events, wat, scat, agu>>
system == <<cpu, quiesced, line>>
vars == <<timing, ctrl, flight, system, version, captured, snap, recorded,
          failed>>

\* The type of the state, no more.
TypeOK ==
    /\ timing \in BOOLEAN
    /\ events \subseteq {"snapshot", "cycle", "finalize"}
    /\ wat \subseteq Units /\ scat \subseteq Blocks
    /\ agu \in [unit : Units, counter : 0 .. BlkInUnit, complete : BOOLEAN]
    /\ flight \in [Blocks -> {"none", "read", "resp", "write", "done"}]
    /\ cpu \in [CPUs -> {"Idle", "Stopped", "Running", "Waiting"}]
    /\ quiesced \subseteq CPUs
    /\ line \in [Blocks ->
                    {"absent", "shared", "exclusive", "owned", "modified"}]
    /\ version \in [Blocks -> 0 .. MaxVersion]
    /\ captured \in [Blocks -> 0 .. MaxVersion]
    /\ snap \in [Blocks -> 0 .. MaxVersion]
    /\ recorded \subseteq Blocks
    /\ failed \in {"none", "suspend", "activate", "fetch", "scat", "port"}

Init ==
    /\ timing \in StartModes
    /\ events = {"snapshot"}
    /\ wat = {} /\ scat = {}
    /\ agu = [unit |-> 0, counter |-> 0, complete |-> TRUE]
    /\ flight = [b \in Blocks |-> "none"]
    /\ cpu = [c \in CPUs |-> "Running"]
    /\ quiesced = {}
    /\ line = [b \in Blocks |-> "absent"]
    /\ version = [b \in Blocks |-> 0]
    /\ captured = [b \in Blocks |-> 0]
    /\ snap = [b \in Blocks |-> 0]
    /\ recorded = {} /\ failed = "none"

-----------------------------------------------------------------------------
(* Snooping.                                                               *)

\* unitSize is a power of two, so the mask rounds down to a multiple of it.
translateUnitAddr(b) == b \div BlkInUnit

isWrite(cmd) == cmd \in {"WriteReq", "Writeback"}
isUpgrade(cmd) == cmd = "UpgradeReq"

catchWriteRequestPacket(cmd, b) ==
    IF isWrite(cmd) \/ isUpgrade(cmd)
    THEN /\ wat' = wat \cup {translateUnitAddr(b)}
         /\ recorded' = recorded \cup {b}
    ELSE UNCHANGED <<wat, recorded>>

-----------------------------------------------------------------------------
(* The CPUs and their caches.                                              *)

\* The fetch event of a CPU.  A CPU that was made idle meanwhile returns.  In
\* atomic mode other CPUs run, and these begin at the switch.
Fetch(c) ==
    /\ failed = "none" /\ timing /\ cpu[c] \in {"Running", "Stopped"}
    /\ cpu' = [cpu EXCEPT ![c] = IF @ = "Running" THEN "Waiting" ELSE "Idle"]
    /\ UNCHANGED <<timing, ctrl, flight, quiesced, line, version, captured,
                   snap, recorded, failed>>

\* An answer arrives and the instruction loads b; the next one is fetched.
Load(c, b) ==
    /\ failed = "none" /\ cpu[c] = "Waiting" /\ line[b] = "absent"
    /\ \E s \in {"shared", "exclusive"} : line' = [line EXCEPT ![b] = s]
    /\ UNCHANGED <<timing, ctrl, flight, cpu, quiesced, version, captured,
                   snap, recorded, failed>>

\* An answer arrives and the instruction stores to b.  The bus sees an
\* UpgradeReq when the block is cached without write permission, a ReadExReq
\* when it is not cached, and nothing when it may be written already.
Store(c, b) ==
    /\ failed = "none" /\ timing /\ cpu[c] = "Waiting"
    /\ version[b] < MaxVersion
    /\ version' = [version EXCEPT ![b] = @ + 1]
    /\ line' = [line EXCEPT ![b] = "modified"]
    /\ \/ /\ line[b] \in {"shared", "owned"}
          /\ catchWriteRequestPacket("UpgradeReq", b)
       \/ /\ line[b] = "absent"
          /\ catchWriteRequestPacket("ReadExReq", b)
       \/ /\ line[b] \in {"exclusive", "modified"}
          /\ UNCHANGED <<wat, recorded>>
    /\ UNCHANGED <<timing, events, scat, agu, flight, cpu, quiesced, captured,
                   snap, failed>>

\* In atomic mode the snoop handler does nothing.
AtomicStore(b) ==
    /\ failed = "none" /\ ~timing
    /\ version[b] < MaxVersion
    /\ version' = [version EXCEPT ![b] = @ + 1]
    /\ \E s \in {"absent", "modified"} : line' = [line EXCEPT ![b] = s]
    /\ UNCHANGED <<timing, ctrl, flight, cpu, quiesced, captured, snap,
                   recorded, failed>>

\* A cache evicts a block; a dirty one is written back over the bus.
Evict(b) ==
    /\ failed = "none" /\ timing /\ line[b] # "absent"
    /\ line' = [line EXCEPT ![b] = "absent"]
    /\ IF line[b] \in {"owned", "modified"}
       THEN catchWriteRequestPacket("Writeback", b)
       ELSE UNCHANGED <<wat, recorded>>
    /\ UNCHANGED <<timing, events, scat, agu, flight, cpu, quiesced, version,
                   captured, snap, failed>>

\* A device that is not a CPU writes b; nothing suspends it.
DMAWrite(b) ==
    /\ failed = "none" /\ timing
    /\ version[b] < MaxVersion
    /\ version' = [version EXCEPT ![b] = @ + 1]
    /\ line' = [line EXCEPT ![b] = "absent"]
    /\ catchWriteRequestPacket("WriteReq", b)
    /\ UNCHANGED <<timing, events, scat, agu, flight, cpu, quiesced, captured,
                   snap, failed>>

\* The instruction that completes is a quiesce: SimpleThread::suspend.
Quiesce(c) ==
    /\ failed = "none" /\ cpu[c] = "Waiting" /\ c \notin quiesced
    /\ quiesced' = quiesced \cup {c}
    /\ cpu' = [cpu EXCEPT ![c] = "Idle"]
    /\ UNCHANGED <<timing, ctrl, flight, line, version, captured, snap,
                   recorded, failed>>

\* activateContext asserts that the CPU is idle, and schedule that its fetch
\* event is not scheduled.
activateFails(c) == IF cpu[c] = "Stopped" THEN "fetch" ELSE "activate"

\* An interrupt wakes a thread that is Suspended.
Wakeup(c) ==
    /\ failed = "none" /\ c \in quiesced
    /\ quiesced' = quiesced \ {c}
    /\ IF cpu[c] = "Idle"
       THEN cpu' = [cpu EXCEPT ![c] = "Running"] /\ UNCHANGED failed
       ELSE failed' = activateFails(c) /\ UNCHANGED cpu
    /\ UNCHANGED <<timing, ctrl, flight, line, version, captured, snap,
                   recorded>>

\* The script switches from atomic to timing mode.  The system is Drained, as
\* setMemoryMode asserts: in atomic mode no access is ever outstanding.
SwitchMode ==
    /\ failed = "none" /\ ~timing
    /\ timing' = TRUE
    /\ UNCHANGED <<ctrl, flight, system, version, captured, snap, recorded,
                   failed>>

-----------------------------------------------------------------------------
(* The snapshot.                                                           *)

\* suspendContext asserts that a CPU that is not idle is Running.  Its fetch
\* event stays scheduled.
suspendCPUs ==
    IF \E c \in CPUs : cpu[c] = "Waiting"
    THEN failed' = "suspend" /\ UNCHANGED cpu
    ELSE /\ cpu' = [c \in CPUs |-> IF cpu[c] = "Running" THEN "Stopped" ELSE cpu[c]]
         /\ UNCHANGED failed

\* activateContext is called for every context, also for one that was idle
\* before the snapshot.
resumeCPUs ==
    IF \E c \in CPUs : cpu[c] # "Idle"
    THEN /\ \E c \in CPUs : cpu[c] # "Idle" /\ failed' = activateFails(c)
         /\ UNCHANGED cpu
    ELSE cpu' = [c \in CPUs |-> "Running"] /\ UNCHANGED failed

snapshot ==
    /\ failed = "none" /\ "snapshot" \in events
    /\ IF timing
       THEN suspendCPUs /\ events' = {"cycle"}
       ELSE UNCHANGED <<cpu, failed, events>>
    /\ UNCHANGED <<timing, wat, scat, agu, flight, quiesced, line, version,
                   captured, snap, recorded>>

\* Mutant: one address too few.
isFull_early == QueueSize # 0 /\ Cardinality(scat) + 1 >= QueueSize

isFull == QueueSize # 0 /\ Cardinality(scat) >= QueueSize

\* Mutant: a unit is complete one block early.
aguPop_early(a) ==
    [a EXCEPT !.counter = @ + 1, !.complete = a.counter + 2 >= BlkInUnit]

\* AddressGenerationUnit::pop
aguPop(a) ==
    [a EXCEPT !.counter = @ + 1, !.complete = a.counter + 1 >= BlkInUnit]

\* The unit the next block comes from: the current one, or a new one.
aguNext ==
    IF agu.complete
    THEN [unit |-> Min(wat), counter |-> 0, complete |-> FALSE]
    ELSE agu

\* PacketQueue::schedSendTiming panics when the queue of a port has grown.
\* Some of the packets that were sent through it may still be in it.
Panics(sent) ==
    IF Cardinality({b \in Blocks : flight[b] = sent}) > PortLimit
    THEN {"port"} ELSE {}

sendReadPacketToNormalMemory ==
    IF isFull \/ (agu.complete /\ wat = {})
    THEN UNCHANGED <<wat, scat, agu, flight, failed>>
    ELSE LET b == aguNext.unit * BlkInUnit + aguNext.counter
         IN  /\ wat' = IF agu.complete THEN wat \ {Min(wat)} ELSE wat
             /\ agu' = aguPop(aguNext)
             /\ IF b \in scat
                THEN failed' = "scat" /\ UNCHANGED <<scat, flight>>
                ELSE /\ scat' = scat \cup {b}
                     /\ flight' = [flight EXCEPT ![b] = "read"]
                     /\ failed' \in {"none"} \cup Panics("read")

\* Mutant: the end is declared without waiting for the outstanding copies.
snapshotCycle_hasty ==
    /\ failed = "none" /\ "cycle" \in events
    /\ sendReadPacketToNormalMemory
    /\ events' = IF wat' = {} THEN {"finalize"} ELSE events
    /\ UNCHANGED <<timing, system, version, captured, snap, recorded>>

snapshotCycle ==
    /\ failed = "none" /\ "cycle" \in events
    /\ sendReadPacketToNormalMemory
    /\ events' = IF wat' = {} /\ scat' = {} /\ agu'.complete
                 THEN {"finalize"} ELSE events
    /\ UNCHANGED <<timing, system, version, captured, snap, recorded>>

finalizeSnapshot ==
    /\ failed = "none" /\ "finalize" \in events
    /\ events' = {"snapshot"}
    /\ resumeCPUs
    /\ UNCHANGED <<timing, wat, scat, agu, flight, quiesced, line, version,
                   captured, snap, recorded>>

-----------------------------------------------------------------------------
(* The copying of one block.                                               *)

\* The bus serves the read: the newest contents, from memory or a cache,
\* which loses its write permission.
MemoryRead(b) ==
    /\ failed = "none" /\ flight[b] = "read"
    /\ flight' = [flight EXCEPT ![b] = "resp"]
    /\ captured' = [captured EXCEPT ![b] = version[b]]
    /\ recorded' = recorded \ {b}
    /\ line' = [line EXCEPT ![b] = CASE @ = "modified" -> "owned"
                                     [] @ = "exclusive" -> "shared"
                                     [] OTHER -> @]
    /\ UNCHANGED <<timing, ctrl, cpu, quiesced, version, snap, failed>>

\* The answer is dropped and a write request of the same address is queued.
catchSnapReadResponsePacket(b) ==
    /\ failed = "none" /\ flight[b] = "resp"
    /\ flight' = [flight EXCEPT ![b] = "write"]
    /\ failed' \in {"none"} \cup Panics("write")
    /\ UNCHANGED <<timing, ctrl, system, version, captured, snap, recorded>>

\* The snapshot memory serves the write.  Its data was allocated and never
\* filled in: any contents.
SnapMemoryWrite(b) ==
    /\ failed = "none" /\ flight[b] = "write"
    /\ flight' = [flight EXCEPT ![b] = "done"]
    /\ \E v \in 0 .. MaxVersion : snap' = [snap EXCEPT ![b] = v]
    /\ UNCHANGED <<timing, ctrl, system, version, captured, recorded, failed>>

recvTimingSnapperPort(b) ==
    /\ failed = "none" /\ flight[b] = "done"
    /\ flight' = [flight EXCEPT ![b] = "none"]
    /\ scat' = scat \ {b}
    /\ UNCHANGED <<timing, events, wat, agu, system, version, captured, snap,
                   recorded, failed>>

Copying(b) ==
    \/ MemoryRead(b)
    \/ catchSnapReadResponsePacket(b)
    \/ SnapMemoryWrite(b)
    \/ recvTimingSnapperPort(b)

Next ==
    \/ \E c \in CPUs : Fetch(c) \/ Quiesce(c) \/ Wakeup(c)
    \/ \E c \in CPUs, b \in Blocks : Load(c, b) \/ Store(c, b)
    \/ \E b \in Blocks : AtomicStore(b) \/ Evict(b) \/ DMAWrite(b) \/ Copying(b)
    \/ SwitchMode \/ snapshot \/ snapshotCycle \/ finalizeSnapshot

Spec == Init /\ [][Next]_vars

\* The events of the controller run when their tick comes; the memories
\* answer every request.
FairSpec ==
    /\ Spec
    /\ WF_vars(snapshotCycle) /\ WF_vars(finalizeSnapshot)
    /\ \A b \in Blocks : WF_vars(Copying(b))

-----------------------------------------------------------------------------
(* Properties.                                                             *)

InSnapshot == events \cap {"cycle", "finalize"} # {}

\* A block whose write was snooped (catchWriteRequestPacket) and that has not
\* been read since is still on its way into the snapshot: its unit is in the
\* written address table, the address generation unit has yet to produce it,
\* or its read is outstanding.
RecordedNotForgotten ==
    failed = "none" =>
    \A b \in recorded :
        \/ translateUnitAddr(b) \in wat
        \/ /\ ~agu.complete /\ agu.unit = translateUnitAddr(b)
           /\ b % BlkInUnit >= agu.counter
        \/ flight[b] = "read"

\* The packets the controller has outstanding in the two memories are the
\* entries of scat, and queue_size bounds them: one that the ports have room
\* for keeps their queues from the panic.
OutstandingBounded ==
    LET outstanding == {b \in Blocks : flight[b] # "none"}
    IN  /\ outstanding = scat
        /\ QueueSize # 0 => Cardinality(outstanding) <= QueueSize
        /\ QueueSize \in 1 .. PortLimit + 1 => failed # "port"

\* The controller always has exactly one event scheduled, and outside a
\* snapshot nothing of it is outstanding: the next snapshot finds the tables
\* as the constructor left them.
SnapshotsDoNotOverlap ==
    /\ Cardinality(events) = 1
    /\ "cycle" \notin events => scat = {} /\ agu.complete

\* The copies in the memories are accounted for: those of a snapshot in progress
\* are what scat holds, and none is left from an earlier one (snapshotCycle,
\* finalizeSnapshot, recvTimingResp).
CopiesAccounted == TypeOK /\ OutstandingBounded /\ SnapshotsDoNotOverlap

\* A snapshot that has begun ends with the CPUs resumed, unless an assert
\* fails: the copies complete and the tables run empty.
SnapshotEnds ==
    InSnapshot ~> ("snapshot" \in events \/ failed # "none")

-----------------------------------------------------------------------------
(* What the code states of itself, and does not do.                        *)

\* The message of snapshotCycle: all written blocks are in the snapshot when
\* it ends, that is, each has been read since it was last written.  (A write
\* snooped between that message and the end is left for the next snapshot.)
AllWrittenBlocksRead ==
    "finalize" \in events =>
    \A b \in Blocks :
        captured[b] = version[b] \/ translateUnitAddr(b) \in wat

\* The same message, of the contents: what the snapshot memory holds of a
\* block whose copying is complete is what was read.
SnapshotHoldsData ==
    \A b \in Blocks : flight[b] = "done" => snap[b] = captured[b]

\* assert(!scat.isExist(uaddr)): no block is read while its earlier copy is
\* still outstanding.
NoBlockTwice == failed # "scat"

\* assert(_status == BaseSimpleCPU::Running), assert(_status == Idle) and the
\* assert of schedule(fetchEvent): the CPU is in a state that can be suspended,
\* or activated, when it is asked to.
CPUCanSwitch == failed \notin {"suspend", "activate", "fetch"}
=============================================================================

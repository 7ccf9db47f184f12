# A TLA+ model of the gem5 simulator: kernel, memory system and out of order processor

The repository is the source tree of the gem5 full-system simulator (early 2015) with
one addition of its own, a snapshot memory controller (`src/mem/snapmem`).  This
directory models the parts in which several actors share state: the event queue, the
parallel simulation loop, the signal handlers, timing ports with drain, the classic
caches, one Ruby coherence protocol, the snapshot controller, and the out of order
processor with its load/store queue.  Paths below are relative to the repository root.

Contents: [the system](#the-system) · [modules](#modules-and-code) ·
[runs](#runs) · [bounds](#bounds) · [fairness](#fairness) · [proofs](#proofs) ·
[disagreements](#where-code-and-comments-disagree) · [limits](#not-modelled) ·
[plan](#plan) · [using it](#using-it)

## The system

| Part | Files | State | Operations | What makes it hard |
|---|---|---|---|---|
| Event queue | `src/sim/eventq*` | sorted list of bins, each a stack; flags of events; clock | schedule, deschedule, reschedule, squash, serviceOne, serviceEvents | callbacks change the queue while it is served; stale pointers; deletion |
| Parallel simulation | `src/sim/simulate.cc`, `src/sim/global_event.*`, `src/base/barrier.hh` | a queue, an async queue and a clock per thread; barriers; a mutex | simulate(), doSimLoop, cross-thread schedule, global events, merge at a quantum | interleaving of threads, deadlock at barriers, lag of merging |
| Signals | `src/sim/init_signals.cc`, `src/sim/async.*`, `src/python/swig/pyevent.cc`, `src/base/pollevent.cc` | volatile flags | handlers set, the loops test and clear | interruption between any two accesses |
| Ruby, MI_example | `src/mem/protocol/MI_example-*.sm`, `src/mem/ruby/...` | states, TBEs and entries of cache, directory and DMA controllers; buffers; memory | the transitions of the SLICC files, sequencer requests | crossing messages, unordered networks, recycling |
| Snapshot controller | `src/mem/snapmem` | written and current address tables, address generation unit, events | snoop, snapshot, snapshotCycle, finalizeSnapshot, responses | writes race the copying; CPUs are stopped in mid-access |
| Ports, crossbars, bridges | `src/mem/{packet_queue,xbar,noncoherent_xbar,bridge,simple_mem}.cc`, `src/dev/dma_device.cc` | queues, layer states, waiting ports, reservations | send, accept or refuse, retry, release | lost or doubled retries, full queues, calls that run the peer's handler inside |
| Drain | `src/sim/drain.*`, `src/python/m5/simulate.py` | a count, drain states | drain, signalDrainDone, resume | objects that finish in any order or become busy again |
| Classic caches | `src/mem/cache`, `src/mem/{coherent_xbar,snoop_filter}.cc` | blocks, MSHRs with targets, write buffer, snoop filter | access, snoop, fill, upgrade, writeback | snoops that meet misses in service and writebacks |
| Out of order processor | `src/cpu/o3` | stages, time buffers, ROB, IQ, rename map, free list | a cycle of five stages, squash, trap | signals that arrive cycles late and cross each other |
| Its load/store queue | `src/cpu/o3/{lsq*,mem_dep_unit*,store_set*}` | two circular queues, store sets, dependences | execute, forward, violate, write back, retry, snoop, squash | everything happens out of order and must look in order |
| DRAM controller | `src/mem/dram_ctrl.cc` | read and write queues, banks | enqueue, schedule, refresh | mostly timing arithmetic |
| Checkpoints, Ruby warm-up | `src/sim/serialize.*`, `src/mem/ruby/system/{System,CacheRecorder}.cc` | text; a replaced event queue | serialize, startup | the clock moves back |
| Other CPUs, ISAs, devices, statistics, Python | the rest | | | mostly sequential, or too much data |

How the parts meet: objects schedule events on the queue of their thread; `doSimLoop`
serves it.  Threads exchange events through async queues and synchronise with global
events.  Signal handlers and Python ask the loop for statistics or for an exit, which
become global events.  Processors, caches, devices and controllers are driven by
events and talk to each other through ports: a timing call runs the peer's handler
before it returns, which may refuse and owe a retry.  A script that wants the system
quiet drains it.

Correctness, in a sentence each: events are served once, in order, and never after they
were cancelled or deleted; threads never see an event in their past and never wait for
each other for ever; a signal's request is carried out, and by no thread twice; no
packet is lost or doubled and whoever was refused is woken once; a drained system is
quiet; a line has one writer and everybody reads the last store; a snapshot contains
what was written; a processor commits what a sequential one would, and its accesses look
ordered to others. `PROJECT.json` lists the hazards with the lines where they bite.

## Modules and code

| Module | Models | Remarks |
|---|---|---|
| `EventList` | what a queue promises (`eventq.hh`, `eventq_impl.hh`) | the queue is one sequence |
| `EventListProofs` | theorems about it | see [Proofs](#proofs) |
| `EventQueue` | how `eventq.cc` does it: `nextBin`, `nextInBin` | |
| `EventQueueRefines` | the refinement mapping from `EventQueue` to `EventList` | |
| `EventQueueProofs`, `EventQueueRefinesProofs` | what each pointer operation does; that the lists implement `EventList` | see [Proofs](#proofs) |
| `ParallelSim` | threads, quanta, global events | a queue is the sequence of `EventList` |
| `ParallelSimProofs` | causality, one worker and one order for any number of threads | see [Proofs](#proofs) |
| `AsyncSignals` | handlers and the test-and-clear code of `doSimLoop` | one step per access to a flag |
| `AsyncSignalsProofs` | that no thread serves a request twice | see [Proofs](#proofs) |
| `MIExample` | three controllers, sequencers, networks, memory, one line | an action per transition |
| `MIExampleProofs` | coherence for any number of caches | see [Proofs](#proofs) |
| `SnapMem` | `SnapMemCtrl`, with CPUs, caches and memories as far as it sees them | not in the default build |
| `SnapMemProofs` | that no write is forgotten, and the accounting of copies | see [Proofs](#proofs) |
| `TimingPorts` | DMA ports, a non-coherent crossbar, a bridge, simple memories, a PIO port, drain | a composition: one action per event served |
| `ClassicCache` | first-level caches on a coherent crossbar with a snoop filter, a simple memory, one block | one action per event served |
| `RenameMap` | rename map, free list and history buffer | used by `O3Pipeline`; also a specification of its own |
| `RenameMapProofs` | that registers are conserved | see [Proofs](#proofs) |
| `O3Pipeline` | the stages of the out of order processor, one thread | one action is a cycle |
| `LoadStoreQueue` | `LSQUnit`, `MemDepUnit`, `StoreSet`, one thread | one action per call of a stage or of the cache |
| `MC*` | instances for TLC | only constants |

The `map` of `PROJECT.json` gives the source lines of every definition.  Operators
whose comment begins "Mutant" are deliberate faults, used to show that each property
depends on the code; no specification mentions them.  In `TimingPorts`, `ClassicCache`,
`O3Pipeline` and `LoadStoreQueue` a failed assertion or panic of the code is recorded in
`asserts` and the step goes on.

### EventList and EventQueue

`q` is the queue in service order, `when` the tick of each event, `scheduled` and
`squashed` the events with that flag set, `live` the objects that exist, `curTick` the
clock.  `serviceOne()` is two steps with `Event::process()` between them: while
`processing` holds the event, any call that process() may make is a step.  `until` is
the argument of a `serviceEvents(when)` in progress.

`EventQueue` replaces `q` by the code's two pointers per event.  `nextBin` is meaningful
only in the top event of a bin and keeps old values elsewhere, as in the code;
`insertBefore`, `removeItem`, `insert` and `remove` are translated with their pointer
assignments, and their loops are recursive functions (`lastBinBefore`, `itemAbove`).
The refinement mapping visits the bins as `debugVerify()` does (`visit`, `Contents`), no
further than there are events, so that it is defined even where the pointers formed a
cycle.  `Implements`, in `EventQueueRefines`, says that every step of `EventQueue` is
the step of the same name of `EventList`.  `NeverNotFound` is the `panic("event not
found!")` of `remove`.

### ParallelSim

`pc[t]` is the position of a thread in `simulate()`, `thread_loop`, `doSimLoop`, a
local event's process() or a global event's barriers.  A call of `schedule` from
another thread is two steps, insertion into the async queue (under its mutex) and
setting of the flag.  `BaseGlobalEvent::schedule` is one step for each queue under
`globalQMutex`.  `Barrier::wait` is arrival and release, with `numLeft` and a
generation of which one bit is kept: that is all a waiter compares.  `Python` stands
for the script between two calls of `simulate()`.  A request for an exit or for statistics
(`Request`) is for once: `repeat`, with which process() would schedule the next one
(`sim_events.cc:77`, `stat_control.cc:238`), is left out.

### AsyncSignals

A handler runs on some thread, which stands still; handlers of different signals nest,
since `sa_mask` is empty, and one of the same signal does not.  Every access to a flag
is a step: the test, the clearing and what is then done are three, and the two arguments
of `schedStatEvent` are read one after the other.  Flags are also set from inside the
loop, by a Python event that raises and by `setupAsyncIO()` when a descriptor is opened,
by an event or while descriptors are polled.  One or more threads run the loop.  `owed`
are the requests made and not yet carried out, `asked` counts how often each was made
and `done` how often each thread has taken it on.

### MIExample

The state of each controller is that of its `.sm` file.  Buffers are sequences for
each pair of end points; those of different senders are independent.  A stall leaves a
message where it is and a recycle puts it back behind the others, so neither is a
step.  Time is left out, and so any delay of the network is covered.  The memory
behind the directory takes one request after the other.  `latest` is a history
variable: what the last store or DMA write in coherence order left in the line.  The
three tables list the state and event pairs that have a transition; a controller that
meets another pair stops the simulation, which is `fatal`.

### SnapMem

A block is an index, contents are version numbers, a unit is a run of blocks.  The
CPUs have the statuses of `TimingSimpleCPU` that suspension and activation test;
`Stopped` is Idle with the fetch event still scheduled, where an activation would
schedule it again.  The caches, the bus and the memories are reduced to what the
controller can observe of them: the requests (ReadReq, ReadExReq, UpgradeReq, writebacks,
writes of devices, in atomic and timing mode) that the state of a line leads to, and the
answers, in any order.  `flight` is where the copy of a block stands.  A packet queue
panics when it takes in a packet beyond its limit of 100 (`PortLimit`).  A failed assert
or panic sets `failed` and ends the behaviour.

`src/mem/snapmem/SConscript` has its source lines commented out, and the classes
`MasterPacketQueue` and `SlavePacketQueue` that the controller uses are gone from
`src/mem`.  The module describes the code as it is written, not something the default
build runs.

### TimingPorts

`dma`, `layer`, `bridge`, `mem`, `pio` hold the transmit lists, flags and scheduled
events of the objects of those names.  Since a call runs the peer's handler before it
returns, handlers are functions from a state to the state they leave, and an action is
an event served by the queue (`serviceOne`), a call of `dmaAction` by a device, or a
step of the script: `Drain`, `Resume`, and `SimulateAgain` when the drain loop goes
round.  Ticks are left out and any scheduled event may be next, which covers every
latency.  DMA requests expect responses; the register write by which a processor starts
a DMA is not part of the model.  The bridge and the crossbar answer a drain as the code
does (the bridge inherits `SimObject::drain`, which answers 0).  The limit of 100 packets
above which a packet queue panics is `QueueLimit`; a PIO port never asks it to force the
order.

### ClassicCache

The state is that of one block in every cache: `blk`, the `mshr` with its targets and
deferred targets, the write buffer `wb`, the snoop responses, the CPU side port; and the
crossbar's snoop filter and the memory.  A request that a cache sends snoops all others
and reaches memory in one call, so again an action is an event and all it starts.  Other
blocks of the set appear through what they do to this one: eviction at any fill, a
victim that cannot be evicted (so that the fill goes to `tempBlock`), a write buffer that
they fill.  Contents are the set of the writes they include, so a lost write shows.  A
request is for a word, for another word or for the whole line, and clears the locks it
overlaps.

Some choices need a reason.  Memory refuses only while no cache waits for it, since the
crossbar lets nobody but the waiting port retry; the other caches then go on at their
own retry (`RetryOther`).  An occupied layer only delays a call.  A writeback that is
made after a miss is never ready before it.  A response is taken to be received when it
is scheduled.  A store conditional waits for the processor's earlier requests.
`AbstractMemory::access` does not write on a WriteInvalidate, and neither does the model.

### RenameMap and O3Pipeline

`FullO3CPU::tick` calls the stages in order and then advances the time buffers, so a
cycle is one step: stages are functions from a state, with the wires they write in
`out`, to the state they leave.  The choices are how many instructions fetch supplies
and which of the issued ones finish.  A value is the instruction that computed it, and
`log` records what was committed with the value it read: `CommitsSequentially` compares
it with a sequential execution of the program.  A program has branches that are
mispredicted, with a wrong path behind them, faults, serializing and non-speculative
instructions and loads.  `resumeUnblocking` is left out because nothing sets it to true.

`RenameMap` holds the three structures of the rename stage and the loop bodies that
change them.  `SpecRegs` lets these happen in any order; every change that a cycle of
`O3Pipeline` makes to `regs` is a sequence of such steps, because `doSquash` pops the
history from its young end, `removeFromHistory` from its old end, and `renameReg` is the
only other operator it uses.

### LoadStoreQueue

The instructions are the positions of a program, dispatched in order, executed in any
order that their dependences allow, committed in order, and dispatched again after a
squash, on the actual path if the first one was mispredicted.  A value is the store that
wrote it, and `dcache` holds the writes in the order in which they reach memory.  The
cache is reduced to an order: it refuses or accepts, serves the requests for a block in
the order accepted (the targets of an MSHR), and sends a snoop, or an invalidation with
a response, when another processor writes.  Issue and execution are one step and
operands are ready at any time.  The SSIT is indexed by the position of an instruction,
so it aliases as program counters do. Store queue entries that were popped, and LFST
entries of instructions that are gone, are set to one value to keep the state space
small.  At most one squash is on its way, and commit waits while it is; a violation
found meanwhile still trains the store sets, unless it is found in the cycle of that
squash.  The 200 cache ports are never the limit.

## Runs

Passing runs.  States are distinct states.

| Run | Configuration | States | Shows |
|---|---|---|---|
| `event_list` | `MCEventList.cfg` | 24,510 | any sequence of calls keeps the queue sorted, its flags true, its clock monotone; nothing cancelled or deleted is served |
| `eventq` | `MCEventQueue.cfg` | 499,126 | the linked lists implement `EventList`, with a bin three deep, stale `nextBin` pointers below its top and a bin behind it |
| `parallel` | `MCParallelSim.cfg` | 566,058 | no event reaches a thread in its past, clocks stay within a quantum, global events are served in one order and alone, every simulate() returns with all queues in step |
| `async_signals` | `MCAsyncSignals.cfg` | 149,368 | one or two threads: every request is answered, if need be with the next signal, and by no thread more often than it was made |
| `mi_caches` | `MCMICaches.cfg` | 270,070 | three caches: one writer, latest data, accurate owner, no invalid transition, and requests keep completing |
| `mi_dma` | `MCMIDMA.cfg` | 185,382 | two caches and a device: the same data properties, DMA reads current, one transaction at a time |
| `snap` | `MCSnapMem.cfg` | 588,431 | no snooped write is forgotten, outstanding copies are bounded, no packet queue overruns, snapshots do not overlap and end |
| `ports` | `MCTimingPorts.cfg` | 177,650 | packets and reservations are conserved, whoever was refused is woken once, DMAs complete, a drain ends and leaves the system quiet |
| `classic_caches` | `MCClassicCache.cfg` | 53,310 | one writer, current reads, atomic store conditionals, no write lost, one answer to a miss, every request answered |
| `o3_pipeline` | `MCO3Pipeline.cfg` | 103,348 | what commits is the sequential execution; registers are conserved; serializing instructions are alone; the program commits |
| `lsq` | `MCLoadStoreQueue.cfg` | 224,107 | coherent loads, only committed stores written, total store order and barriers kept, everything is performed |

Each property of a passing run has a mutant in `PROJECT.json`: a plausible fault in the
modelled code under which TLC reports that property violated.  Several properties are
conjunctions of invariants that have a definition and a comment of their own: `IInv`,
`PointersSound`, `TimeIsCausal`, `GlobalEventsAgree`, `CopiesAccounted`,
`RetryProtocol`, `AccessesAreAtomic`, `OrderedForOthers`, and `Coherent` of `MIExample`.
The type invariant of a module is part of one of them, or of `NoAssertionFails`.

One more run, `mi_invalid_putx`, ends in a violation.  It states what a message of the
code says and the code does not do; see [below](#where-code-and-comments-disagree), also
for other configurations of this kind.

Deadlock is checked, except where a behaviour may really end: after a failed
assertion in `SnapMem`, an invalid transition in `mi_dma`, in `AsyncSignals` a loop that
has returned NULL, and in `lsq` the end of the program.  Where the other modules come to
rest they keep a step that changes nothing (a script that simulates again, a processor
that is ticked, caches at rest).

## Bounds

* EventList: three events on ticks 0 to 2 give earlier, equal and later ones, and the
  proofs remove this bound.  EventQueue has four events, so that a bin can have a top, a
  middle and a bottom and another bin behind it, and two ticks.  Two of the events are
  alike and treated as symmetric.
* ParallelSim: a quantum of two ticks, so that something can happen inside one, and a
  last tick that spans two of them.  Two threads, events that cross, and two exits that
  may be asked for by different threads.  `MCParallelSimOrder.cfg` is a second passing
  instance with three threads, where two create global events while a third lags
  (841,372 states).  `Cycles` in the passing instances is `LastTick`: simulate() is called
  to run until MaxTick, and ends with an exit event or there.  They also start local
  events at tick 1 or later; an event at the tick where simulate() begins, or a limit that
  meets an exit event, leads into the disagreements described below.
* AsyncSignals: one thread with two signals of each kind, so that one can meet the
  handling of another of its kind, one with a descriptor opened and exceptions raised, and
  two threads with two SIGIO and an exit.  `dump` and `dumprst` together lose a reset
  (`MCAsyncSignalsReset.cfg`), so the passing run has only the latter of the two.
* MIExample: one line, two or three caches, one byte per line with two values; two
  bytes where parts of a line matter.  Caches are interchangeable, which the runs without
  a liveness property use.  Requests are unlimited in number.
* SnapMem: `MaxVersion` bounds how often each block is written, `NumUnits` and
  `BlkInUnit` the memory.  A unit of two blocks can be partly generated and noted again.
  The queue size is one, so that it fills, and `PortLimit` is one less, the smallest for
  which `OutstandingBounded` promises that no port panics.  `MCSnapMemDMA.cfg` is a
  second passing instance, with two units, a queue size of two, and a device as the only
  writer (78,724 states): units wait in the table while another one is copied.
* TimingPorts: two devices and three DMA actions, one of two packets, that contend for
  the bridge, a memory or the PIO port; the bridge has room for one request and two
  responses, so both of its limits are met.  Actions are made once; drains are unlimited.
  `QueueLimit` is two, which the three packets of the PIO port reach; with one the queue
  panics, which `RetryProtocol` reports.
* ClassicCache: three caches with one to three requests each, of two words, two targets
  in an MSHR so that it fills, with and without snoop filter.  The passing run leaves
  out two combinations described below: whole-line writes among other writers, and a
  write buffer that is full while fills go to `tempBlock`.
* O3Pipeline: two architectural and five physical registers, a width of two, four ROB,
  two IQ and one load queue entries, a squash of one instruction a cycle: every
  structure fills, except the skid buffer of IEW, whose limit is not reached, and a squash
  takes several cycles.  Programs of three or four
  instructions (19 setups), chosen so that squashes, traps, stalls and serialization
  meet.
* LoadStoreQueue: two entries in each queue, programs of two to four accesses to three
  bytes in two blocks, up to two writes of others, one refusal, one misprediction (18
  setups, each with the combination it is about).  Every store has its own value.
  In total store order the passing run has no invalidation that comes with a response;
  and no program has two barriers.  Both are described below.

## Fairness

* ParallelSim: weak fairness of each thread; the operating system runs it.  Its enabling
  condition is written out (`CanStep`), which TLC evaluates faster.  Nothing is assumed
  of Python, which may never call simulate() again.
* AsyncSignals: weak fairness of handlers and of each loop; strong fairness for serving
  the scheduled statistics event, because a queue serves its events in order of time
  and so reaches it.
* MIExample: weak fairness of each controller for each source of messages, and of the
  memory.  Requests and replacements are not fair.  A recycled request may be overtaken
  for ever, so the property is that someone completes, not everyone.
* SnapMem: the events of the controller run at their tick, and memories answer.  No
  fairness is assumed of CPUs or devices; the bound on versions makes writes stop, and
  without that a snapshot need not end.
* TimingPorts: the loop serves events while some are scheduled, and the drain loop of the
  script goes on and resumes.  Nothing makes a device start or a script drain.
* ClassicCache: while events are scheduled something is accepted again and again: the
  loop serves them, and the memory, whose refusals last for the time of one access, does
  not refuse for ever.  Which request is served is not constrained; there are finitely
  many.
* O3Pipeline: the processor is ticked until it has committed everything, fetch supplies
  instructions when it may, what is being executed finishes, a trap event is processed.
* LoadStoreQueue: steps are taken while there are any: the processor is ticked and the
  cache answers.  Refusals, mispredictions and writes of others are bounded.

## Proofs

What is proved holds for every value of the constants, not only for the instances that
TLC explores.  `P` below is the property of that name, which a run also checks.

| Module | Theorem | States | Hypothesis |
|---|---|---|---|
| `EventListProofs` | `Invariance` | `Spec => []IInv` | |
| | `AlwaysDebugVerify` | the queue is sorted and free of repetitions (what `debugVerify()` checks) | |
| | `AlwaysNotInThePast` | no queued event is before `curTick` | |
| | `AlwaysFlagMatchesQueue` | the Scheduled flag is true exactly of queued events | |
| | `AlwaysNoStaleSquash` | only scheduled events are squashed, and no deleted event is queued or running | |
| | `TimeMonotonic` | the clock never goes back | |
| `EventQueueRefinesProofs` | `ListsImplementQueue` | `Spec => Implements`: every behaviour of the linked lists is one of `EventList` | |
| | `AlwaysPointersSound` | `Spec => []PointersSound` | |
| | `AlwaysSound` | the inductive invariant of both | |
| `MIExampleProofs` | `MIInvariance` | `Spec => []IInv` | |
| | `AlwaysSingleWriter`, `AlwaysOwnerAccurate` | the two parts of `Coherent` that are not about data | |
| | `AlwaysCoherent` | `Spec => []Coherent` | `WholeLines` |
| | `AlwaysDMAReadsLatest` | `Spec => DMAReadsLatest`, an action property | `WholeLines` |
| | `NeverInvalidTransition` | `Spec => []NoInvalidTransition` | `DMAs = {}` |
| | `AlwaysOneTransaction` | `Spec => []OneTransaction`: no buffer grows without bound | |
| `SnapMemProofs` | `AlwaysRecordedNotForgotten` | `Spec => []RecordedNotForgotten` | |
| | `AlwaysCopiesAccounted` | `Spec => []CopiesAccounted`: no more copies than `queue_size`, no panic of a packet queue, one event | |
| `AsyncSignalsProofs` | `ThreadsServeOnce` | `Spec => []ServedOnce`, for any number of threads | |
| `RenameMapProofs` | `AlwaysRegistersConserved` | `SpecRegs => []RegistersConserved`: whatever is renamed, squashed and committed in whatever order, a physical register is on the free list, in the map, or in the history, in one of them and once | |
| `ParallelSimProofs` | `CausalAlways` | `Spec => []TimeIsCausal`: nothing is scheduled or served in a thread's past, clocks stay within a quantum | |
| | `InSyncAlways` | `Spec => []ReturnsInSync` | |
| | `AloneAlways` | `Spec => []ProcessRunsAlone`: the other threads are between the barriers while one runs process() | |
| | `OrderAlways` | `Spec => [](LimitTied \/ GlobalEventsAgree)`, for global events of one tick and priority as well | `Ranked` |

The three hypotheses are where the code needs them.  `WholeLines` says that devices
write whole lines, or that there are none: a DMA write of a part of a line does not keep
the rest (`queueMemoryWritePartial`; `MCMIOneCache.cfg` shows it).  With DMA a
controller can meet an event that it has no transition for (the run `mi_invalid_putx`).
`Ranked` says that no other global event has the priority of the quantum event, and that
a request always has a delay beyond the quantum that the code adds, or goes behind the
quantum event. In the code the priorities are 90 for statistics, 95 for the quantum
event and 100 for exits and the limit of simulate().  Without the second half a
statistics event that only some threads have merged can be met out of order
(`MCParallelSimStat.cfg`).  `LimitTied` is the other case in which the code loses the
order: an exit of the priority and the tick of the limit event, which simulate()
reschedules in the queues themselves, past exits that are still in some `async_queue`
(`MCParallelSimExit.cfg`).  `ServedOnce` is about each thread; two of them can carry out
one request (`OneThreadServes`, `MCAsyncSignalsTwice.cfg`).

Everything else about the constants is in the named `ASSUME`s of the modules: the null
pointer is no event, priorities are integers, AutoDelete events are allocated; for
`EventQueue` and `MIExample` there are finitely many events and caches; sizes are
natural numbers, and positive where a division or a block needs it.  `DelaysAssumption`
of `ParallelSim` is the contract that `sim/eventq.hh` states for parallel simulation:
what an event schedules on another queue is at least a quantum away.

### The abstract queue

The inductive invariant `IInv` of `EventList`, which `event_list` also checks, is the
conjunction of `TypeOK`, `FlagMatchesQueue`, `DebugVerify`, `NotInThePast`,
`NoStaleSquash`, `NoUseAfterDelete` and `ServiceEventsBound`.  None is inductive alone.
Removal from the queue keeps flags true only if no event is queued twice.  An insertion
keeps the order only if the event is not already in the queue, which the flag tells.
The clock is monotone only because the head is not in the past.  And
`serviceEvents(when)` may set the clock to `when` at its end only because the head is
later by then.  The lemmas below the theorems say what `Ahead`, `Insert` and `Dequeue`
do to a sequence; each action then has one step for each conjunct it can disturb.

### The linked lists

`EventQueueProofs` says when pointers lay out a sequence `s` (`Linked`): for a set of
positions at which bins start, the head and the `nextBin` of each top lead to the next
top, and `nextInBin` leads from an event to the next one of its bin.  Pointers of other
events are not mentioned, so stale ones are harmless by construction of the invariant,
not by assumption.  `Laid` adds that bins start exactly at the positions (`Tops`) at
which an event is later, or of a larger priority, than the one before.

- `lastBinBeforeStops` and `itemAboveStops` say where the loops of `insert()`,
  `remove()` and `removeItem()` stop.  The functions are recursive without a measure (a
  list could be cyclic), so first `WalkExists` shows, from the layout, that the walk
  ends, and `EndsNext` that its end is what the recursion defines.
- `InsertLaid`, `RemoveLaid` and `PopRemoves` say that an operation on pointers that lay
  out `s` lays out `s` with the event inserted or removed.
- `ContentsLaid`, in `EventQueueRefinesProofs`, says that a visit from the head of
  pointers that lay out `s` yields `s`.  Its induction is over the number of events
  still to be visited, with a set of numbers in the place of a predicate.

The invariant of the refinement is `Sound`: the invariant of `EventList` about
`Contents(list)`, and that the pointers lay out `Contents(list)`.  Each action of
`EventQueue` is shown to be the action of `EventList` of the same name (`StepMatches`);
`EventListProofs`, instantiated with the mapping, then gives the first half of `Sound`
in the next state.

### MI_example

`Coherent` says little of the buffers, and nothing in it forbids, say, two requests of
one cache on their way, after which two caches would be given the line.  `IInv` accounts
for everything that can become a copy: `Missing` says in which one place the request of
a cache that misses is; `WritingBack` where the writeback of a cache that gives the line
up is; `Passing` that a cache that has or awaits the line is the owner in the directory
or has been told to pass it on; `Holding` that only one cache has the line, or gets it,
or still has it in its writeback buffer, and that none does while the directory is not
in a lent state.  `OneInMemory` says that the memory has a request or an answer exactly
while the directory waits for it.  On top of them, `Latest` says that whatever is the
line holds the latest data, if `WholeLines`.  The lemmas are one for each transition or
kind of transition of the three controllers; those before them say what appending to
and removing from a buffer does to the messages in it.

That every event has a transition (`HasTransition`) follows from the same invariant
where nothing invalidates lines.

`OneTransaction` bounds the buffers.  `IInv` says which kinds of message a buffer has,
and for requests, responses and memory that is the bound.  It is not for the forward
buffers: an invalidation for a device can cross the writeback of the line, and then
stays in the buffer of a cache that no longer has it, where the next message comes
behind it.  `FInv` counts them: there is one
invalidation that came too late, one more only while the directory still waits for the
line (`Due`), and behind the acknowledgement of a writeback at most one message.

### Parallel simulation

The invariant has four layers, and each is shown to be kept with the help of those
before it.

- `Places` says where the threads are.  `numLeft` of a barrier is the number of threads
  that have still to arrive (`Counted`); a thread past the first barrier of a global event
  has all the others between its barriers (`Together`), one of them alone runs process()
  (`OneWorker`), and the threads leave the loop together (`StopTogether`).  `Together` is
  kept because the thread that finds `numLeft` at one is the last of N, which is the one
  place where threads are counted.
- `Timed` says where time is.  There is a tick S, the end of the quantum (`Rounds`): every
  thread has the quantum event in its queue for S, waits at it, or has just left it, so
  that no clock has passed S and none is more than a quantum behind; and whatever is in an
  `async_queue`, or about to be put there, is for S or later.  When the last thread has
  arrived the worker reschedules the event for the next S, queue after queue, and while
  it does so some queues have the event and some do not yet (`Pushed`, `Inserted`).
  `SameClock` and `OneTick` say that threads at one global event are at one tick, and
  `LimitKept` that the limit event is where simulate() can find it.
- `Agreed` says where the barrier events of requested global events are: one for each
  thread (`Single`), in all queues or none except while they are being scheduled
  (`Whole`); and a thread in a first barrier has nothing in its queue that goes before
  that event (`Passed`).  Two threads at different barriers then each have the other's
  event behind its own, at the same tick and priority.
- `Ties` says in which order requests of one tick and priority are: there is a ranking of
  the requests, by when they took `globalQMutex` (`Holds`), that every queue follows, the
  later one first, and every `async_queue`, the later one last (`Queued`).  So of two
  requests only the later can be at the head of a queue that has both.

`Arithmetic` is two facts about numbers and sets, the smallest element of a set and the
size of a set with one more thread.  The lemmas assume it and `ArithmeticHolds`, at the
end, proves it: the library of finite sets slows the prover down wherever it is visible.

### The others

`SnapMemProofs`: a block that was recorded stays accounted for while the address
generation unit runs through its unit only if a unit that is not complete has blocks left
(`AguSound`), and `scat` is the set of blocks under way only if a read is issued for a
block that is not (`Outstanding`).  The controller has one event scheduled (`OneEvent`).
Since a port holds only packets of blocks in `scat`, `queue_size` leaves it room for one
more whenever one is sent (`RoomInPort`).

`AsyncSignalsProofs`: that the loop polls or exits only when it should depends on what it
tested some steps earlier, while handlers go on setting flags and other threads clear
them.  `Counted` says, of each thread, that a set flag stands for a request beyond those
the thread has taken on, and so does one it has found set (`Found`) or has just cleared
(`Cleared`), which is a second one if the flag is set again.  The exception is a flag whose
value has been used and that is about to be cleared (`Stale`).

`RenameMapProofs` adds to `RegistersConserved` that the history is linked: the youngest
rename of an architectural register made its present mapping, and each older one made
the mapping that the next younger one replaced.  Without it, undoing a rename could free
a register that is not the one in the map.  `O3Pipeline` changes the three structures
only through the operators that are the steps of `SpecRegs`, several in a cycle, and
never renames without a free register; that this composition is right is checked by
`o3_pipeline`, not proved.

### What stays with TLC

Liveness (`NoLostRequest`, `SomeoneProgresses`, `SnapshotEnds` and the others), which the
prover does not handle under fairness.  The handlers of `TimingPorts` and
`ClassicCache`, a cycle of `O3Pipeline` and the stages of `LoadStoreQueue`, which are
folds or recursive operators over data: what they compute needs inductions the prover
cannot do.  `SimulateReturns` of `ParallelSim` is liveness too.

A module that is proved about extends only what it needs, because the prover carries
every definition of the modules it extends through every obligation: hence `InsertAt`
and `RemoveAt`, each a line, in `EventList` and `MIExample`.

## Where code and comments disagree

Each line is a configuration under which TLC finds the property violated.  The first is
a run of `PROJECT.json`, whose finding quotes the line that is contradicted.  Where one
configuration has several lines, `tlc -continue` reports them all.

| Configuration | Property | In short |
|---|---|---|
| `MCMIInvalid.cfg` | `NoInvalidTransition` | an overtaken writeback has no transition in M_DRD and M_DWR (`MI_example-dir.sm:486`) |
| `MCParallelSimStat.cfg` | `GlobalTotalOrder` | a statistics event requested at the tick where simulate() starts can be merged by only some threads before the first quantum event (`stat_control.cc:249`, `global_event.cc:57`) |
| `MCAsyncSignalsReset.cfg` | `NoLostRequest` | a reset request between reading and clearing the flags is lost (`async.hh:41`) |
| `MCSnapMemOneCPU.cfg` | `AllWrittenBlocksRead` | a store miss is a ReadExReq, which the filter ignores (`snap_mem_ctrl.cc:197`, `:272`) |
| `MCParallelSimExit.cfg` | `GlobalTotalOrder` | the rescheduled limit event meets an exit event that only some queues hold (`simulate.cc:113`) |
| `MCParallelSimRaces.cfg` | `FlagsAccurate` | the Scheduled flag is set after the event may have been served, although schedule() is "Safe to call from any thread" (`eventq.hh:560`) |
| `MCParallelSimRaces.cfg` | `NoDeletedBarrier` | a global event is deleted while a thread is inside its barrier (`global_event.cc:114`) |
| `MCMIOneCache.cfg` | `NoInvalidTransition` | a DMA request has no transition in M_DRDI and M_DWRI (`MI_example-dir.sm:490`) |
| `MCMIOneCache.cfg` | `LatestData` | a partial DMA write to memory does not keep the rest of the line (`AbstractController.cc:263`) |
| `MCAsyncSignalsLost.cfg` | `NothingStranded` | with two threads, `async_event` can be consumed before its request is visible, which then waits for the next signal (`init_signals.cc:97`) |
| `MCAsyncSignalsTwice.cfg` | `OneThreadServes` | with two threads, two of them carry out one request (`simulate.cc:154`) |
| `MCAsyncSignalsRaise.cfg` | `LoopReturnsAnEvent` | doSimLoop returns NULL after an exception, simulate() asserts it does not (`simulate.cc:132`) |
| `MCSnapMemOneCPU.cfg` | `SnapshotHoldsData` | the copy carries a fresh buffer instead of the data read (`snap_mem_ctrl.cc:188`) |
| `MCSnapMemTwice.cfg` | `NoBlockTwice` | a unit written again is generated while its copy is outstanding (`snap_mem_ctrl.cc:300`) |
| `MCSnapMemOneCPU.cfg` | `CPUCanSwitch` | the CPU is suspended while it waits for memory, or resumed while its fetch event is still scheduled (`timing.cc:232`) |
| `MCClassicCacheLine.cfg` | `OneAnswerEach` | a whole-line write makes a WriteInvalidateReq; a cache that holds the block deferred behind its own miss inhibits memory for it and never answers (`cache_impl.hh:1684`, `mshr.cc:356`) |
| `MCClassicCacheFull.cfg` | `NoLostWrite` | with a full write buffer a miss that was promoted goes to memory before the writeback of its own block (`cache_impl.hh:1888`, comment at `:1914`) |
| `MCLoadStoreQueueBarriers.cfg` | `BarriersOrder` | squashing a barrier of the wrong path clears the mark of an older barrier as well, since only the youngest is remembered (`mem_dep_unit_impl.hh:511`, comment at `:310`) |
| `MCLoadStoreQueueRelaxed.cfg` | `TotalStoreOrder` | an invalidation that comes with a response is skipped for a load that is by then at the head of the queue (`lsq_unit_impl.hh:464`); this needs a cache that lets a later response overtake an earlier one of another block |

## Not modelled

* In the modelled files: serialization, tracing, statistics counters, `replaceHead`,
  `ScopedMigration`, exit and statistics events that repeat; in Ruby functional
  accesses, LL/SC and the deadlock watchdog, cycles and latencies, several lines in one
  controller.
* In the modelled parts: of the ports, atomic and functional accesses, address ranges and
  several crossbars in a row; of the caches, a second level, uncacheable accesses,
  prefetching, Swap, error responses and a full MSHR queue; of the processor, several
  threads, decode's own branch squash, interrupts, squashes by a thread context, drain
  and switching out, idling, functional units and issue widths, floating point and
  condition registers; of the load/store queue, split and strictly ordered accesses,
  store conditionals, delayed translation, the checker and the clearing of store sets.
* `DRAMCtrl`: queues and banks governed by tick arithmetic, which a small instance does
  not represent.
* Checkpoints, and `replaceHead` during Ruby's warm-up: sequential.
* The other CPUs, instruction sets, particular devices, kernel and workload loading,
  system-call emulation, the configuration scripts: sequential, or dominated by data
  that a small instance cannot represent.  They are most of the source tree.
* The SLICC compiler and the other protocols: MI_example is the one small enough to be
  translated completely.

## Plan

1. Theorems: `PacketsConserved` and `RetryProtocol` of TimingPorts.
2. The composition of `O3Pipeline` with `LoadStoreQueue`, and of the latter with
   `ClassicCache` in the place of its reduced cache.
3. A second level of caches; split accesses and store conditionals in the load/store
   queue.
4. MIExample with two lines and two directories, for the stalled forward buffer.
5. ParallelSim: deschedule of global events (`periodicStatDump`) and `ScopedMigration`.

## Using it

    tlc -workers 2 -config MCEventList.cfg MCEventList
    tlapm EventListProofs.tla
    tlapm EventQueueProofs.tla
    tlapm EventQueueRefinesProofs.tla
    tlapm MIExampleProofs.tla
    tlapm SnapMemProofs.tla
    tlapm AsyncSignalsProofs.tla
    tlapm RenameMapProofs.tla
    tlapm ParallelSimProofs.tla

With two workers the longest run, `eventq`, takes three to four minutes and the others
at most one or two.  The proofs take about an hour in all: twenty minutes for
`ParallelSimProofs`, ten each for `MIExampleProofs` and `EventQueueRefinesProofs`, five
for `EventQueueProofs`, one or two for each of the others.  The module of a run is in
`PROJECT.json`.

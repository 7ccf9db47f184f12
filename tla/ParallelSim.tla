------------------------------ MODULE ParallelSim ------------------------------
(***************************************************************************)
(* Parallel simulation: one thread per main event queue runs doSimLoop()   *)
(* (sim/simulate.cc); global events (sim/global_event.cc) put one local    *)
(* barrier event on every queue and meet at a Barrier (base/barrier.hh);   *)
(* events for another thread's queue travel through its async_queue        *)
(* (sim/eventq.cc) and are merged at the end of each quantum.  Thread 0 is *)
(* the main thread: between two calls of simulate() it runs Python.        *)
(*                                                                         *)
(* An event queue is the sorted sequence that EventList describes and      *)
(* EventQueue implements; here its entries are [ev, w], event and tick.    *)
(***************************************************************************)
EXTENDS Integers, Sequences

CONSTANTS
    N,              \* numMainEventQueues
    Quantum,        \* simQuantum
    LastTick,       \* MaxTick
    Cycles,         \* the arguments simulate() is called with
    Locals,         \* ordinary events
    From, To,       \* the thread that schedules a local event, the queue it is scheduled on
    LocalDelays,    \* how far ahead a thread schedules on its own queue
    AsyncDelays,    \* how far ahead a thread schedules on another queue
    Sync,           \* the quantum event of simulate()
    Limit,          \* simulate_limit_event
    Requests,       \* global events that running events create
    RequestDelays,  \* how far ahead they create them
    ExitEvents,     \* the global events with IsExitEvent set
    AutoDelete,     \* the global events with AutoDelete set
    Priority        \* of every event

Threads == 0 .. N - 1
Globals == {Sync, Limit} \cup Requests
Events == Locals \cup Globals
ThreadBarrier == "threadBarrier"
Barriers == Globals \cup {ThreadBarrier}
NoThread == N
Ticks == Nat

\* A Barrier's generation is an unsigned that wraps; two values tell apart all that a waiter compares.
Generations == 0 .. 1

ASSUME ParallelAssumption ==
    /\ N \in Nat /\ N > 1
    /\ Quantum \in Nat \ {0}
    /\ LastTick \in Nat
    /\ Sync # Limit /\ {Sync, Limit} \cap Requests = {} /\ Locals \cap Globals = {}
    /\ From \in [Locals -> Threads] /\ To \in [Locals -> Threads]
    /\ Priority \in [Events -> Int]
    /\ Limit \in ExitEvents /\ ExitEvents \subseteq Globals /\ Sync \notin ExitEvents
    /\ ThreadBarrier \notin Globals

\* The contract of a quantum (sim/eventq.hh): an event scheduled on one queue by an
\* event of another "should be at least simQuantum ticks away in future".
ASSUME DelaysAssumption ==
    /\ Cycles \subseteq Ticks /\ LocalDelays \subseteq Ticks /\ RequestDelays \subseteq Ticks
    /\ AsyncDelays \subseteq {d \in Ticks : d >= Quantum}

VARIABLES
    evq,          \* the EventQueue of each thread
    asyncq,       \* its async_queue
    curTick,      \* its _curTick
    pc,           \* where each thread is
    cur,          \* the event a thread is servicing
    pend,         \* what remains of a schedule() a thread has started
    gen,          \* the local variable gen of Barrier::wait()
    generation,   \* of each Barrier
    numLeft,      \* of each Barrier
    globalQMutex, \* its holder
    scheduled,    \* the local events with the Scheduled flag set
    deleted       \* the global events that have been deleted

vars == <<evq, asyncq, curTick, pc, cur, pend, gen, generation, numLeft, globalQMutex, scheduled, deleted>>
barriers == <<gen, generation, numLeft>>
queues == <<evq, asyncq, scheduled>>

\* Thread states.  "python": main thread outside simulate(); "thread": about to
\* wait on threadBarrier; "threadWait": waiting on it; "enter": at the top of
\* doSimLoop(); "loop": in its while; "process": inside process() of a local
\* event; "flag": inside schedule(), the event inserted, its flag not yet set;
\* "lock", "insert": inside BaseGlobalEvent::schedule(); "wait1", "wait2": in
\* the first and second globalBarrier(); "work": inside process() of the global
\* event; "arrive2": about to enter the second barrier; "exit": doSimLoop() has returned.
PCs == {"python", "thread", "threadWait", "enter", "loop", "process", "flag", "lock", "insert",
        "wait1", "work", "arrive2", "wait2", "exit"}

--------------------------------------------------------------------------------
(* Queues *)

Entry(e, w) == [ev |-> e, w |-> w]

Less(x, y) == x.w < y.w \/ (x.w = y.w /\ Priority[x.ev] < Priority[y.ev])

\* How many entries x goes behind: the smaller ones, not its equals.
Ahead(q, x) ==
    CHOOSE n \in 0 .. Len(q) : /\ \A i \in 1 .. n : Less(q[i], x)
                               /\ n < Len(q) => ~Less(q[n + 1], x)

\* EventQueue::insert()
Insert(q, x) ==
    SubSeq(q, 1, Ahead(q, x)) \o <<x>> \o SubSeq(q, Ahead(q, x) + 1, Len(q))

Has(q, e) == \E i \in 1 .. Len(q) : q[i].ev = e

\* EventQueue::remove(), of an event that may not be there.
Without(q, e) ==
    LET n == CHOOSE i \in 1 .. Len(q) : q[i].ev = e
    IN  IF Has(q, e) THEN SubSeq(q, 1, n - 1) \o SubSeq(q, n + 1, Len(q)) ELSE q

\* What inserting the entries of a one after the other makes of q.
Merge(q, a) ==
    LET merged[n \in 0 .. Len(a)] == IF n = 0 THEN q ELSE Insert(merged[n - 1], a[n])
    IN  merged[Len(a)]

inParallelMode == pc[0] # "python"

\* EventQueue::handleAsyncInsertions(): the whole loop runs under async_queue_mutex.
handleAsyncInsertions(t) ==
    /\ evq' = [evq EXCEPT ![t] = Merge(@, asyncq[t])]
    /\ asyncq' = [asyncq EXCEPT ![t] = <<>>]

\* EventQueue::schedule() on queue u by thread t, up to the setting of the flag.
schedule(t, u, x, global) ==
    IF inParallelMode /\ (u # t \/ global)
    THEN /\ asyncq' = [asyncq EXCEPT ![u] = Append(@, x)]
         /\ UNCHANGED evq
    ELSE /\ evq' = [evq EXCEPT ![u] = Insert(@, x)]
         /\ UNCHANGED asyncq

--------------------------------------------------------------------------------
(* Barriers *)

\* Barrier::wait() up to the while loop: the last to arrive opens the next
\* generation.  It returns true, at `last`; the others go to wait at `others`.
wait(t, b, last, others) ==
    /\ gen' = [gen EXCEPT ![t] = generation[b]]
    /\ numLeft' = [numLeft EXCEPT ![b] = IF @ = 1 THEN N ELSE @ - 1]
    /\ generation' = [generation EXCEPT ![b] = IF numLeft[b] = 1 THEN 1 - @ ELSE @]
    /\ pc' = [pc EXCEPT ![t] = IF numLeft[b] = 1 THEN last ELSE others]

\* The while loop of Barrier::wait() ends.
Released(t, b) == gen[t] # generation[b]

--------------------------------------------------------------------------------
(* simulate() and doSimLoop() *)

Init ==
    /\ evq = [t \in Threads |-> <<Entry(Limit, 0)>>]
    /\ asyncq = [t \in Threads |-> <<>>]
    /\ curTick = [t \in Threads |-> 0]
    /\ pc = [t \in Threads |-> IF t = 0 THEN "python" ELSE "thread"]
    /\ cur = [t \in Threads |-> Limit]
    /\ pend = [t \in Threads |-> [ev |-> Limit, w |-> 0, i |-> 0, ret |-> "loop"]]
    /\ gen = [t \in Threads |-> 0]
    /\ generation = [b \in Barriers |-> 0]
    /\ numLeft = [b \in Barriers |-> N]
    /\ globalQMutex = NoThread
    /\ scheduled = {}
    /\ deleted = {}

\* Python instantiates objects, which schedule their first events.
Startup(e, d) ==
    /\ pc[0] = "python"
    /\ e \notin scheduled
    /\ schedule(0, To[e], Entry(e, curTick[To[e]] + d), FALSE)
    /\ scheduled' = scheduled \cup {e}
    /\ UNCHANGED <<curTick, pc, cur, pend, barriers, globalQMutex, deleted>>

\* Mutant of Simulate: the first quantum is twice as long.
Simulate_twoQuanta(n) ==
    LET limit == IF n < LastTick - curTick[0] THEN curTick[0] + n ELSE LastTick
        sync == curTick[0] + 2 * Quantum
    IN  /\ pc[0] = "python"
        /\ evq' = [t \in Threads |->
                     Insert(Insert(Without(evq[t], Limit), Entry(Limit, limit)), Entry(Sync, sync))]
        /\ deleted' = deleted \ {Sync}
        /\ pc' = [pc EXCEPT ![0] = "thread"]
        /\ UNCHANGED <<asyncq, curTick, cur, pend, barriers, globalQMutex, scheduled>>

\* simulate(num_cycles) up to threadBarrier: the limit event is moved, the
\* quantum event is created; both are inserted directly, inParallelMode being false.
Simulate(n) ==
    LET limit == IF n < LastTick - curTick[0] THEN curTick[0] + n ELSE LastTick
        sync == curTick[0] + Quantum
    IN  /\ pc[0] = "python"
        /\ evq' = [t \in Threads |->
                     Insert(Insert(Without(evq[t], Limit), Entry(Limit, limit)), Entry(Sync, sync))]
        /\ deleted' = deleted \ {Sync}
        /\ pc' = [pc EXCEPT ![0] = "thread"]
        /\ UNCHANGED <<asyncq, curTick, cur, pend, barriers, globalQMutex, scheduled>>

\* threadBarrier->wait()
ThreadWait(t) ==
    /\ pc[t] = "thread"
    /\ wait(t, ThreadBarrier, "enter", "threadWait")
    /\ UNCHANGED <<queues, curTick, cur, pend, globalQMutex, deleted>>

ThreadReleased(t) ==
    /\ pc[t] = "threadWait"
    /\ Released(t, ThreadBarrier)
    /\ pc' = [pc EXCEPT ![t] = "enter"]
    /\ UNCHANGED <<queues, curTick, cur, pend, barriers, globalQMutex, deleted>>

EnterLoop(t) ==
    /\ pc[t] = "enter"
    /\ handleAsyncInsertions(t)
    /\ pc' = [pc EXCEPT ![t] = "loop"]
    /\ UNCHANGED <<curTick, cur, pend, barriers, globalQMutex, scheduled, deleted>>

\* EventQueue::serviceOne() up to process(): the head leaves the queue, its flag
\* is cleared, the clock advances.  A barrier event's process() starts with globalBarrier().
ServiceOne(t) ==
    LET x == Head(evq[t])
    IN  /\ pc[t] = "loop"
        /\ evq[t] # <<>>
        /\ evq' = [evq EXCEPT ![t] = Tail(@)]
        /\ curTick' = [curTick EXCEPT ![t] = x.w]
        /\ cur' = [cur EXCEPT ![t] = x.ev]
        /\ scheduled' = scheduled \ {x.ev}
        /\ IF x.ev \in Locals
           THEN /\ pc' = [pc EXCEPT ![t] = "process"]
                /\ UNCHANGED barriers
           ELSE wait(t, x.ev, "work", "wait1")
        /\ UNCHANGED <<asyncq, pend, globalQMutex, deleted>>

\* doSimLoop() has returned to thread_loop(), or to simulate(), which
\* deschedules the quantum event on every queue and deletes it.
LeaveLoop(t) ==
    /\ pc[t] = "exit"
    /\ IF t = 0
       THEN /\ pc' = [pc EXCEPT ![t] = "python"]
            /\ evq' = [u \in Threads |-> Without(evq[u], Sync)]
            /\ deleted' = deleted \cup {Sync}
       ELSE /\ pc' = [pc EXCEPT ![t] = "thread"]
            /\ UNCHANGED <<evq, deleted>>
    /\ UNCHANGED <<asyncq, curTick, cur, pend, barriers, globalQMutex, scheduled>>

--------------------------------------------------------------------------------
(* What the process() of a local event does *)

\* A thread schedules an event of its own queue.
ScheduleOwn(t, e, d) ==
    /\ pc[t] = "process"
    /\ From[e] = t /\ To[e] = t
    /\ e \notin scheduled
    /\ schedule(t, t, Entry(e, curTick[t] + d), FALSE)
    /\ scheduled' = scheduled \cup {e}
    /\ UNCHANGED <<curTick, pc, cur, pend, barriers, globalQMutex, deleted>>

\* A thread schedules an event of another queue: schedule() inserts it in the
\* async_queue first and sets its flag in a later step.
Send(t, e, d) ==
    /\ pc[t] = "process"
    /\ From[e] = t /\ To[e] # t
    /\ e \notin scheduled
    /\ schedule(t, To[e], Entry(e, curTick[t] + d), FALSE)
    /\ pend' = [pend EXCEPT ![t] = [ev |-> e, w |-> curTick[t] + d, i |-> To[e], ret |-> "process"]]
    /\ pc' = [pc EXCEPT ![t] = "flag"]
    /\ UNCHANGED <<curTick, cur, barriers, globalQMutex, scheduled, deleted>>

SetFlag(t) ==
    /\ pc[t] = "flag"
    /\ scheduled' = scheduled \cup {pend[t].ev}
    /\ pc' = [pc EXCEPT ![t] = pend[t].ret]
    /\ UNCHANGED <<evq, asyncq, curTick, cur, pend, barriers, globalQMutex, deleted>>

InUse(g) ==
    \/ \E t \in Threads : Has(evq[t], g) \/ Has(asyncq[t], g)
    \/ \E t \in Threads : pc[t] \in {"lock", "insert"} /\ pend[t].ev = g
    \/ \E t \in Threads : pc[t] \in {"wait1", "work", "arrive2", "wait2"} /\ cur[t] = g

\* A thread creates a global event, at least one quantum ahead (exitSimLoop,
\* schedStatEvent); its constructor calls BaseGlobalEvent::schedule().
Request(t, g, d) ==
    /\ pc[t] = "process"
    /\ ~InUse(g)
    /\ pend' = [pend EXCEPT ![t] = [ev |-> g, w |-> curTick[t] + d + Quantum, i |-> 0, ret |-> "process"]]
    /\ pc' = [pc EXCEPT ![t] = "lock"]
    /\ deleted' = deleted \ {g}
    /\ UNCHANGED <<queues, curTick, cur, barriers, globalQMutex>>

ProcessReturns(t) ==
    /\ pc[t] = "process"
    /\ pc' = [pc EXCEPT ![t] = "loop"]
    /\ UNCHANGED <<queues, curTick, cur, pend, barriers, globalQMutex, deleted>>

--------------------------------------------------------------------------------
(* Global events *)

\* Mutant of LockGlobalQ: globalQMutex is not taken.
LockGlobalQ_unlocked(t) ==
    /\ pc[t] = "lock"
    /\ pc' = [pc EXCEPT ![t] = "insert"]
    /\ UNCHANGED <<queues, curTick, cur, pend, barriers, globalQMutex, deleted>>

\* globalQMutex.lock() in BaseGlobalEvent::schedule().
LockGlobalQ(t) ==
    /\ pc[t] = "lock"
    /\ globalQMutex = NoThread
    /\ globalQMutex' = t
    /\ pc' = [pc EXCEPT ![t] = "insert"]
    /\ UNCHANGED <<queues, curTick, cur, pend, barriers, deleted>>

\* One turn of its loop: the barrier event of queue i; after the last, unlock().
InsertGlobal(t) ==
    LET p == pend[t]
    IN  /\ pc[t] = "insert"
        /\ schedule(t, p.i, Entry(p.ev, p.w), TRUE)
        /\ IF p.i < N - 1
           THEN /\ pend' = [pend EXCEPT ![t].i = @ + 1]
                /\ UNCHANGED <<pc, globalQMutex>>
           ELSE /\ pc' = [pc EXCEPT ![t] = p.ret]
                /\ globalQMutex' = NoThread
                /\ UNCHANGED pend
        /\ UNCHANGED <<curTick, cur, barriers, scheduled, deleted>>

\* _globalEvent->process(), run by the thread for which the first globalBarrier()
\* returned true; a GlobalSyncEvent schedules itself `repeat` ticks ahead.
RunProcess(t, repeat) ==
    /\ pc[t] = "work"
    /\ IF cur[t] = Sync
       THEN /\ pend' = [pend EXCEPT ![t] = [ev |-> Sync, w |-> curTick[t] + repeat, i |-> 0, ret |-> "arrive2"]]
            /\ pc' = [pc EXCEPT ![t] = "lock"]
       ELSE /\ pc' = [pc EXCEPT ![t] = "arrive2"]
            /\ UNCHANGED pend
    /\ UNCHANGED <<queues, curTick, cur, barriers, globalQMutex, deleted>>

\* Mutant of Work: the quantum event is not scheduled again.
Work_noRepeat(t) ==
    /\ pc[t] = "work"
    /\ pc' = [pc EXCEPT ![t] = "arrive2"]
    /\ UNCHANGED <<queues, curTick, cur, pend, barriers, globalQMutex, deleted>>

\* Mutant of Work: it is scheduled again for the same tick.
Work_sameTick(t) == RunProcess(t, 0)

Work(t) == RunProcess(t, Quantum)

\* The others return from the first globalBarrier().
Released1(t) ==
    /\ pc[t] = "wait1"
    /\ Released(t, cur[t])
    /\ pc' = [pc EXCEPT ![t] = "arrive2"]
    /\ UNCHANGED <<queues, curTick, cur, pend, barriers, globalQMutex, deleted>>

\* The second globalBarrier().
Arrive2(t) ==
    /\ pc[t] = "arrive2"
    /\ wait(t, cur[t], "wait2", "wait2")
    /\ UNCHANGED <<queues, curTick, cur, pend, globalQMutex, deleted>>

\* Behind the second barrier: a GlobalSyncEvent merges the async_queue; then
\* serviceOne() deletes an AutoDelete event (the one of queue 0 deletes the
\* global event with its barrier) and returns an exit event to doSimLoop().
Return(t) ==
    /\ pc[t] = "wait2"
    /\ Released(t, cur[t])
    /\ IF cur[t] = Sync THEN handleAsyncInsertions(t) ELSE UNCHANGED <<evq, asyncq>>
    /\ deleted' = IF t = 0 /\ cur[t] \in AutoDelete THEN deleted \cup {cur[t]} ELSE deleted
    /\ pc' = [pc EXCEPT ![t] = IF cur[t] \in ExitEvents THEN "exit" ELSE "loop"]
    /\ UNCHANGED <<curTick, cur, pend, barriers, globalQMutex, scheduled>>

--------------------------------------------------------------------------------
Python ==
    \/ \E n \in Cycles : Simulate(n)
    \/ \E e \in Locals, d \in LocalDelays : Startup(e, d)

Step(t) ==
    \/ ThreadWait(t) \/ ThreadReleased(t) \/ EnterLoop(t) \/ ServiceOne(t) \/ LeaveLoop(t)
    \/ \E e \in Locals, d \in LocalDelays : ScheduleOwn(t, e, d)
    \/ \E e \in Locals, d \in AsyncDelays : Send(t, e, d)
    \/ SetFlag(t)
    \/ \E g \in Requests, d \in RequestDelays : Request(t, g, d)
    \/ ProcessReturns(t)
    \/ LockGlobalQ(t) \/ InsertGlobal(t)
    \/ Work(t) \/ Released1(t) \/ Arrive2(t) \/ Return(t)

Next == Python \/ \E t \in Threads : Step(t)

Spec == Init /\ [][Next]_vars

\* Thread t has a step: it is in simulate() and waits for nobody.
CanStep(t) ==
    CASE pc[t] = "python" -> FALSE
      [] pc[t] = "loop" -> evq[t] # <<>>
      [] pc[t] = "threadWait" -> Released(t, ThreadBarrier)
      [] pc[t] \in {"wait1", "wait2"} -> Released(t, cur[t])
      [] pc[t] = "lock" -> globalQMutex = NoThread
      [] OTHER -> TRUE

\* The operating system keeps running every simulation thread: the weak fairness
\* of Step(t), with its enabling condition written out.  (A step that leaves pc
\* and pend alone, ScheduleOwn, is one that cannot be repeated for ever.)
FairSpec ==
    /\ Spec
    /\ \A t \in Threads :
         <>[]CanStep(t) => []<><<pc'[t] # pc[t] \/ pend'[t] # pend[t]>>_vars

--------------------------------------------------------------------------------
(* Properties *)

EntryOK(x) == x.ev \in Events /\ x.w \in Ticks

TypeOK ==
    /\ \A t \in Threads : \A i \in DOMAIN evq[t] : EntryOK(evq[t][i])
    /\ \A t \in Threads : \A i \in DOMAIN asyncq[t] : EntryOK(asyncq[t][i])
    /\ DOMAIN evq = Threads /\ DOMAIN asyncq = Threads
    /\ curTick \in [Threads -> Ticks]
    /\ pc \in [Threads -> PCs]
    /\ cur \in [Threads -> Events]
    /\ pend \in [Threads -> [ev : Events, w : Ticks, i : Threads, ret : PCs]]
    /\ gen \in [Threads -> Generations]
    /\ generation \in [Barriers -> Generations]
    /\ numLeft \in [Barriers -> 1 .. N]
    /\ globalQMutex \in Threads \cup {NoThread}
    /\ scheduled \subseteq Locals
    /\ deleted \subseteq Globals

\* The assertion of doSimLoop() ("event scheduled in the past"): merging what
\* other threads sent never puts an event behind the queue's clock.
NothingInThePast == \A t \in Threads : evq[t] # <<>> => curTick[t] <= Head(evq[t]).w

\* schedule()'s assertion when >= getCurTick() holds of the target's clock,
\* which the target's own thread is advancing while the sender computes `when`.
NotInTargetsPast ==
    \A t \in Threads :
        /\ pc[t] = "insert" => pend[t].w >= curTick[pend[t].i]
        /\ \A i \in DOMAIN asyncq[t] : asyncq[t][i].w >= curTick[t]

\* What makes both true: no thread's clock is more than a quantum ahead of another's.
WithinAQuantum == \A t, u \in Threads : curTick[t] <= curTick[u] + Quantum

\* Time is kept between the threads: no event reaches a queue behind its clock,
\* however far the sender's clock is from the target's (schedule(), asyncInsert(),
\* handleAsyncInsertions(), doSimLoop()).
TimeIsCausal == TypeOK /\ NothingInThePast /\ NotInTargetsPast /\ WithinAQuantum

BlockedOn(t, b) ==
    \/ pc[t] \in {"wait1", "wait2"} /\ cur[t] = b /\ ~Released(t, b)
    \/ pc[t] = "threadWait" /\ b = ThreadBarrier /\ ~Released(t, b)

\* Global events have a total order (the comment in BaseGlobalEvent::schedule()):
\* two threads never wait on the barriers of two different global events.
GlobalTotalOrder ==
    \A t, u \in Threads, b, c \in Barriers : BlockedOn(t, b) /\ BlockedOn(u, c) => b = c

\* "Exactly one of the threads will execute the process() method, then the threads
\* will synchronize again so that none of them continue until process() is complete."
ProcessRunsAlone ==
    \A t \in Threads :
        pc[t] = "work" \/ (pc[t] \in {"lock", "insert"} /\ pend[t].ret = "arrive2") =>
            \A u \in Threads \ {t} :
                /\ pc[u] \in {"wait1", "arrive2", "wait2"} /\ cur[u] = cur[t]
                /\ curTick[u] = curTick[t]

\* Global events are served by all threads in one order, and each by one thread
\* while the others wait (BaseGlobalEvent::schedule(), BarrierEvent::process()).
GlobalEventsAgree == GlobalTotalOrder /\ ProcessRunsAlone

\* When simulate() deschedules its quantum event it is in every queue, none of
\* its barrier events is still in an async_queue, where remove() would not find
\* it, and all clocks agree: the next simulate() may schedule on every queue.
ReturnsInSync ==
    pc[0] = "exit" =>
        \A t \in Threads : Has(evq[t], Sync) /\ ~Has(asyncq[t], Sync) /\ curTick[t] = curTick[0]

\* No thread is inside the barrier of a global event that has been deleted.
NoDeletedBarrier ==
    \A t \in Threads : pc[t] \in {"wait1", "work", "arrive2", "wait2"} => cur[t] \notin deleted

\* schedule() is "safe to call from any thread": when no schedule() of an event is
\* in progress, its Scheduled flag says whether it is in a queue.
FlagsAccurate ==
    \A e \in Locals :
        (\A t \in Threads : ~(pc[t] = "flag" /\ pend[t].ev = e)) =>
            (e \in scheduled <=> Has(evq[To[e]], e) \/ Has(asyncq[To[e]], e))

\* Every call of simulate() returns to Python.
SimulateReturns == (pc[0] # "python") ~> (pc[0] = "python")

================================================================================

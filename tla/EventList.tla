------------------------------ MODULE EventList ------------------------------
(***************************************************************************)
(* What an event queue of the simulator promises to the objects that       *)
(* schedule events on it (sim/eventq.hh, sim/eventq_impl.hh).  The queue   *)
(* is one sequence in service order; the linked lists that implement it    *)
(* are in EventQueue.  The module is the single-threaded view: what the    *)
(* owning thread does while inParallelMode is false, or on its own queue.  *)
(*                                                                         *)
(* serviceOne() is two steps, because Event::process() runs in between and *)
(* is free to schedule, deschedule, reschedule or squash events, its own   *)
(* included: those calls are steps taken while "processing" is the event.  *)
(***************************************************************************)
EXTENDS Integers, Sequences

CONSTANTS
  Events,       \* the Event objects
  NULL,         \* the null pointer
  Priority,     \* Event::_priority, fixed at construction
  Heap,         \* events allocated with new; the others are members of objects
  AutoDelete,   \* events constructed with Event::AutoDelete
  ExitEvents,   \* events constructed with Event::IsExitEvent
  MaxTick       \* the largest Tick

ASSUME EventsAssumption == NULL \notin Events
ASSUME PriorityAssumption == Priority \in [Events -> Int]
ASSUME FlagsAssumption ==
  Heap \subseteq Events /\ AutoDelete \subseteq Heap /\ ExitEvents \subseteq Events
ASSUME MaxTickAssumption == MaxTick \in Nat

VARIABLES
  q,            \* the queued events, the next one to be serviced first
  when,         \* Event::_when
  live,         \* the Event objects that exist
  scheduled,    \* events whose Scheduled flag is set
  squashed,     \* events whose Squashed flag is set
  curTick,      \* EventQueue::_curTick
  processing,   \* the event whose process() is running, or NULL
  until         \* argument of the serviceEvents() call in progress, or -1

vars == <<q, when, live, scheduled, squashed, curTick, processing, until>>

Ticks == 0 .. MaxTick

Less(w, l, r) ==
  w[l] < w[r] \/ (w[l] = w[r] /\ Priority[l] < Priority[r])

Queued(s, e) == \E i \in 1 .. Len(s) : s[i] = e

NoRepeat(s) == \A i, j \in 1 .. Len(s) : s[i] = s[j] => i = j

Ordered(s, w) ==
  \A i, j \in 1 .. Len(s) : i < j => ~Less(w, s[j], s[i])

\* Mutant of Ahead: the priority is not compared.
Ahead_tickOnly(s, w, e) ==
  CHOOSE n \in 0 .. Len(s) :
    /\ \A i \in 1 .. n : w[s[i]] < w[e]
    /\ n < Len(s) => w[s[n + 1]] >= w[e]

\* How many queued events an event goes behind: all that come strictly
\* earlier.  Events of the same tick and priority are served last in, first out.
Ahead(s, w, e) ==
  CHOOSE n \in 0 .. Len(s) :
    /\ \A i \in 1 .. n : Less(w, s[i], e)
    /\ n < Len(s) => ~Less(w, s[n + 1], e)

\* s with e at position i, and s without its i-th element.
InsertAt(s, i, e) == SubSeq(s, 1, i - 1) \o <<e>> \o SubSeq(s, i, Len(s))

RemoveAt(s, i) == SubSeq(s, 1, i - 1) \o SubSeq(s, i + 1, Len(s))

Insert(s, w, e) == InsertAt(s, Ahead(s, w, e) + 1, e)

Index(s, e) == CHOOSE i \in 1 .. Len(s) : s[i] = e

Dequeue(s, e) == RemoveAt(s, Index(s, e))

Init ==
  /\ q = <<>>
  /\ when = [e \in Events |-> 0]
  /\ live = Events \ Heap
  /\ scheduled = {}
  /\ squashed = {}
  /\ curTick = 0
  /\ processing = NULL
  /\ until = -1

-----------------------------------------------------------------------------
(* The life of an Event object. *)

Construct(e) ==
  /\ e \in Heap \ live
  /\ live' = live \cup {e}
  /\ when' = [when EXCEPT ![e] = 0]
  /\ UNCHANGED <<q, scheduled, squashed, curTick, processing, until>>

\* The owner deletes an event it allocated; ~Event asserts that it is not scheduled.
Destroy(e) ==
  /\ e \in (Heap \cap live) \ scheduled
  /\ e # processing
  /\ live' = live \ {e}
  /\ UNCHANGED <<q, when, scheduled, squashed, curTick, processing, until>>

-----------------------------------------------------------------------------
(* Calls on the queue. *)

\* Mutant of Schedule: the past is allowed.
Schedule_past(e, w) ==
  /\ e \in live \ scheduled
  /\ when' = [when EXCEPT ![e] = w]
  /\ q' = Insert(q, when', e)
  /\ scheduled' = scheduled \cup {e}
  /\ UNCHANGED <<live, squashed, curTick, processing, until>>

Schedule(e, w) ==
  /\ e \in live \ scheduled
  /\ w \in Ticks /\ w >= curTick
  /\ when' = [when EXCEPT ![e] = w]
  /\ q' = Insert(q, when', e)
  /\ scheduled' = scheduled \cup {e}
  /\ UNCHANGED <<live, squashed, curTick, processing, until>>

\* An AutoDelete event is deleted here, so it must not be the running one.
Deschedule(e) ==
  /\ e \in scheduled
  /\ e \in AutoDelete => e # processing
  /\ q' = Dequeue(q, e)
  /\ squashed' = squashed \ {e}
  /\ scheduled' = scheduled \ {e}
  /\ live' = IF e \in AutoDelete THEN live \ {e} ELSE live
  /\ UNCHANGED <<when, curTick, processing, until>>

\* reschedule(e, w, always); without always, e has to be scheduled.
Reschedule(e, w, always) ==
  /\ e \in live
  /\ w \in Ticks /\ w >= curTick
  /\ always \/ e \in scheduled
  /\ when' = [when EXCEPT ![e] = w]
  /\ q' = Insert(IF e \in scheduled THEN Dequeue(q, e) ELSE q, when', e)
  /\ squashed' = squashed \ {e}
  /\ scheduled' = scheduled \cup {e}
  /\ UNCHANGED <<live, curTick, processing, until>>

\* Every caller squashes an event it has scheduled.
Squash(e) ==
  /\ e \in scheduled
  /\ squashed' = squashed \cup {e}
  /\ UNCHANGED <<q, when, live, scheduled, curTick, processing, until>>

-----------------------------------------------------------------------------
(* serviceOne() and serviceEvents(). *)

Due == until >= 0 => when[Head(q)] <= until

ServiceOne ==
  /\ processing = NULL
  /\ q # <<>>
  /\ Due
  /\ Head(q) \notin squashed
  /\ q' = Tail(q)
  /\ scheduled' = scheduled \ {Head(q)}
  /\ curTick' = when[Head(q)]
  /\ processing' = Head(q)
  /\ UNCHANGED <<when, live, squashed, until>>

ServiceSquashed ==
  /\ processing = NULL
  /\ q # <<>>
  /\ Due
  /\ Head(q) \in squashed
  /\ q' = Tail(q)
  /\ scheduled' = scheduled \ {Head(q)}
  /\ squashed' = squashed \ {Head(q)}
  /\ live' = live \ (AutoDelete \cap {Head(q)})
  /\ UNCHANGED <<when, curTick, processing, until>>

\* process() returns.  An exit event is handed to the caller, not deleted.
ServiceDone ==
  /\ processing # NULL
  /\ live' = IF processing \in (AutoDelete \ ExitEvents) \ scheduled
             THEN live \ {processing} ELSE live
  /\ processing' = NULL
  /\ UNCHANGED <<q, when, scheduled, squashed, curTick, until>>

\* The instruction-count queues of the CPUs are served this way.
ServiceEvents(w) ==
  /\ processing = NULL /\ until = -1
  /\ w \in Ticks /\ w >= curTick
  /\ until' = w
  /\ UNCHANGED <<q, when, live, scheduled, squashed, curTick, processing>>

ServiceEventsDone ==
  /\ processing = NULL /\ until >= 0
  /\ q # <<>> => when[Head(q)] > until
  /\ curTick' = until
  /\ until' = -1
  /\ UNCHANGED <<q, when, live, scheduled, squashed, processing>>

Next ==
  \/ \E e \in Events : Construct(e) \/ Destroy(e) \/ Deschedule(e) \/ Squash(e)
  \/ \E e \in Events, w \in Ticks : Schedule(e, w)
  \/ \E e \in Events, w \in Ticks, always \in BOOLEAN : Reschedule(e, w, always)
  \/ ServiceOne \/ ServiceSquashed \/ ServiceDone
  \/ \E w \in Ticks : ServiceEvents(w)
  \/ ServiceEventsDone

Spec == Init /\ [][Next]_vars

-----------------------------------------------------------------------------
\* Every variable holds a value of its C++ type.
TypeOK ==
  /\ q \in Seq(Events)
  /\ when \in [Events -> Ticks]
  /\ live \subseteq Events /\ scheduled \subseteq Events /\ squashed \subseteq Events
  /\ curTick \in Ticks
  /\ processing \in Events \cup {NULL}
  /\ until \in -1 .. MaxTick

\* The Scheduled flag tells the truth: it is set exactly on the events that
\* are in the queue, each of them there once.  The asserts of schedule() and
\* deschedule() and the destructor's rely on it.
FlagMatchesQueue ==
  /\ \A e \in Events : e \in scheduled <=> Queued(q, e)
  /\ NoRepeat(q)

\* What EventQueue::debugVerify() looks for: no event comes after one that is
\* due later, or at the same tick with a larger priority value.
DebugVerify == Ordered(q, when)

\* The assertion of doSimLoop(), "event scheduled in the past": no queued
\* event lies before the queue's current tick.
NotInThePast == \A e \in Events : Queued(q, e) => curTick <= when[e]

\* A squash lasts only as long as the scheduling it cancels: schedule() does
\* not clear the Squashed flag, so a flag left behind would make serviceOne()
\* swallow the next, legitimate, occurrence of the event.
NoStaleSquash == squashed \subseteq scheduled

\* No event is deleted while it is queued or while its process() runs.
NoUseAfterDelete ==
  /\ scheduled \subseteq live
  /\ processing # NULL => processing \in live

\* Simulated time never runs backwards.
TimeIsMonotonic == [][curTick' >= curTick]_vars

\* serviceEvents(when) does not run past its argument.
ServiceEventsBound == until >= 0 => curTick <= until

\* What the queue keeps true whatever calls are made (schedule(), deschedule(),
\* reschedule(), serviceOne() and the rest); inductive, because the parts support
\* one another.  An event is found by deschedule() because the flag matches the
\* queue; time does not pass a queued event because the head is the earliest one.
IInv ==
  /\ TypeOK
  /\ FlagMatchesQueue
  /\ DebugVerify
  /\ NotInThePast
  /\ NoStaleSquash
  /\ NoUseAfterDelete
  /\ ServiceEventsBound
=============================================================================

------------------------------ MODULE EventQueue ------------------------------
(***************************************************************************)
(* EventQueue and Event as sim/eventq.cc implements them: a linked list of *)
(* bins (Event::nextBin), one per tick and priority, whose members are     *)
(* stacked through Event::nextInBin.  Only the top event of a bin has a    *)
(* meaningful nextBin; the others are stale until their event becomes the  *)
(* top.  The module implements EventList, see Implements.                  *)
(***************************************************************************)
EXTENDS Integers, Sequences, FiniteSets

CONSTANTS Events, NULL, Priority, Heap, AutoDelete, ExitEvents, MaxTick

ASSUME EventsAssumption == NULL \notin Events /\ IsFiniteSet(Events)
ASSUME PriorityAssumption == Priority \in [Events -> Int]
ASSUME FlagsAssumption ==
  Heap \subseteq Events /\ AutoDelete \subseteq Heap /\ ExitEvents \subseteq Events
ASSUME MaxTickAssumption == MaxTick \in Nat

VARIABLES
  list,         \* head, and the nextBin and nextInBin pointers of the events
  when, live, scheduled, squashed, curTick, processing, until

vars == <<list, when, live, scheduled, squashed, curTick, processing, until>>

Ticks == 0 .. MaxTick

Init ==
  /\ list = [head |-> NULL, nextBin |-> [e \in Events |-> NULL],
             nextInBin |-> [e \in Events |-> NULL]]
  /\ when = [e \in Events |-> 0]
  /\ live = Events \ Heap
  /\ scheduled = {}
  /\ squashed = {}
  /\ curTick = 0
  /\ processing = NULL
  /\ until = -1

-----------------------------------------------------------------------------
(* The comparison operators of events, w being their _when. *)

Less(w, l, r) ==
  w[l] < w[r] \/ (w[l] = w[r] /\ Priority[l] < Priority[r])

LessOrEqual(w, l, r) ==
  w[l] < w[r] \/ (w[l] = w[r] /\ Priority[l] <= Priority[r])

Equal(w, l, r) ==
  w[l] = w[r] /\ Priority[l] = Priority[r]

(* The pointer operations.  Each returns the lists it leaves behind. *)

\* Mutant of insertBefore: a new top of a bin forgets the old one.
insertBefore_drops(l, w, event, curr) ==
  IF curr = NULL \/ Less(w, event, curr)
  THEN [l EXCEPT !.nextBin[event] = curr, !.nextInBin[event] = NULL]
  ELSE [l EXCEPT !.nextBin[event] = l.nextBin[curr], !.nextInBin[event] = l.nextInBin[curr]]

insertBefore(l, w, event, curr) ==
  IF curr = NULL \/ Less(w, event, curr)
  THEN [l EXCEPT !.nextBin[event] = curr, !.nextInBin[event] = NULL]
  ELSE [l EXCEPT !.nextBin[event] = l.nextBin[curr], !.nextInBin[event] = curr]

\* The walk of insert() and remove() along the bins that come before event:
\* it stops at the last of them (prev in the code).
lastBinBefore(l, w, event) ==
  LET walk[prev \in Events] ==
        LET curr == l.nextBin[prev]
        IN  IF curr # NULL /\ Less(w, curr, event) THEN walk[curr] ELSE prev
  IN  walk[l.head]

\* Mutant of insert: an event equal to the head is stacked below it.
insert_belowHead(l, w, event) ==
  IF l.head # NULL /\ Equal(w, event, l.head)
  THEN [l EXCEPT !.nextInBin[event] = l.nextInBin[l.head], !.nextInBin[l.head] = event]
  ELSE IF l.head = NULL \/ Less(w, event, l.head)
  THEN [insertBefore(l, w, event, l.head) EXCEPT !.head = event]
  ELSE LET prev == lastBinBefore(l, w, event)
       IN  [insertBefore(l, w, event, l.nextBin[prev]) EXCEPT !.nextBin[prev] = event]

insert(l, w, event) ==
  IF l.head = NULL \/ LessOrEqual(w, event, l.head)
  THEN [insertBefore(l, w, event, l.head) EXCEPT !.head = event]
  ELSE LET prev == lastBinBefore(l, w, event)
       IN  [insertBefore(l, w, event, l.nextBin[prev]) EXCEPT !.nextBin[prev] = event]

\* The walk of removeItem() down the bin under top: it stops above event, or at
\* the bottom (curr in the code).
itemAbove(l, event, top) ==
  LET walk[curr \in Events] ==
        LET next == l.nextInBin[curr]
        IN  IF next # NULL /\ next # event THEN walk[next] ELSE curr
  IN  walk[top]

\* Takes event out of the bin under top: the lists, and the bin's new top.
removeItem(l, event, top) ==
  LET next == l.nextInBin[top]
  IN  IF event # top
      THEN <<[l EXCEPT !.nextInBin[itemAbove(l, event, top)] = l.nextInBin[event]], top>>
      ELSE IF next = NULL THEN <<l, l.nextBin[top]>>
      ELSE <<[l EXCEPT !.nextBin[next] = l.nextBin[top]], next>>

remove(l, w, event) ==
  IF Equal(w, l.head, event)
  THEN LET r == removeItem(l, event, l.head)
       IN  [r[1] EXCEPT !.head = r[2]]
  ELSE LET prev == lastBinBefore(l, w, event)
           r    == removeItem(l, event, l.nextBin[prev])
       IN  [r[1] EXCEPT !.nextBin[prev] = r[2]]

\* What remove() looks up; the code panics ("event not found!") without it.
findable(l, w, event) ==
  /\ l.head # NULL
  /\ LET top == IF Equal(w, l.head, event) THEN l.head
                ELSE l.nextBin[lastBinBefore(l, w, event)]
     IN  /\ top # NULL
         /\ Equal(w, top, event)
         /\ event = top \/ l.nextInBin[itemAbove(l, event, top)] = event

\* Mutant of popHead: the next event's nextBin stays stale.
popHead_stale(l) ==
  LET next == l.nextInBin[l.head]
  IN  IF next # NULL
      THEN [l EXCEPT !.head = next]
      ELSE [l EXCEPT !.head = l.nextBin[l.head]]

\* serviceOne() takes the head off, repairing the next event's stale nextBin.
popHead(l) ==
  LET next == l.nextInBin[l.head]
  IN  IF next # NULL
      THEN [l EXCEPT !.nextBin[next] = l.nextBin[l.head], !.head = next]
      ELSE [l EXCEPT !.head = l.nextBin[l.head]]

-----------------------------------------------------------------------------
Construct(e) ==
  /\ e \in Heap \ live
  /\ live' = live \cup {e}
  /\ when' = [when EXCEPT ![e] = 0]
  /\ list' = [list EXCEPT !.nextBin[e] = NULL, !.nextInBin[e] = NULL]
  /\ UNCHANGED <<scheduled, squashed, curTick, processing, until>>

Destroy(e) ==
  /\ e \in (Heap \cap live) \ scheduled
  /\ e # processing
  /\ live' = live \ {e}
  /\ UNCHANGED <<list, when, scheduled, squashed, curTick, processing, until>>

schedule(e, w) ==
  /\ e \in live \ scheduled
  /\ w >= curTick
  /\ when' = [when EXCEPT ![e] = w]
  /\ list' = insert(list, when', e)
  /\ scheduled' = scheduled \cup {e}
  /\ UNCHANGED <<live, squashed, curTick, processing, until>>

deschedule(e) ==
  /\ e \in scheduled
  /\ e \in AutoDelete => e # processing
  /\ list' = remove(list, when, e)
  /\ squashed' = squashed \ {e}
  /\ scheduled' = scheduled \ {e}
  /\ live' = IF e \in AutoDelete THEN live \ {e} ELSE live
  /\ UNCHANGED <<when, curTick, processing, until>>

reschedule(e, w, always) ==
  /\ e \in live
  /\ w >= curTick
  /\ always \/ e \in scheduled
  /\ when' = [when EXCEPT ![e] = w]
  /\ list' = insert(IF e \in scheduled THEN remove(list, when, e) ELSE list, when', e)
  /\ squashed' = squashed \ {e}
  /\ scheduled' = scheduled \cup {e}
  /\ UNCHANGED <<live, curTick, processing, until>>

squash(e) ==
  /\ e \in scheduled
  /\ squashed' = squashed \cup {e}
  /\ UNCHANGED <<list, when, live, scheduled, curTick, processing, until>>

\* serviceOne() up to the call of process() ...
serviceOne ==
  LET event == list.head IN
  /\ processing = NULL
  /\ event # NULL
  /\ until >= 0 => when[event] <= until
  /\ list' = popHead(list)
  /\ scheduled' = scheduled \ {event}
  /\ \/ /\ event \notin squashed
        /\ curTick' = when[event]
        /\ processing' = event
        /\ UNCHANGED <<live, squashed>>
     \/ /\ event \in squashed
        /\ squashed' = squashed \ {event}
        /\ live' = live \ (AutoDelete \cap {event})
        /\ UNCHANGED <<curTick, processing>>
  /\ UNCHANGED <<when, until>>

\* ... and from its return on.
serviceOneReturns ==
  /\ processing # NULL
  /\ live' = IF processing \in (AutoDelete \ ExitEvents) \ scheduled
             THEN live \ {processing} ELSE live
  /\ processing' = NULL
  /\ UNCHANGED <<list, when, scheduled, squashed, curTick, until>>

serviceEvents(w) ==
  /\ processing = NULL /\ until = -1
  /\ w >= curTick
  /\ until' = w
  /\ UNCHANGED <<list, when, live, scheduled, squashed, curTick, processing>>

serviceEventsReturns ==
  /\ processing = NULL /\ until >= 0
  /\ list.head # NULL => when[list.head] > until
  /\ curTick' = until
  /\ until' = -1
  /\ UNCHANGED <<list, when, live, scheduled, squashed, processing>>

\* The argument always of reschedule() only matters for an event not scheduled.
Next ==
  \/ \E e \in Events : Construct(e) \/ Destroy(e) \/ deschedule(e) \/ squash(e)
  \/ \E e \in Events, w \in Ticks : schedule(e, w)
  \/ \E e \in Events, w \in Ticks : reschedule(e, w, e \notin scheduled)
  \/ serviceOne \/ serviceOneReturns
  \/ \E w \in Ticks : serviceEvents(w)
  \/ serviceEventsReturns

Spec == Init /\ [][Next]_vars

-----------------------------------------------------------------------------
Pointers == Events \cup {NULL}

\* The events that debugVerify() and serialize() visit from p on, p being the top of
\* a bin and an event in it: n of them at most, so that a cycle ends too.
visit(l) ==
  LET from[n \in Nat] ==
        [p \in Pointers \X Pointers |->
           IF n = 0 \/ p[2] = NULL THEN <<>>
           ELSE <<p[2]>> \o from[n - 1][IF l.nextInBin[p[2]] # NULL
                                       THEN <<p[1], l.nextInBin[p[2]]>>
                                       ELSE <<l.nextBin[p[1]], l.nextBin[p[1]]>>]]
  IN  from

\* The queued events in that order.
Contents(l) == visit(l)[Cardinality(Events)][<<l.head, l.head>>]

\* Every variable holds a value of its C++ type.
TypeOK ==
  /\ list \in [head : Events \cup {NULL}, nextBin : [Events -> Events \cup {NULL}],
               nextInBin : [Events -> Events \cup {NULL}]]
  /\ when \in [Events -> Ticks]
  /\ live \subseteq Events /\ scheduled \subseteq Events /\ squashed \subseteq Events
  /\ curTick \in Ticks
  /\ processing \in Events \cup {NULL}
  /\ until \in -1 .. MaxTick

\* EventQueue::remove() never reaches panic("event not found!"): whatever was
\* inserted, removed and served before, its walk finds every event whose
\* Scheduled flag is set.
NeverNotFound == \A e \in scheduled : findable(list, when, e)

\* No pointer the queue will follow leads to a deleted Event, although stale
\* nextBin pointers to deleted events stay behind in the lists.
NoDanglingPointer ==
  \A s \in {Contents(list)} : \A i \in 1 .. Len(s) : s[i] \in live

\* The two linked lists can be walked: their pointers are events or NULL, every
\* scheduled event is found by EventQueue::remove(), and nothing that is reached
\* was deleted.
PointersSound == TypeOK /\ NeverNotFound /\ NoDanglingPointer
=============================================================================

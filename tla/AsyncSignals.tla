---------------------------- MODULE AsyncSignals ----------------------------
(***************************************************************************)
(* Signals and the main loop.  A signal handler only sets flags; the loop  *)
(* of some simulation thread finds async_event set, clears it, and then    *)
(* does what the other flags ask for.  The flags are volatile variables    *)
(* without a lock: every access is a step of its own.  A handler runs on   *)
(* some thread, which stands still meanwhile; a signal of another kind may *)
(* interrupt it (sa_mask is empty).  An event written in Python that       *)
(* raises an exception, and a device that opens a file descriptor, set     *)
(* flags in the same way from inside the loop.                             *)
(***************************************************************************)
EXTENDS Naturals, FiniteSets, SequencesExt

CONSTANTS N,       \* most threads that run doSimLoop
          Setups   \* how many threads there are, and how often each signal arrives

\* The flags each handler sets, in its order.  "raise" and "setup" are not
\* signals: PythonEvent::process() and PollQueue::setupAsyncIO().
Sets == [dump |-> <<"event", "statdump">>,
         dumprst |-> <<"event", "statdump", "statreset">>,
         exit |-> <<"event", "exit">>,
         io |-> <<"event", "io">>,
         setup |-> <<"event", "io">>,
         raise |-> <<"event", "exception">>]

Signals == DOMAIN Sets

ASSUME SignalAssumption ==
    /\ N \in Nat \ {0}
    /\ Setups \subseteq [queues : 1 .. N, arrivals : [Signals -> Nat]]

Threads == 0 .. N - 1

\* What the loop can be asked to do; "event" is async_event itself.
StatFlags == {"statdump", "statreset"}
Requests == StatFlags \cup {"exit", "io", "exception"}

VARIABLES flags,      \* the async_ flags that are set
          handler,    \* per thread: what the handlers on it have yet to set, as
                      \* pairs of signal and flag, the innermost handler first
          pc,         \* per thread: where in the loop it is
          args,       \* per thread: the arguments of schedStatEvent read so far
          statEvents, \* per thread: what its scheduled statistics events do
          left,       \* per signal: how often it may still arrive
          numMainEventQueues,
          owed,       \* requests made and not carried out since
          asked,      \* per request: how often it was made
          done        \* per thread and request: how often the thread has taken it on

vars == <<flags, handler, pc, args, statEvents, left, numMainEventQueues, owed, asked, done>>
history == <<owed, asked, done>>

\* "args", "argdump", "argreset": reading the arguments of schedStatEvent; "clear"
\* and a name: the flag was found set and is about to be cleared; "poll", "leave",
\* "throw": it is cleared and about to be acted on; "null": the loop has returned NULL.
Labels == {"test", "clear", "stat", "stat2", "args", "argdump", "argreset", "cleardump",
           "clearreset", "io", "cleario", "poll", "exit", "clearexit", "leave",
           "exception", "clearexception", "throw", "service", "null"}

\* The type of the state, no more.
TypeOK ==
    /\ flags \subseteq Requests \cup {"event"}
    /\ DOMAIN handler = Threads
    /\ \A t \in Threads :
          /\ Range(handler[t]) \subseteq Signals \X (Requests \cup {"event"})
          /\ Range(statEvents[t]) \subseteq SUBSET StatFlags
    /\ pc \in [Threads -> Labels]
    /\ args \in [Threads -> SUBSET StatFlags]
    /\ DOMAIN statEvents = Threads
    /\ left \in [Signals -> Nat]
    /\ numMainEventQueues \in 1 .. N
    /\ owed \subseteq Requests /\ asked \in [Requests -> Nat]
    /\ done \in [Threads -> [Requests -> Nat]]

Init ==
    /\ flags = {}
    /\ handler = [t \in Threads |-> <<>>]
    /\ pc = [t \in Threads |-> "test"]
    /\ args = [t \in Threads |-> {}]
    /\ statEvents = [t \in Threads |-> <<>>]
    /\ \E s \in Setups : left = s.arrivals /\ numMainEventQueues = s.queues
    /\ owed = {}
    /\ asked = [r \in Requests |-> 0]
    /\ done = [t \in Threads |-> [r \in Requests |-> 0]]

-----------------------------------------------------------------------------
(* The handlers.                                                           *)

Running(t) == t < numMainEventQueues

\* Calling the handler of s interrupts whatever thread t does.
Call(s, t) ==
    LET sets == [i \in DOMAIN Sets[s] |-> <<s, Sets[s][i]>>]
    IN  /\ left[s] > 0
        /\ left' = [left EXCEPT ![s] = @ - 1]
        /\ handler' = [handler EXCEPT ![t] = sets \o @]

Arrive(s, t) ==
    /\ s \notin {"raise", "setup"} /\ Running(t)
    /\ \A i \in DOMAIN handler[t] : handler[t][i][1] # s
    /\ Call(s, t)
    /\ UNCHANGED <<flags, pc, args, statEvents, numMainEventQueues, history>>

\* One assignment of dumpStatsHandler, dumprstStatsHandler, exitNowHandler or
\* ioHandler; the wakeup() behind the last one does nothing.
HandlerSets(t) ==
    /\ handler[t] # <<>>
    /\ LET flag == Head(handler[t])[2]
       IN  /\ flags' = flags \cup {flag}
           /\ owed' = owed \cup ({flag} \cap Requests)
           /\ asked' = [r \in Requests |-> IF r = flag THEN asked[r] + 1 ELSE asked[r]]
    /\ handler' = [handler EXCEPT ![t] = Tail(@)]
    /\ UNCHANGED <<pc, args, statEvents, left, numMainEventQueues, done>>

-----------------------------------------------------------------------------
(* The loop.                                                               *)

At(t, label) == Running(t) /\ handler[t] = <<>> /\ pc[t] = label

Goto(t, label) == pc' = [pc EXCEPT ![t] = label]

\* Thread t takes on the requests in rs.
Takes(t, rs) ==
    done' = [done EXCEPT ![t] = [r \in Requests |-> IF r \in rs THEN @[r] + 1 ELSE @[r]]]

\* Reads a flag and branches: async_event, then async_statdump || async_statreset,
\* async_io, async_exit, async_exception.
TestFlag(t, label, flag, then, else) ==
    /\ At(t, label)
    /\ Goto(t, IF flag \in flags THEN then ELSE else)
    /\ UNCHANGED <<flags, handler, args, statEvents, left, numMainEventQueues, history>>

\* Under asyncEventMutex: one thread gets the event.
testAndClearAsyncEvent(t) ==
    /\ At(t, "clear")
    /\ Goto(t, IF "event" \in flags THEN "stat" ELSE "service")
    /\ flags' = flags \ {"event"}
    /\ UNCHANGED <<handler, args, statEvents, left, numMainEventQueues, history>>

\* The arguments of schedStatEvent are read in either order.
ReadArgument(t, flag) ==
    /\ At(t, "args")
    /\ args' = [args EXCEPT ![t] = flags \cap {flag}]
    /\ Goto(t, IF flag = "statdump" THEN "argreset" ELSE "argdump")
    /\ UNCHANGED <<flags, handler, statEvents, left, numMainEventQueues, history>>

\* The other one is read, and the event is created.
schedStatEvent(t, label, flag) ==
    LET both == args[t] \cup (flags \cap {flag})
    IN  /\ At(t, label)
        /\ args' = [args EXCEPT ![t] = {}]
        /\ statEvents' = [statEvents EXCEPT ![t] = Append(@, both)]
        /\ Takes(t, both)
        /\ Goto(t, "cleardump")
        /\ UNCHANGED <<flags, handler, left, numMainEventQueues, owed, asked>>

\* Mutant of ClearFlag: the flag stays set.
ClearFlag_keeps(t, label, flag, next) ==
    /\ At(t, label)
    /\ Goto(t, next)
    /\ UNCHANGED <<flags, handler, args, statEvents, left, numMainEventQueues, history>>

\* Clears a flag; a handler may set it again before its request is carried out.
ClearFlag(t, label, flag, next) ==
    /\ At(t, label)
    /\ flags' = flags \ {flag}
    /\ Goto(t, next)
    /\ UNCHANGED <<handler, args, statEvents, left, numMainEventQueues, history>>

\* exitSimLoop(), or the return of NULL.
CarryOut(t, label, request, next) ==
    /\ At(t, label)
    /\ owed' = owed \ {request}
    /\ Takes(t, {request})
    /\ Goto(t, next)
    /\ UNCHANGED <<flags, handler, args, statEvents, left, numMainEventQueues, asked>>

\* Mutant of Poll: the test of async_exit is an else-if.
Poll_elseIf(t) ==
    /\ At(t, "poll")
    /\ owed' = owed \ {"io"}
    /\ Takes(t, {"io"})
    /\ Call("setup", t) \/ UNCHANGED <<handler, left>>
    /\ Goto(t, "service")
    /\ UNCHANGED <<flags, args, statEvents, numMainEventQueues, asked>>

\* pollQueue.service(): what it finds may be a connection, for whose descriptor
\* PollQueue::schedule() calls setupAsyncIO().
Poll(t) ==
    /\ At(t, "poll")
    /\ owed' = owed \ {"io"}
    /\ Takes(t, {"io"})
    /\ Call("setup", t) \/ UNCHANGED <<handler, left>>
    /\ Goto(t, "exit")
    /\ UNCHANGED <<flags, args, statEvents, numMainEventQueues, asked>>

\* serviceOne, of an event that has nothing to do with the flags.
ServiceOne(t) ==
    /\ At(t, "service")
    /\ Goto(t, "test")
    /\ UNCHANGED <<flags, handler, args, statEvents, left, numMainEventQueues, history>>

\* serviceOne, of a statistics event.
ServiceStat(t) ==
    /\ At(t, "service")
    /\ \E i \in DOMAIN statEvents[t] :
          /\ owed' = owed \ statEvents[t][i]
          /\ statEvents' = [statEvents EXCEPT ![t] = RemoveAt(@, i)]
    /\ Goto(t, "test")
    /\ UNCHANGED <<flags, handler, args, left, numMainEventQueues, asked, done>>

\* serviceOne, of an event that sets the flags itself and returns: a PythonEvent
\* whose Python code raises, or one that schedules a PollEvent.
ServiceSets(t, s) ==
    /\ At(t, "service")
    /\ Call(s, t)
    /\ Goto(t, "test")
    /\ UNCHANGED <<flags, args, statEvents, numMainEventQueues, history>>

Loop(t) ==
    \/ TestFlag(t, "test", "event", "clear", "service") \/ testAndClearAsyncEvent(t)
    \/ TestFlag(t, "stat", "statdump", "args", "stat2")
    \/ TestFlag(t, "stat2", "statreset", "args", "io")
    \/ \E flag \in StatFlags : ReadArgument(t, flag)
    \/ schedStatEvent(t, "argdump", "statdump") \/ schedStatEvent(t, "argreset", "statreset")
    \/ ClearFlag(t, "cleardump", "statdump", "clearreset")
    \/ ClearFlag(t, "clearreset", "statreset", "io")
    \/ TestFlag(t, "io", "io", "cleario", "exit")
    \/ ClearFlag(t, "cleario", "io", "poll") \/ Poll(t)
    \/ TestFlag(t, "exit", "exit", "clearexit", "exception")
    \/ ClearFlag(t, "clearexit", "exit", "leave") \/ CarryOut(t, "leave", "exit", "exception")
    \/ TestFlag(t, "exception", "exception", "clearexception", "service")
    \/ ClearFlag(t, "clearexception", "exception", "throw")
    \/ CarryOut(t, "throw", "exception", "null")
    \/ ServiceOne(t) \/ ServiceStat(t) \/ \E s \in {"raise", "setup"} : ServiceSets(t, s)

Next == \E t \in Threads : \/ \E s \in Signals : Arrive(s, t)
                           \/ HandlerSets(t)
                           \/ Loop(t)

\* Threads keep running, and scheduled statistics events are served in the end.
Spec == /\ Init /\ [][Next]_vars
        /\ \A t \in Threads : /\ WF_vars(HandlerSets(t))
                              /\ WF_vars(Loop(t))
                              /\ SF_vars(ServiceStat(t))

-----------------------------------------------------------------------------
\* Some loop has ended with an exception.
Ended == \E t \in Threads : pc[t] = "null"

\* A request whose flag is set while async_event is not, and no thread is on its
\* way to look at it: it waits for the next signal.
Stranded(r) ==
    /\ r \in flags /\ "event" \notin flags
    /\ \A t \in Threads : handler[t] = <<>> /\ pc[t] \in {"test", "clear", "service"}

\* "Signal handlers simply set these flags, which are then checked in the main event
\* loop" (async.hh): no flag is left that nothing makes the loop check.
NothingStranded == \A r \in Requests : ~Stranded(r)

\* What a signal asks for is done afterwards, unless a loop has ended with an
\* exception: the flags that a handler sets are checked in the main event loop.
\* One thread needs no help of another signal; with more of them async_event may be
\* consumed before the request is visible, and the request waits for the next one.
NoLostRequest ==
    \A r \in Requests :
        (r \in owed) ~> (r \notin owed \/ Ended \/ (numMainEventQueues > 1 /\ Stranded(r)))

\* No thread takes on a request more often than it was made, however handlers and
\* other threads set and clear the flags between its test of a flag and its clearing,
\* and between the clearing and what is done (and the state has its type).
ServedOnce == TypeOK /\ \A t \in Threads, r \in Requests : done[t][r] <= asked[r]

\* The same for all threads together: "only one thread [...] is assigned to handle
\* the corresponding async event(s)" (testAndClearAsyncEvent).
OneThreadServes ==
    \A t, u \in Threads, r \in Requests : t # u => done[t][r] + done[u][r] <= asked[r]

\* assert(local_event != NULL) in simulate(): the loop of the main thread ends
\* with the event that ended it.
LoopReturnsAnEvent == pc[0] # "null"
=============================================================================

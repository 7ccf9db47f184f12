------------------------- MODULE AsyncSignalsProofs -------------------------
(***************************************************************************)
(* No simulation thread takes on a request more often than it was made,    *)
(* for any number of threads and any signals arriving any number of times. *)
(*                                                                         *)
(* The property is not inductive: that a thread polls or exits only for a  *)
(* request it has not taken on yet rests on what it read some steps        *)
(* earlier, while handlers set and other threads clear the flags.  The     *)
(* invariant counts: a flag that is set is a request the thread has yet to *)
(* take on, and so is what it has found, or found and cleared; a flag set  *)
(* again after the thread has cleared it is one more.                      *)
(***************************************************************************)
EXTENDS AsyncSignals, TLAPS

Flags == Requests \cup {"event"}
Handlers == [Threads -> Seq(Signals \X Flags)]

\* What TypeOK says, with sequences for handlers and statistics events.
Types ==
    /\ flags \subseteq Flags /\ handler \in Handlers
    /\ pc \in [Threads -> Labels]
    /\ args \in [Threads -> SUBSET StatFlags]
    /\ statEvents \in [Threads -> Seq(SUBSET StatFlags)]
    /\ left \in [Signals -> Nat]
    /\ numMainEventQueues \in 1 .. N
    /\ owed \subseteq Requests /\ asked \in [Requests -> Nat]
    /\ done \in [Threads -> [Requests -> Nat]]

\* Thread t is about to clear the flag of r, whatever it asks for: it has already
\* decided what the statistics event does.
Stale(t, r) ==
    \/ pc[t] = "cleardump" /\ r \in StatFlags
    \/ pc[t] = "clearreset" /\ r = "statreset"

\* Thread t has found the flag of r set.
Found(t, r) ==
    \/ pc[t] = "cleario" /\ r = "io"
    \/ pc[t] = "clearexit" /\ r = "exit"
    \/ pc[t] = "clearexception" /\ r = "exception"
    \/ r \in args[t]

\* Thread t has cleared it, and is about to do what it asks for.
Cleared(t, r) ==
    \/ pc[t] = "poll" /\ r = "io"
    \/ pc[t] = "leave" /\ r = "exit"
    \/ pc[t] = "throw" /\ r = "exception"

\* What thread t has taken on, and what it is going to take on, was asked for.
Counted(t, r) ==
    /\ done[t][r] <= asked[r]
    /\ r \in flags /\ ~Stale(t, r) => done[t][r] + 1 <= asked[r]
    /\ Found(t, r) \/ Cleared(t, r) => done[t][r] + 1 <= asked[r]
    /\ Cleared(t, r) /\ r \in flags => done[t][r] + 2 <= asked[r]

IInv == Types /\ \A t \in Threads, r \in Requests : Counted(t, r)

-----------------------------------------------------------------------------
(* Types.                                                                  *)

\* The flags of a handler, with its signal.
LEMMA SetsType ==
    ASSUME NEW s \in Signals
    PROVE  [i \in DOMAIN Sets[s] |-> <<s, Sets[s][i]>>] \in Seq(Signals \X Flags)
  <1>1. Sets[s] \in Seq(Flags)
    <2>1. CASE s = "dump"
      BY <2>1 DEF Sets, Flags, Requests, StatFlags
    <2>2. CASE s = "dumprst"
      BY <2>2 DEF Sets, Flags, Requests, StatFlags
    <2>3. CASE s = "exit"
      BY <2>3 DEF Sets, Flags, Requests, StatFlags
    <2>4. CASE s = "io"
      BY <2>4 DEF Sets, Flags, Requests, StatFlags
    <2>5. CASE s = "setup"
      BY <2>5 DEF Sets, Flags, Requests, StatFlags
    <2>6. CASE s = "raise"
      BY <2>6 DEF Sets, Flags, Requests, StatFlags
    <2> QED BY <2>1, <2>2, <2>3, <2>4, <2>5, <2>6 DEF Signals, Sets
  <1> QED BY <1>1

\* A handler that is called stands in front of the ones it interrupts.
LEMMA CallTypes ==
    ASSUME Types, NEW s \in Signals, NEW t \in Threads, Call(s, t)
    PROVE  handler' \in Handlers /\ left' \in [Signals -> Nat]
  <1> DEFINE sets == [i \in DOMAIN Sets[s] |-> <<s, Sets[s][i]>>]
  <1>1. sets \in Seq(Signals \X Flags)
    BY SetsType
  <1>2. /\ handler' = [handler EXCEPT ![t] = sets \o handler[t]]
        /\ left[s] > 0 /\ left' = [left EXCEPT ![s] = left[s] - 1]
    BY DEF Call
  <1> HIDE DEF sets
  <1>3. handler \in Handlers /\ left \in [Signals -> Nat]
    BY DEF Types
  <1>4. sets \o handler[t] \in Seq(Signals \X Flags)
    BY <1>1, <1>3 DEF Handlers
  <1>5. left[s] - 1 \in Nat
    BY <1>2, <1>3
  <1> QED BY <1>2, <1>3, <1>4, <1>5 DEF Handlers

\* Taking on requests counts them.
LEMMA TakesCounts ==
    ASSUME Types, NEW t \in Threads, NEW rs, Takes(t, rs)
    PROVE  /\ done' \in [Threads -> [Requests -> Nat]]
           /\ \A u \in Threads \ {t} : done'[u] = done[u]
           /\ \A r \in Requests : done'[t][r] = IF r \in rs THEN done[t][r] + 1 ELSE done[t][r]
  <1> DEFINE new == [r \in Requests |-> IF r \in rs THEN done[t][r] + 1 ELSE done[t][r]]
  <1>1. done' = [done EXCEPT ![t] = new]
    BY DEF Takes
  <1>2. done \in [Threads -> [Requests -> Nat]]
    BY DEF Types
  <1>3. new \in [Requests -> Nat]
    BY <1>2
  <1>4. \A r \in Requests : new[r] = IF r \in rs THEN done[t][r] + 1 ELSE done[t][r]
    OBVIOUS
  <1> HIDE DEF new
  <1> QED BY <1>1, <1>2, <1>3, <1>4

-----------------------------------------------------------------------------
(* Counting.                                                               *)

\* What a step of the loop of t does that concerns the counts: it changes nothing
\* of the other threads, makes no request, and sets no flag.
LoopStep(t) ==
    /\ flags' \subseteq flags /\ asked' = asked
    /\ \A u \in Threads \ {t} : pc'[u] = pc[u] /\ args'[u] = args[u] /\ done'[u] = done[u]

\* Then the counts of the other threads remain right.
LEMMA OthersCounted ==
    ASSUME IInv, NEW t \in Threads, LoopStep(t),
           \A r \in Requests : Counted(t, r)'
    PROVE  \A u \in Threads, r \in Requests : Counted(u, r)'
  <1> SUFFICES ASSUME NEW u \in Threads, NEW r \in Requests, u # t PROVE Counted(u, r)'
    OBVIOUS
  <1>1. Counted(u, r) /\ pc'[u] = pc[u] /\ args'[u] = args[u] /\ done'[u] = done[u]
    BY DEF IInv, LoopStep
  <1>2. (Stale(u, r)' <=> Stale(u, r)) /\ (Found(u, r)' <=> Found(u, r)) /\ (Cleared(u, r)' <=> Cleared(u, r))
    BY <1>1 DEF Stale, Found, Cleared
  <1> QED BY <1>1, <1>2 DEF Counted, LoopStep

\* A step of t that takes nothing on, and after which it is not further on with
\* anything than before, or with something whose flag it has just found set.
LEMMA NothingTaken ==
    ASSUME IInv, NEW t \in Threads, LoopStep(t), done'[t] = done[t],
           \A r \in Requests :
              /\ Found(t, r)' => Found(t, r) \/ (r \in flags /\ ~Stale(t, r))
              /\ Cleared(t, r)' => Cleared(t, r) \/ (Found(t, r) /\ r \notin flags')
              /\ Stale(t, r) => Stale(t, r)' \/ r \notin flags'
    PROVE  \A r \in Requests : Counted(t, r)'
  <1> SUFFICES ASSUME NEW r \in Requests PROVE Counted(t, r)'
    OBVIOUS
  <1>1. Counted(t, r) /\ (r \in flags' => r \in flags) /\ done'[t][r] = done[t][r] /\ asked'[r] = asked[r]
    BY DEF IInv, LoopStep
  <1>2. done[t][r] \in Nat /\ asked[r] \in Nat
    BY DEF IInv, Types
  <1> QED BY <1>1, <1>2 DEF Counted

\* A step of t that takes on rs, each of which it had found or cleared or finds now.
LEMMA Taken ==
    ASSUME IInv, NEW t \in Threads, NEW rs, Takes(t, rs), LoopStep(t),
           \A r \in Requests :
              /\ (Found(t, r)' => Found(t, r) /\ r \notin rs) /\ ~Cleared(t, r)'
              /\ r \in rs => \/ Cleared(t, r)
                             \/ Stale(t, r)' /\ (Found(t, r) \/ (r \in flags /\ ~Stale(t, r)))
              /\ Stale(t, r) => Stale(t, r)' \/ r \notin flags'
    PROVE  \A r \in Requests : Counted(t, r)'
  <1> SUFFICES ASSUME NEW r \in Requests PROVE Counted(t, r)'
    OBVIOUS
  <1>1. Counted(t, r) /\ (r \in flags' => r \in flags) /\ asked'[r] = asked[r]
    BY DEF IInv, LoopStep
  <1>2. done[t][r] \in Nat /\ asked[r] \in Nat
    BY DEF IInv, Types
  <1>3. done'[t][r] = IF r \in rs THEN done[t][r] + 1 ELSE done[t][r]
    BY TakesCounts DEF IInv
  <1> QED BY <1>1, <1>2, <1>3 DEF Counted

\* A handler's assignment is one more request, for every thread.
LEMMA HandlerCounted ==
    ASSUME IInv, NEW t \in Threads, HandlerSets(t)
    PROVE  IInv'
  <1> DEFINE flag == Head(handler[t])[2]
  <1>1. /\ handler[t] \in Seq(Signals \X Flags) /\ handler[t] # <<>>
        /\ handler \in Handlers /\ asked \in [Requests -> Nat]
    BY DEF IInv, Types, HandlerSets, Handlers
  <1>2. Head(handler[t]) \in Signals \X Flags /\ Tail(handler[t]) \in Seq(Signals \X Flags)
    BY <1>1
  <1>3. flag \in Flags
    BY <1>2
  <1>4. /\ flags' = flags \cup {flag} /\ owed' = owed \cup ({flag} \cap Requests)
        /\ asked' = [r \in Requests |-> IF r = flag THEN asked[r] + 1 ELSE asked[r]]
        /\ handler' = [handler EXCEPT ![t] = Tail(handler[t])]
        /\ UNCHANGED <<pc, args, statEvents, left, numMainEventQueues, done>>
    BY DEF HandlerSets
  <1> HIDE DEF flag
  <1>5. Types'
    <2>1. handler' \in Handlers
      BY <1>1, <1>2, <1>4 DEF Handlers
    <2>2. asked' \in [Requests -> Nat]
      BY <1>1, <1>4
    <2>3. flags' \subseteq Flags /\ owed' \subseteq Requests
      BY <1>3, <1>4 DEF IInv, Types
    <2> QED BY <1>4, <2>1, <2>2, <2>3 DEF IInv, Types
  <1>6. ASSUME NEW u \in Threads, NEW r \in Requests PROVE Counted(u, r)'
    <2>1. Counted(u, r) /\ done'[u][r] = done[u][r] /\ done[u][r] \in Nat /\ asked[r] \in Nat
      BY <1>4 DEF IInv, Types
    <2>2. (Stale(u, r)' <=> Stale(u, r)) /\ (Found(u, r)' <=> Found(u, r)) /\ (Cleared(u, r)' <=> Cleared(u, r))
      BY <1>4 DEF Stale, Found, Cleared
    <2>3. CASE r = flag
      <3>1. asked'[r] = asked[r] + 1
        BY <1>4, <2>3
      <3> QED BY <2>1, <2>2, <3>1 DEF Counted
    <2>4. CASE r # flag
      <3>1. asked'[r] = asked[r] /\ (r \in flags' <=> r \in flags)
        BY <1>4, <2>4
      <3> QED BY <2>1, <2>2, <3>1 DEF Counted
    <2> QED BY <2>3, <2>4
  <1> QED BY <1>5, <1>6 DEF IInv

-----------------------------------------------------------------------------
(* The steps of the loop.                                                  *)

\* The branches of the loop on a flag.
Branches(label, flag, then, else) ==
    <<label, flag, then, else>> \in
        {<<"test", "event", "clear", "service">>, <<"stat", "statdump", "args", "stat2">>,
         <<"stat2", "statreset", "args", "io">>, <<"io", "io", "cleario", "exit">>,
         <<"exit", "exit", "clearexit", "exception">>,
         <<"exception", "exception", "clearexception", "service">>}

\* Reading a flag finds it or does not.
LEMMA TestCounted ==
    ASSUME IInv, NEW t \in Threads, NEW label, NEW flag, NEW then, NEW else,
           Branches(label, flag, then, else), TestFlag(t, label, flag, then, else)
    PROVE  IInv'
  <1>1. pc \in [Threads -> Labels] /\ pc[t] = label
    BY DEF IInv, Types, TestFlag, At
  <1>2. /\ pc' = [pc EXCEPT ![t] = IF flag \in flags THEN then ELSE else]
        /\ UNCHANGED <<flags, handler, args, statEvents, left, numMainEventQueues, history>>
    BY DEF TestFlag, Goto
  <1>3. /\ then \in Labels /\ else \in Labels
        /\ label \notin {"cleardump", "clearreset"}
        /\ then \notin {"poll", "leave", "throw"} /\ else \notin {"poll", "leave", "throw", "cleario", "clearexit", "clearexception"}
        /\ then = "cleario" => flag = "io"
        /\ then = "clearexit" => flag = "exit"
        /\ then = "clearexception" => flag = "exception"
    BY DEF Branches, Labels
  <1>4. pc'[t] = (IF flag \in flags THEN then ELSE else) /\ pc' \in [Threads -> Labels]
    BY <1>1, <1>2, <1>3
  <1>5. Types' /\ LoopStep(t) /\ done' = done
    BY <1>2, <1>4, <1>1 DEF IInv, Types, LoopStep, history
  <1>6. \A r \in Requests : Counted(t, r)'
    <2>1. args'[t] = args[t] /\ flags' = flags
      BY <1>2
    <2> QED BY <1>1, <1>3, <1>4, <1>5, <2>1, NothingTaken DEF Found, Cleared, Stale
  <1> QED BY <1>5, <1>6, OthersCounted DEF IInv

\* What follows the clearing of a flag.
Clearings(label, flag, next) ==
    <<label, flag, next>> \in
        {<<"cleardump", "statdump", "clearreset">>, <<"clearreset", "statreset", "io">>,
         <<"cleario", "io", "poll">>, <<"clearexit", "exit", "leave">>,
         <<"clearexception", "exception", "throw">>}

\* Clearing a flag.
LEMMA ClearCounted ==
    ASSUME IInv, NEW t \in Threads, NEW label, NEW flag, NEW next,
           Clearings(label, flag, next), ClearFlag(t, label, flag, next)
    PROVE  IInv'
  <1>1. pc \in [Threads -> Labels] /\ pc[t] = label
    BY DEF IInv, Types, ClearFlag, At
  <1>2. /\ pc' = [pc EXCEPT ![t] = next] /\ flags' = flags \ {flag}
        /\ UNCHANGED <<handler, args, statEvents, left, numMainEventQueues, history>>
    BY DEF ClearFlag, Goto
  <1>3. next \in Labels
    BY DEF Clearings, Labels
  <1>4. pc'[t] = next /\ pc' \in [Threads -> Labels] /\ args'[t] = args[t]
    BY <1>1, <1>2, <1>3
  <1>5. Types' /\ LoopStep(t) /\ done' = done
    BY <1>2, <1>4, <1>1 DEF IInv, Types, LoopStep, history
  <1>6. \A r \in Requests :
              /\ Found(t, r)' => Found(t, r) \/ (r \in flags /\ ~Stale(t, r))
              /\ Cleared(t, r)' => Cleared(t, r) \/ (Found(t, r) /\ r \notin flags')
              /\ Stale(t, r) => Stale(t, r)' \/ r \notin flags'
    BY <1>1, <1>2, <1>4 DEF Clearings, Found, Cleared, Stale, StatFlags
  <1>7. \A r \in Requests : Counted(t, r)'
    BY <1>5, <1>6, NothingTaken
  <1> QED BY <1>5, <1>7, OthersCounted DEF IInv

\* Reading one argument of schedStatEvent.
LEMMA ReadCounted ==
    ASSUME IInv, NEW t \in Threads, NEW flag \in StatFlags, ReadArgument(t, flag)
    PROVE  IInv'
  <1>1. /\ pc \in [Threads -> Labels] /\ pc[t] = "args"
        /\ args \in [Threads -> SUBSET StatFlags]
    BY DEF IInv, Types, ReadArgument, At
  <1>2. /\ pc' = [pc EXCEPT ![t] = IF flag = "statdump" THEN "argreset" ELSE "argdump"]
        /\ args' = [args EXCEPT ![t] = flags \cap {flag}]
        /\ UNCHANGED <<flags, handler, statEvents, left, numMainEventQueues, history>>
    BY DEF ReadArgument, Goto
  <1>3. /\ pc' \in [Threads -> Labels] /\ pc'[t] \in {"argreset", "argdump"}
        /\ args' \in [Threads -> SUBSET StatFlags] /\ args'[t] = flags \cap {flag}
    BY <1>1, <1>2 DEF Labels
  <1>4. Types' /\ LoopStep(t) /\ done' = done
    BY <1>1, <1>2, <1>3 DEF IInv, Types, LoopStep, history
  <1>5. \A r \in Requests : Counted(t, r)'
    BY <1>1, <1>3, <1>4, NothingTaken DEF Found, Cleared, Stale
  <1> QED BY <1>4, <1>5, OthersCounted DEF IInv

\* Reading the other one, and creating the event.
LEMMA SchedCounted ==
    ASSUME IInv, NEW t \in Threads, NEW label \in {"argdump", "argreset"}, NEW flag \in StatFlags,
           schedStatEvent(t, label, flag)
    PROVE  IInv'
  <1> DEFINE both == args[t] \cup (flags \cap {flag})
  <1>1. /\ pc \in [Threads -> Labels] /\ pc[t] = label
        /\ args \in [Threads -> SUBSET StatFlags]
        /\ statEvents \in [Threads -> Seq(SUBSET StatFlags)]
    BY DEF IInv, Types, schedStatEvent, At
  <1>2. /\ pc' = [pc EXCEPT ![t] = "cleardump"]
        /\ args' = [args EXCEPT ![t] = {}]
        /\ statEvents' = [statEvents EXCEPT ![t] = Append(statEvents[t], both)]
        /\ Takes(t, both)
        /\ UNCHANGED <<flags, handler, left, numMainEventQueues, owed, asked>>
    BY DEF schedStatEvent, Goto
  <1>3. both \subseteq StatFlags
    BY <1>1
  <1>4. \A r : r \in both => r \in args[t] \/ r \in flags
    OBVIOUS
  <1> HIDE DEF both
  <1>5. /\ pc' \in [Threads -> Labels] /\ pc'[t] = "cleardump"
        /\ args' \in [Threads -> SUBSET StatFlags] /\ args'[t] = {}
        /\ \A u \in Threads \ {t} : pc'[u] = pc[u] /\ args'[u] = args[u]
    BY <1>1, <1>2 DEF Labels
  <1>6. statEvents' \in [Threads -> Seq(SUBSET StatFlags)]
    <2>1. statEvents[t] \in Seq(SUBSET StatFlags)
      BY <1>1
    <2>2. Append(statEvents[t], both) \in Seq(SUBSET StatFlags)
      BY <1>3, <2>1
    <2> QED BY <1>1, <1>2, <2>2
  <1>7. /\ done' \in [Threads -> [Requests -> Nat]]
        /\ \A u \in Threads \ {t} : done'[u] = done[u]
    BY <1>2, TakesCounts DEF IInv
  <1>8. Types' /\ LoopStep(t)
    BY <1>2, <1>5, <1>6, <1>7 DEF IInv, Types, LoopStep
  <1>9. \A r \in Requests :
              /\ (Found(t, r)' => Found(t, r) /\ r \notin both) /\ ~Cleared(t, r)'
              /\ r \in both => \/ Cleared(t, r)
                               \/ Stale(t, r)' /\ (Found(t, r) \/ (r \in flags /\ ~Stale(t, r)))
              /\ Stale(t, r) => Stale(t, r)' \/ r \notin flags'
    BY <1>1, <1>3, <1>4, <1>5 DEF Found, Cleared, Stale
  <1>10. \A r \in Requests : Counted(t, r)'
    BY <1>2, <1>8, <1>9, Taken
  <1> QED BY <1>8, <1>10, OthersCounted DEF IInv

\* Polling, leaving and throwing: what was found and cleared is taken on.
LEMMA CarriedCounted ==
    ASSUME IInv, NEW t \in Threads, NEW r0 \in Requests, NEW next \in Labels, Cleared(t, r0),
           pc' = [pc EXCEPT ![t] = next], next \in {"exit", "exception", "null"},
           owed' = owed \ {r0}, Takes(t, {r0}),
           handler' \in Handlers, left' \in [Signals -> Nat],
           UNCHANGED <<flags, args, statEvents, numMainEventQueues, asked>>
    PROVE  IInv'
  <1>1. pc \in [Threads -> Labels] /\ args \in [Threads -> SUBSET StatFlags]
    BY DEF IInv, Types
  <1>2. /\ pc' \in [Threads -> Labels] /\ pc'[t] = next
        /\ \A u \in Threads \ {t} : pc'[u] = pc[u]
    BY <1>1
  <1>3. /\ done' \in [Threads -> [Requests -> Nat]]
        /\ \A u \in Threads \ {t} : done'[u] = done[u]
    BY TakesCounts DEF IInv
  <1>4. Types' /\ LoopStep(t)
    BY <1>2, <1>3 DEF IInv, Types, LoopStep
  <1>5. r0 \notin args[t]
    BY <1>1 DEF Cleared, StatFlags
  <1>6. \A r \in Requests :
              /\ (Found(t, r)' => Found(t, r) /\ r \notin {r0}) /\ ~Cleared(t, r)'
              /\ r \in {r0} => Cleared(t, r)
              /\ Stale(t, r) => Stale(t, r)' \/ r \notin flags'
    BY <1>2, <1>5 DEF Found, Cleared, Stale
  <1>7. \A r \in Requests : Counted(t, r)'
    BY <1>4, <1>6, Taken
  <1> QED BY <1>4, <1>7, OthersCounted DEF IInv

\* Steps that do not touch a flag or take anything on.
LEMMA QuietCounted ==
    ASSUME IInv, NEW t \in Threads, NEW next \in {"test", "stat", "service"}, Types',
           pc[t] \in {"service", "clear"}, pc' = [pc EXCEPT ![t] = next],
           flags' \in {flags, flags \ {"event"}}, UNCHANGED <<args, asked, done>>
    PROVE  IInv'
  <1>1. pc \in [Threads -> Labels]
    BY DEF IInv, Types
  <1>2. pc'[t] = next /\ \A u \in Threads \ {t} : pc'[u] = pc[u]
    BY <1>1
  <1>3. LoopStep(t)
    BY <1>2 DEF LoopStep
  <1>4. \A r \in Requests :
              /\ Found(t, r)' => Found(t, r) \/ (r \in flags /\ ~Stale(t, r))
              /\ Cleared(t, r)' => Cleared(t, r) \/ (Found(t, r) /\ r \notin flags')
              /\ Stale(t, r) => Stale(t, r)' \/ r \notin flags'
    BY <1>2 DEF Found, Cleared, Stale
  <1>5. \A r \in Requests : Counted(t, r)'
    BY <1>3, <1>4, NothingTaken
  <1> QED BY <1>3, <1>5, OthersCounted DEF IInv

\* Every step of a loop keeps the invariant.
LEMMA LoopCounted ==
    ASSUME IInv, NEW t \in Threads, Loop(t) PROVE IInv'
  <1>0. Types
    BY DEF IInv
  <1>1. ASSUME NEW label, NEW flag, NEW then, NEW else,
               Branches(label, flag, then, else), TestFlag(t, label, flag, then, else)
        PROVE  IInv'
    BY <1>1, TestCounted
  <1>2. ASSUME NEW label, NEW flag, NEW next,
               Clearings(label, flag, next), ClearFlag(t, label, flag, next)
        PROVE  IInv'
    BY <1>2, ClearCounted
  <1>3. CASE testAndClearAsyncEvent(t)
    <2>1. /\ pc[t] = "clear" /\ pc' = [pc EXCEPT ![t] = IF "event" \in flags THEN "stat" ELSE "service"]
          /\ flags' = flags \ {"event"}
          /\ UNCHANGED <<handler, args, statEvents, left, numMainEventQueues, history>>
      BY <1>3 DEF testAndClearAsyncEvent, At, Goto
    <2>2. Types'
      <3>1. pc' \in [Threads -> Labels] /\ flags' \subseteq Flags
        BY <1>0, <2>1 DEF Types, Labels
      <3> QED BY <1>0, <2>1, <3>1 DEF Types, history
    <2>3. \E next \in {"test", "stat", "service"} : pc' = [pc EXCEPT ![t] = next]
      BY Zenon, <2>1
    <2> QED BY Zenon, <2>1, <2>2, <2>3, QuietCounted DEF history
  <1>4. ASSUME NEW flag \in StatFlags, ReadArgument(t, flag) PROVE IInv'
    BY <1>4, ReadCounted
  <1>5. CASE schedStatEvent(t, "argdump", "statdump") \/ schedStatEvent(t, "argreset", "statreset")
    BY <1>5, SchedCounted DEF StatFlags
  <1>6. CASE Poll(t)
    <2>1. /\ pc[t] = "poll" /\ pc' = [pc EXCEPT ![t] = "exit"] /\ owed' = owed \ {"io"} /\ Takes(t, {"io"})
          /\ Call("setup", t) \/ UNCHANGED <<handler, left>>
          /\ UNCHANGED <<flags, args, statEvents, numMainEventQueues, asked>>
      BY <1>6 DEF Poll, At, Goto
    <2>2. handler' \in Handlers /\ left' \in [Signals -> Nat]
      <3>1. "setup" \in Signals
        BY DEF Signals, Sets
      <3> QED BY <1>0, <2>1, <3>1, CallTypes DEF Types
    <2>3. Cleared(t, "io") /\ "io" \in Requests /\ "exit" \in Labels
      BY <2>1 DEF Cleared, Requests, Labels
    <2> QED BY Zenon, <2>1, <2>2, <2>3, CarriedCounted
  <1>7. ASSUME NEW label, NEW r, NEW next, CarryOut(t, label, r, next),
               <<label, r, next>> \in {<<"leave", "exit", "exception">>, <<"throw", "exception", "null">>}
        PROVE  IInv'
    <2>1. /\ pc[t] = label /\ pc' = [pc EXCEPT ![t] = next] /\ owed' = owed \ {r} /\ Takes(t, {r})
          /\ UNCHANGED <<flags, handler, args, statEvents, left, numMainEventQueues, asked>>
      BY <1>7 DEF CarryOut, At, Goto
    <2>2. handler' \in Handlers /\ left' \in [Signals -> Nat]
      BY <1>0, <2>1 DEF Types
    <2>3. Cleared(t, r) /\ r \in Requests /\ next \in Labels /\ next \in {"exit", "exception", "null"}
      BY <1>7, <2>1 DEF Cleared, Requests, Labels
    <2> QED BY Zenon, <2>1, <2>2, <2>3, CarriedCounted
  <1>8. CASE ServiceOne(t)
    <2>1. /\ pc[t] = "service" /\ pc' = [pc EXCEPT ![t] = "test"]
          /\ UNCHANGED <<flags, handler, args, statEvents, left, numMainEventQueues, history>>
      BY <1>8 DEF ServiceOne, At, Goto
    <2>2. Types'
      <3>1. pc' \in [Threads -> Labels]
        BY <1>0, <2>1 DEF Types, Labels
      <3> QED BY <1>0, <2>1, <3>1 DEF Types, history
    <2> QED BY Zenon, <2>1, <2>2, QuietCounted DEF history
  <1>9. CASE ServiceStat(t)
    <2>1. PICK i \in DOMAIN statEvents[t] :
             /\ owed' = owed \ statEvents[t][i]
             /\ statEvents' = [statEvents EXCEPT ![t] = RemoveAt(statEvents[t], i)]
      BY Zenon, <1>9 DEF ServiceStat
    <2>2. /\ pc[t] = "service" /\ pc' = [pc EXCEPT ![t] = "test"]
          /\ UNCHANGED <<flags, handler, args, left, numMainEventQueues, asked, done>>
      BY <1>9 DEF ServiceStat, At, Goto
    <2>3. RemoveAt(statEvents[t], i) \in Seq(SUBSET StatFlags)
      <3>1. statEvents[t] \in Seq(SUBSET StatFlags)
        BY <1>0 DEF Types
      <3>2. /\ SubSeq(statEvents[t], 1, i - 1) \in Seq(SUBSET StatFlags)
            /\ SubSeq(statEvents[t], i + 1, Len(statEvents[t])) \in Seq(SUBSET StatFlags)
        BY <3>1
      <3> QED BY <3>2 DEF RemoveAt
    <2>4. Types'
      <3>1. pc' \in [Threads -> Labels] /\ statEvents' \in [Threads -> Seq(SUBSET StatFlags)]
        BY <1>0, <2>1, <2>2, <2>3 DEF Types, Labels
      <3> QED BY <1>0, <2>1, <2>2, <3>1 DEF Types
    <2> QED BY Zenon, <2>2, <2>4, QuietCounted
  <1>10. ASSUME NEW s \in {"raise", "setup"}, ServiceSets(t, s) PROVE IInv'
    <2>1. /\ pc[t] = "service" /\ pc' = [pc EXCEPT ![t] = "test"] /\ Call(s, t)
          /\ UNCHANGED <<flags, args, statEvents, numMainEventQueues, history>>
      BY <1>10 DEF ServiceSets, At, Goto
    <2>2. Types'
      <3>1. s \in Signals
        BY DEF Signals, Sets
      <3>2. handler' \in Handlers /\ left' \in [Signals -> Nat]
        BY <1>0, <2>1, <3>1, CallTypes
      <3>3. pc' \in [Threads -> Labels]
        BY <1>0, <2>1 DEF Types, Labels
      <3> QED BY <1>0, <2>1, <3>2, <3>3 DEF Types, history
    <2> QED BY Zenon, <2>1, <2>2, QuietCounted DEF history
  <1>11. /\ Branches("test", "event", "clear", "service") /\ Branches("stat", "statdump", "args", "stat2")
         /\ Branches("stat2", "statreset", "args", "io") /\ Branches("io", "io", "cleario", "exit")
         /\ Branches("exit", "exit", "clearexit", "exception")
         /\ Branches("exception", "exception", "clearexception", "service")
         /\ Clearings("cleardump", "statdump", "clearreset") /\ Clearings("clearreset", "statreset", "io")
         /\ Clearings("cleario", "io", "poll") /\ Clearings("clearexit", "exit", "leave")
         /\ Clearings("clearexception", "exception", "throw")
    BY Zenon DEF Branches, Clearings
  <1> QED BY Zenon, <1>1, <1>2, <1>3, <1>4, <1>5, <1>6, <1>7, <1>8, <1>9, <1>10, <1>11 DEF Loop

\* So does every other step.
LEMMA StepCounted ==
    ASSUME IInv, [Next]_vars PROVE IInv'
  <1>1. ASSUME NEW t \in Threads, NEW s \in Signals, Arrive(s, t) PROVE IInv'
    <2>1. handler' \in Handlers /\ left' \in [Signals -> Nat]
      BY <1>1, CallTypes DEF Arrive, IInv
    <2>2. UNCHANGED <<flags, pc, args, statEvents, numMainEventQueues, history>>
      BY <1>1 DEF Arrive
    <2>3. Types'
      BY <2>1, <2>2 DEF IInv, Types, history
    <2> QED BY <2>2, <2>3 DEF IInv, Counted, Stale, Found, Cleared, history
  <1>2. CASE UNCHANGED vars
    BY <1>2 DEF vars, IInv, Types, Counted, Stale, Found, Cleared
  <1> QED BY <1>1, <1>2, HandlerCounted, LoopCounted DEF Next

\* The invariant holds before the first signal.
LEMMA InitCounted == ASSUME Init PROVE IInv
  <1>1. PICK s \in Setups : left = s.arrivals /\ numMainEventQueues = s.queues
    BY DEF Init
  <1>2. left \in [Signals -> Nat] /\ numMainEventQueues \in 1 .. N
    BY <1>1, SignalAssumption
  <1>3. Types
    BY <1>2 DEF Init, Types, Handlers, Labels
  <1> QED BY <1>3 DEF Init, IInv, Counted, Stale, Found, Cleared

\* However handlers and other threads set and clear async_io, async_exit and the other
\* flags between a thread's test of one, its clearing and what is then done, a thread
\* polls, exits, throws or schedules statistics at most once for each time it was asked
\* to (doSimLoop, testAndClearAsyncEvent and the handlers of init_signals.cc).
THEOREM ThreadsServeOnce == Spec => []ServedOnce
  <1>1. Init => IInv
    BY InitCounted
  <1>2. IInv /\ [Next]_vars => IInv'
    BY StepCounted
  <1>3. IInv => ServedOnce
    <2> SUFFICES ASSUME IInv PROVE ServedOnce
      OBVIOUS
    <2>1. \A t \in Threads : /\ handler[t] \in Seq(Signals \X Flags)
                             /\ statEvents[t] \in Seq(SUBSET StatFlags)
      BY DEF IInv, Types, Handlers
    <2>2. \A t \in Threads : /\ Range(handler[t]) \subseteq Signals \X Flags
                             /\ Range(statEvents[t]) \subseteq SUBSET StatFlags
      BY <2>1 DEF Range
    <2>3. TypeOK
      BY <2>2 DEF IInv, Types, Handlers, TypeOK, Flags
    <2> QED BY <2>3 DEF ServedOnce, IInv, Counted
  <1> QED BY <1>1, <1>2, <1>3, PTL DEF Spec
=============================================================================

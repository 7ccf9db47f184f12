-------------------------- MODULE LoadStoreQueue --------------------------
(***************************************************************************)
(* The load and the store queue of the out of order processor (cpu/o3:       *)
(* LSQUnit), with the memory dependence unit (MemDepUnit, StoreSet) that      *)
(* decides when a memory instruction may be issued, for one thread.          *)
(*                                                                         *)
(* The instructions are those of a program, named by their positions, which   *)
(* are ordered as their sequence numbers are: after a squash the same ones,    *)
(* or those of the actual path, are dispatched under the same names, and       *)
(* nothing keeps the name of a squashed one.                                  *)
(* The stages around the queues are reduced to what they do to them: dispatch *)
(* in order, execution of what is ready in any order, commit in order, one     *)
(* squash on its way from IEW to commit.  The data cache, with the other       *)
(* processors behind it, is reduced to the order in which it performs what it *)
(* accepts: ClassicCache models it.  A value is the store that wrote it.      *)
(***************************************************************************)
EXTENDS Integers, Sequences, FiniteSets, SequencesExt

CONSTANTS
    Setups,          \* records: predicted and actual, sequences of [op, bytes], what
                     \* is fetched before and after a misprediction; needsTSO; the
                     \* bytes others write, how often in all, and whether a response
                     \* may bring the invalidation; how often the cache refuses a
                     \* request; how often a branch is mispredicted
    Bytes, BlockOf,  \* addresses, and a function to their cache blocks
    maxLQEntries, maxSQEntries, depCheckShift

(***************************************************************************)
(* lsq     loadQueue and storeQueue, circular, with their indices and counts;  *)
(*         the load that stalls for a store; isStoreBlocked (retryPkt is the   *)
(*         store at storeWBIdx); storeInFlight; the WritebackEvents scheduled  *)
(* dep     the entries of memDepHash and what each waits for (0: nothing),     *)
(*         instsToReplay, blockedMemInsts, the instructions ready to issue;    *)
(*         SSIT and LFST (0: invalid); the barriers in flight (0: none)        *)
(* inst    the instructions dispatched: indices, status and flags, the fault,  *)
(*         the value read for each byte                                      *)
(* pipe    the program, the next instruction to dispatch, the last one           *)
(*         committed, the last doneSeqNum that IEW handled, the last           *)
(*         instruction the squash on its way keeps, the mispredictions so far *)
(* dcache  the requests accepted; whether it owes a retry; the writes in       *)
(*         their order in memory; refusals and writes of others so far        *)
(* asserts the assertions and panics of the code that were hit              *)
(***************************************************************************)
VARIABLES setup, lsq, dep, inst, pipe, dcache, asserts

vars == <<setup, lsq, dep, inst, pipe, dcache, asserts>>

Program == pipe.program
Insts == 1..Len(Program)
isLoad(i) == Program[i].op = "load"
isStore(i) == Program[i].op = "store"
isMemBarrier(i) == Program[i].op = "memBarrier"
isWriteBarrier(i) == Program[i].op = "writeBarrier"
isBarrier(i) == isMemBarrier(i) \/ isWriteBarrier(i)
\* An instruction predicated false has no bytes.
bytes(i) == Program[i].bytes
blocks(bs) == {BlockOf[b] : b \in bs}

NoRedirect == -1
NoValue == [b \in {} |-> 0]
NotDispatched ==
    [lqIdx |-> -1, sqIdx |-> -1, effAddrValid |-> FALSE, executed |-> FALSE,
     reExec |-> FALSE, possibleLoadViolation |-> FALSE,
     hitExternalSnoop |-> FALSE, val |-> NoValue]

SQEntry(i) ==
    [inst |-> i, size |-> {}, canWB |-> FALSE, committed |-> FALSE,
     completed |-> FALSE]
NoEntry == SQEntry(0)

\* Both queues have an entry more, to tell full from empty.
LQEntries == maxLQEntries + 1
SQEntries == maxSQEntries + 1
incrLdIdx(x) == (x + 1) % LQEntries
incrStIdx(x) == (x + 1) % SQEntries
\* The indices from a up to, and without, b.
Span(a, b, n) == {x \in 0..(n - 1) : (x - a) % n < (b - a) % n}
FirstOf(S, a, n) == CHOOSE x \in S : \A y \in S : (x - a) % n <= (y - a) % n
LastOf(S, a, n) == CHOOSE x \in S : \A y \in S : (x - a) % n >= (y - a) % n

lqFull(s) == s.lsq.loads >= LQEntries - 1
sqFull(s) == s.lsq.stores >= SQEntries - 1
hasStoresToWB(s) == s.lsq.storesToWB > 0

State ==
    [lsq |-> lsq, dep |-> dep, inst |-> inst, pipe |-> pipe, dcache |-> dcache,
     asserts |-> asserts]

Become(s) ==
    /\ lsq' = s.lsq /\ dep' = s.dep /\ inst' = s.inst /\ pipe' = s.pipe
    /\ dcache' = s.dcache /\ asserts' = s.asserts
    /\ UNCHANGED setup

Check(s, what, cond) ==
    IF cond THEN s ELSE [s EXCEPT !.asserts = @ \cup {what}]

(***************************************************************************)
(* The data cache                                                          *)
(***************************************************************************)
\* The cache accepts a request, or refuses it and then owes a retry.
recvTimingReq(s, pkt, ok) ==
    IF ok THEN [s EXCEPT !.dcache.queue = Append(@, pkt)]
    ELSE [s EXCEPT !.dcache.owes = TRUE,
                   !.dcache.refused = IF s.dcache.owes THEN @ ELSE @ + 1]

\* MasterPort::sendTimingReq: a call of the port at the other end.
sendTimingReq(s, pkt, ok) == recvTimingReq(s, pkt, ok)

\* What the cache may answer: once it has refused, it refuses until the retry;
\* otherwise it depends on its buffers.
Answers(s) ==
    IF s.dcache.owes THEN {FALSE}
    ELSE {TRUE} \cup (IF s.dcache.refused < setup.refusals THEN {FALSE} ELSE {})

Packet(i, idx) ==
    [inst |-> i, isLoad |-> isLoad(i), idx |-> idx, bytes |-> bytes(i),
     performed |-> FALSE, val |-> NoValue, isInvalidate |-> FALSE]

\* The write a byte of memory holds; 0 is its initial contents.
Contents(s, b) ==
    LET ws == {k \in DOMAIN s.dcache.writes : b \in s.dcache.writes[k].bytes}
    IN IF ws = {} THEN 0
       ELSE s.dcache.writes[CHOOSE k \in ws : \A j \in ws : j <= k].by

(***************************************************************************)
(* StoreSet                                                                *)
(***************************************************************************)
\* SSIT[load] and SSIT[store] are made equal; an SSID is named by a load.
storeSetViolation(d, store, load) ==
    LET l == d.SSIT[load]
        st == d.SSIT[store]
        id == IF l = 0 /\ st = 0 THEN load
              ELSE IF st = 0 THEN l
              ELSE IF l = 0 THEN st
              ELSE IF st > l THEN l ELSE st
    IN IF l # 0 /\ st > l THEN [d EXCEPT !.SSIT[store] = id]
       ELSE [d EXCEPT !.SSIT[load] = id,
                      !.SSIT[store] = IF st = 0 THEN id ELSE @]

storeSetInsertStore(d, i) ==
    IF d.SSIT[i] = 0 THEN d ELSE [d EXCEPT !.LFST[d.SSIT[i]] = i]

checkInst(d, i) == IF d.SSIT[i] = 0 THEN 0 ELSE d.LFST[d.SSIT[i]]

storeSetIssued(d, i) ==
    IF isStore(i) /\ d.SSIT[i] # 0 /\ d.LFST[d.SSIT[i]] = i
    THEN [d EXCEPT !.LFST[d.SSIT[i]] = 0] ELSE d

\* LFST no longer names an instruction that left memDepHash: looking it up there
\* would find nothing.
Forget(d, gone) ==
    [d EXCEPT !.LFST = [x \in DOMAIN @ |-> IF @[x] \in gone THEN 0 ELSE @[x]],
              !.hash = @ \ gone]

(***************************************************************************)
(* MemDepUnit                                                              *)
(***************************************************************************)
moveToReady(d, is) == [d EXCEPT !.ready = @ \cup is]

memDepInsert(d, i) ==
    LET producing == IF isLoad(i) /\ d.loadBarrier # 0 THEN d.loadBarrier
                     ELSE IF isStore(i) /\ d.storeBarrier # 0 THEN d.storeBarrier
                     ELSE checkInst(d, i)
        e == [d EXCEPT !.hash = @ \cup {i},
                       !.waits[i] = IF producing \in d.hash THEN producing ELSE 0]
        f == IF e.waits[i] = 0 THEN moveToReady(e, {i}) ELSE e
    IN IF isStore(i) THEN storeSetInsertStore(f, i) ELSE f

insertBarrier(d, i) ==
    [d EXCEPT !.loadBarrier = IF isMemBarrier(i) THEN i ELSE @,
              !.storeBarrier = i,
              !.hash = @ \cup {i}]

\* Mutant: only the oldest of the loads that wait goes again.
MutReplaysOne(s) ==
    LET one == {i \in s.dep.toReplay : \A j \in s.dep.toReplay : i <= j}
    IN [s EXCEPT !.dep = [moveToReady(@, one) EXCEPT !.toReplay = @ \ one]]

replay(s) ==
    [Check(s, "findInHash", s.dep.toReplay \subseteq s.dep.hash)
     EXCEPT !.dep = [moveToReady(@, @.toReplay) EXCEPT !.toReplay = {}]]

\* wakeDependents, completeMemInst and completed.
memDepComplete(s, i) ==
    LET woken == IF isLoad(i) THEN {} ELSE {j \in Insts : s.dep.waits[j] = i}
        d == moveToReady([s.dep EXCEPT !.waits = [j \in Insts |->
                             IF j \in woken THEN 0 ELSE @[j]]], woken)
    IN [Check(s, "completed", i \in s.dep.hash) EXCEPT !.dep = Forget(d, {i})]

completeBarrier(s, i) ==
    LET t == memDepComplete(s, i)
    IN [t EXCEPT
          !.dep.loadBarrier = IF isMemBarrier(i) /\ @ = i THEN 0 ELSE @,
          !.dep.storeBarrier = IF @ = i THEN 0 ELSE @]

memDepSquash(d, keep) ==
    LET gone == {i \in Insts : i > keep}
    IN [Forget(d, gone) EXCEPT
          !.toReplay = @ \ gone,
          !.blocked = @ \ gone,
          !.ready = @ \ gone,
          !.waits = [i \in Insts |-> IF i \in gone THEN 0 ELSE @[i]],
          !.loadBarrier = IF @ \in gone THEN 0 ELSE @,
          !.storeBarrier = IF @ \in gone THEN 0 ELSE @]

(***************************************************************************)
(* LSQUnit: insertion, execution                                           *)
(***************************************************************************)
insertLoad(s, i) ==
    [Check(s, "loadQueue full", incrLdIdx(s.lsq.loadTail) # s.lsq.loadHead)
     EXCEPT !.inst[i].lqIdx = s.lsq.loadTail,
            !.inst[i].sqIdx = IF s.lsq.stores = 0 THEN -1 ELSE s.lsq.storeTail,
            !.lsq.loadQueue[s.lsq.loadTail] = i,
            !.lsq.loadTail = incrLdIdx(@),
            !.lsq.loads = @ + 1]

insertStore(s, i) ==
    [Check(s, "storeQueue full", incrStIdx(s.lsq.storeTail) # s.lsq.storeHead)
     EXCEPT !.inst[i].sqIdx = s.lsq.storeTail,
            !.inst[i].lqIdx = s.lsq.loadTail,
            !.lsq.storeQueue[s.lsq.storeTail] = SQEntry(i),
            !.lsq.storeTail = incrStIdx(@),
            !.lsq.stores = @ + 1]

\* Whether two accesses meet at the granularity of the check.
Conflict(i, j) ==
    \E a \in bytes(i), b \in bytes(j) :
        a \div (2^depCheckShift) = b \div (2^depCheckShift)

\* Mutant: loads are not compared with older loads.
MutIgnoresLoads(s, load_idx, i) ==
    LET q == s.lsq.loadQueue
        bad == {x \in Span(load_idx, s.lsq.loadTail, LQEntries) :
                  s.inst[q[x]].effAddrValid /\ Conflict(i, q[x]) /\ isStore(i)}
    IN [violator |-> IF bad = {} THEN 0 ELSE q[FirstOf(bad, load_idx, LQEntries)],
        s |-> s]

\* The loads from load_idx on that meet instruction i.  For a store, the first is
\* the violator; for a load, the first that a snoop has hit, and the ones before
\* it are marked.
checkViolations(s, load_idx, i) ==
    LET q == s.lsq.loadQueue
        at(x) == (x - load_idx) % LQEntries
        met == {x \in Span(load_idx, s.lsq.loadTail, LQEntries) :
                  s.inst[q[x]].effAddrValid /\ Conflict(i, q[x])}
        bad == IF isStore(i) THEN met
               ELSE {x \in met : s.inst[q[x]].hitExternalSnoop}
        first == FirstOf(bad, load_idx, LQEntries)
        marked == IF isStore(i) THEN {}
                  ELSE {q[x] : x \in {y \in met : bad = {} \/ at(y) < at(first)}}
    IN [violator |-> IF bad = {} THEN 0 ELSE q[first],
        s |-> [s EXCEPT !.inst = [j \in Insts |->
                 IF j \in marked
                 THEN [@[j] EXCEPT !.possibleLoadViolation = TRUE] ELSE @[j]]]]

\* The youngest older store not yet sent that has a byte of the load gives it its
\* data, or makes it wait; otherwise the load goes to the cache.
read(s, i, ok) ==
    LET l == s.lsq
        sqIdx == s.inst[i].sqIdx
        older == IF sqIdx = -1 THEN {} ELSE Span(l.storeWBIdx, sqIdx, SQEntries)
        met == {x \in older : l.storeQueue[x].size \cap bytes(i) # {}}
        e == l.storeQueue[LastOf(met, l.storeWBIdx, SQEntries)]
        t == Check(s, "read: inst", \A x \in older : l.storeQueue[x].inst # 0)
    IN IF met = {} THEN
           LET u == sendTimingReq(t, Packet(i, s.inst[i].lqIdx), ok)
           IN IF ok THEN u ELSE [u EXCEPT !.dep.blocked = @ \cup {i}]
       ELSE IF bytes(i) \subseteq e.size THEN
           [t EXCEPT !.lsq.writebacks = @ \cup
               {[inst |-> i, val |-> [b \in bytes(i) |-> e.inst]]}]
       ELSE LET oldest == ~l.stalled \/ i < l.loadQueue[l.stallingLoadIdx]
            IN [Check(t, "Should not check one of these", ~e.completed)
                EXCEPT !.lsq.stalled = TRUE,
                       !.lsq.stallingStoreIsn = IF oldest THEN e.inst ELSE @,
                       !.lsq.stallingLoadIdx =
                           IF oldest THEN s.inst[i].lqIdx ELSE @,
                       !.dep.toReplay = @ \cup {i}]

\* The translation clears the fault.
executeLoad(s, i, ok) ==
    LET t == [Check(s, "isExecuted", ~s.inst[i].executed) EXCEPT
                !.inst[i].effAddrValid = TRUE, !.inst[i].reExec = FALSE]
    IN IF bytes(i) = {}
       THEN [violator |-> 0, s |-> memDepComplete(
               [s EXCEPT !.inst[i].executed = TRUE], i)]
       ELSE checkViolations(read(t, i, ok), incrLdIdx(s.inst[i].lqIdx), i)

\* Stores are executed, and wake those that wait for them, in one cycle.
executeStore(s, i) ==
    LET t == Check(s, "stores != 0", s.lsq.stores # 0)
        r == IF bytes(i) = {} THEN [violator |-> 0, s |-> t]
             ELSE checkViolations(
                    [t EXCEPT !.lsq.storeQueue[s.inst[i].sqIdx].size = bytes(i),
                              !.inst[i].effAddrValid = TRUE],
                    s.inst[i].lqIdx, i)
    IN [r EXCEPT !.s = memDepComplete([@ EXCEPT !.inst[i].executed = TRUE], i)]

\* A violation squashes the violator, unless a squash reaches i already.  It also
\* trains the store sets, unless that squash was found in the same cycle
\* (fetchRedirect is reset in each): one on its way to commit does not prevent it.
squashDueToMemOrder(s, i, violator, sameCycle) ==
    IF \/ violator = 0
       \/ sameCycle /\ s.pipe.redirect # NoRedirect /\ s.pipe.redirect < i
    THEN s
    ELSE [s EXCEPT !.dep = storeSetViolation(@, i, violator),
                   !.pipe.redirect = IF @ # NoRedirect /\ @ < violator - 1
                                     THEN @ ELSE violator - 1]

(***************************************************************************)
(* LSQUnit: commit, writeback, squash                                      *)
(***************************************************************************)
commitLoads(s, youngest) ==
    LET out == {x \in Span(s.lsq.loadHead, s.lsq.loadTail, LQEntries) :
                  s.lsq.loadQueue[x] <= youngest}
    IN [s EXCEPT !.lsq.loadQueue = [x \in DOMAIN @ |->
                     IF x \in out THEN 0 ELSE @[x]],
                 !.lsq.loadHead = (@ + Cardinality(out)) % LQEntries,
                 !.lsq.loads = @ - Cardinality(out)]

\* Mutant: all stores executed may be written back.
MutCommitsAll(s, youngest) ==
    LET out == {x \in Span(s.lsq.storeHead, s.lsq.storeTail, SQEntries) :
                  /\ ~s.lsq.storeQueue[x].canWB
                  /\ s.lsq.storeQueue[x].size # {}}
    IN [s EXCEPT !.lsq.storeQueue = [x \in DOMAIN @ |->
                     IF x \in out THEN [@[x] EXCEPT !.canWB = TRUE] ELSE @[x]],
                 !.lsq.storesToWB = @ + Cardinality(out)]

commitStores(s, youngest) ==
    LET out == {x \in Span(s.lsq.storeHead, s.lsq.storeTail, SQEntries) :
                  /\ ~s.lsq.storeQueue[x].canWB
                  /\ s.lsq.storeQueue[x].inst <= youngest}
    IN [s EXCEPT !.lsq.storeQueue = [x \in DOMAIN @ |->
                     IF x \in out THEN [@[x] EXCEPT !.canWB = TRUE] ELSE @[x]],
                 !.lsq.storesToWB = @ + Cardinality(out)]

\* The load that stalled for this store, and all others that wait, go again.
unstall(s, store) ==
    IF s.lsq.stalled /\ store = s.lsq.stallingStoreIsn
    THEN replay([s EXCEPT !.lsq.stalled = FALSE, !.lsq.stallingStoreIsn = 0])
    ELSE s

\* What is completed at the head leaves the queue.
completeStore(s, idx) ==
    LET l == s.lsq
        e == l.storeQueue[idx]
        left == {x \in Span(l.storeHead, l.storeTail, SQEntries) :
                   x # idx /\ ~l.storeQueue[x].completed}
        head == IF idx # l.storeHead THEN l.storeHead
                ELSE FirstOf(left \cup {l.storeTail}, l.storeHead, SQEntries)
        out == Span(l.storeHead, head, SQEntries)
        t == [Check(s, "completeStore", e.inst # 0) EXCEPT
                !.lsq.storesToWB = @ - 1,
                !.lsq.storeQueue = [x \in DOMAIN @ |->
                    IF x \in out THEN NoEntry
                    ELSE IF x = idx THEN [@[x] EXCEPT !.completed = TRUE]
                    ELSE @[x]],
                !.lsq.storeHead = head,
                !.lsq.stores = @ - Cardinality(out)]
    IN [unstall(t, e.inst) EXCEPT
          !.lsq.storeInFlight = IF setup.needsTSO THEN FALSE ELSE @]

storePostSend(s) ==
    [unstall(s, s.lsq.storeQueue[s.lsq.storeWBIdx].inst) EXCEPT
       !.lsq.storeInFlight = setup.needsTSO \/ @,
       !.lsq.storeWBIdx = incrStIdx(@)]

sendStore(s, ok) ==
    LET i == s.lsq.storeQueue[s.lsq.storeWBIdx].inst
        t == sendTimingReq(s, Packet(i, s.lsq.storeWBIdx), ok)
    IN IF ok THEN storePostSend(t)
       ELSE [Check(t, "retryPkt == NULL", ~s.lsq.isStoreBlocked)
             EXCEPT !.lsq.isStoreBlocked = TRUE]

\* One turn of the loop of writebackStores.
canWriteback(s) ==
    /\ s.lsq.storesToWB > 0
    /\ s.lsq.storeWBIdx # s.lsq.storeTail
    /\ s.lsq.storeQueue[s.lsq.storeWBIdx].canWB
    /\ ~(setup.needsTSO /\ s.lsq.storeInFlight)
    /\ ~s.lsq.isStoreBlocked

writebackStore(s, ok) ==
    LET x == s.lsq.storeWBIdx
        e == s.lsq.storeQueue[x]
    IN IF e.size = {}
       THEN [completeStore(s, x) EXCEPT !.lsq.storeWBIdx = incrStIdx(@)]
       ELSE sendStore([Check(s, "committed", ~e.committed)
                       EXCEPT !.lsq.storeQueue[x].committed = TRUE], ok)

\* refuse is the turn in which the cache refuses the store.
writebackStores(s, refuse) ==
    FoldLeft(LAMBDA t, n : IF canWriteback(t)
                           THEN writebackStore(t, n # refuse /\ ~t.dcache.owes)
                           ELSE t,
             s, [n \in 1..SQEntries |-> n])

\* The load leaves memDepHash when IEW writes it back (writebackInsts), later in
\* the same cycle or in the next: nothing in memDepHash waits for a load.
writeback(s, i, val) ==
    LET t == [s EXCEPT !.inst[i].executed = TRUE,
                       !.inst[i].val = IF s.inst[i].reExec THEN @ ELSE val]
    IN IF s.inst[i].reExec THEN t ELSE memDepComplete(t, i)

\* The responses to squashed instructions are ignored.
completeDataAccess(s, pkt) ==
    IF pkt.inst = 0 THEN s
    ELSE IF pkt.isLoad THEN writeback(s, pkt.inst, pkt.val)
    ELSE completeStore(s, pkt.idx)

\* Mutant: the load that stalls is squashed and remembered.
MutKeepsStall(s, keep) ==
    LET l == s.lsq
        loads == {x \in Span(l.loadHead, l.loadTail, LQEntries) :
                    l.loadQueue[x] > keep}
        stores == {x \in Span(l.storeHead, l.storeTail, SQEntries) :
                     l.storeQueue[x].inst > keep /\ ~l.storeQueue[x].canWB}
        t == Check(s, "Is stalled should have been cleared by stalling load!",
                   ~(l.stalled /\ \E x \in stores :
                       l.storeQueue[x].inst = l.stallingStoreIsn))
    IN [t EXCEPT
          !.lsq.loadQueue = [x \in DOMAIN @ |-> IF x \in loads THEN 0 ELSE @[x]],
          !.lsq.loadTail = (@ - Cardinality(loads)) % LQEntries,
          !.lsq.loads = @ - Cardinality(loads),
          !.lsq.storeQueue = [x \in DOMAIN @ |->
              IF x \in stores THEN NoEntry ELSE @[x]],
          !.lsq.storeTail = (@ - Cardinality(stores)) % SQEntries,
          !.lsq.stores = @ - Cardinality(stores),
          !.lsq.writebacks = {w \in @ : w.inst <= keep},
          !.dcache.queue = [k \in DOMAIN @ |->
              IF @[k].inst > keep THEN [@[k] EXCEPT !.inst = 0] ELSE @[k]]]

lsqSquash(s, keep) ==
    LET l == s.lsq
        loads == {x \in Span(l.loadHead, l.loadTail, LQEntries) :
                    l.loadQueue[x] > keep}
        stores == {x \in Span(l.storeHead, l.storeTail, SQEntries) :
                     l.storeQueue[x].inst > keep /\ ~l.storeQueue[x].canWB}
        cleared == l.stalled /\ l.stallingLoadIdx \in loads
        t == Check(s, "Is stalled should have been cleared by stalling load!",
                   ~(l.stalled /\ ~cleared
                     /\ \E x \in stores :
                          l.storeQueue[x].inst = l.stallingStoreIsn))
    IN [t EXCEPT
          !.lsq.loadQueue = [x \in DOMAIN @ |-> IF x \in loads THEN 0 ELSE @[x]],
          !.lsq.loadTail = (@ - Cardinality(loads)) % LQEntries,
          !.lsq.loads = @ - Cardinality(loads),
          !.lsq.stalled = @ /\ ~cleared,
          !.lsq.stallingStoreIsn = IF cleared THEN 0 ELSE @,
          !.lsq.stallingLoadIdx = IF cleared THEN 0 ELSE @,
          !.lsq.storeQueue = [x \in DOMAIN @ |->
              IF x \in stores THEN NoEntry ELSE @[x]],
          !.lsq.storeTail = (@ - Cardinality(stores)) % SQEntries,
          !.lsq.stores = @ - Cardinality(stores),
          !.lsq.writebacks = {w \in @ : w.inst <= keep},
          !.dcache.queue = [k \in DOMAIN @ |->
              IF @[k].inst > keep THEN [@[k] EXCEPT !.inst = 0] ELSE @[k]]]

\* Mutant: only the loads that are hit are to be executed again.
MutSquashesHitOnly(s, block) ==
    LET l == s.lsq
        hit == IF l.loads = 0 THEN {}
               ELSE {l.loadQueue[x] : x \in
                       {y \in Span(incrLdIdx(l.loadHead), l.loadTail, LQEntries) :
                          block \in blocks(bytes(l.loadQueue[y]))}}
    IN [s EXCEPT !.inst = [i \in Insts |->
          IF i \in hit /\ @[i].effAddrValid
          THEN IF @[i].possibleLoadViolation THEN [@[i] EXCEPT !.reExec = TRUE]
               ELSE [@[i] EXCEPT !.hitExternalSnoop = TRUE]
          ELSE @[i]]]

\* An invalidation: loads behind the first that may have been read out of order
\* are to be executed again, or are marked for an older load to find.
checkSnoop(s, block) ==
    LET l == s.lsq
        from == incrLdIdx(l.loadHead)
        rest == IF l.loads = 0 THEN {}
                ELSE {x \in Span(from, l.loadTail, LQEntries) :
                        s.inst[l.loadQueue[x]].effAddrValid}
        hits == {x \in rest : block \in blocks(bytes(l.loadQueue[x]))}
        at(x) == (x - from) % LQEntries
        squashed == IF setup.needsTSO
                    THEN {x \in rest : \E y \in hits : at(y) <= at(x)}
                    ELSE {x \in hits :
                            s.inst[l.loadQueue[x]].possibleLoadViolation}
        of(S) == {l.loadQueue[x] : x \in S}
    IN [s EXCEPT !.inst = [i \in Insts |->
          IF i \in of(squashed) THEN [@[i] EXCEPT !.reExec = TRUE]
          ELSE IF i \in of(hits) THEN [@[i] EXCEPT !.hitExternalSnoop = TRUE]
          ELSE @[i]]]

----------------------------------------------------------------------------

Init ==
    /\ setup \in Setups
    /\ pipe = [program |-> setup.predicted, next |-> 1, done |-> 0,
               seen |-> 0, redirect |-> NoRedirect, mispredicted |-> 0]
    /\ lsq = [loadQueue |-> [x \in 0..(LQEntries - 1) |-> 0],
              loadHead |-> 0, loadTail |-> 0, loads |-> 0,
              storeQueue |-> [x \in 0..(SQEntries - 1) |-> NoEntry],
              storeHead |-> 0, storeWBIdx |-> 0, storeTail |-> 0,
              stores |-> 0, storesToWB |-> 0,
              stalled |-> FALSE, stallingStoreIsn |-> 0, stallingLoadIdx |-> 0,
              isStoreBlocked |-> FALSE, storeInFlight |-> FALSE,
              writebacks |-> {}]
    /\ dep = [hash |-> {}, waits |-> [i \in Insts |-> 0], toReplay |-> {},
              blocked |-> {}, ready |-> {}, SSIT |-> [i \in Insts |-> 0],
              LFST |-> [i \in Insts |-> 0], loadBarrier |-> 0,
              storeBarrier |-> 0]
    /\ inst = [i \in Insts |-> NotDispatched]
    /\ dcache = [queue |-> <<>>, owes |-> FALSE, writes |-> <<>>,
                 refused |-> 0, others |-> 0]
    /\ asserts = {}

\* dispatchInsts, for the next instruction.
canDispatch ==
    /\ pipe.next \in Insts
    /\ isLoad(pipe.next) => ~lqFull(State)
    /\ isStore(pipe.next) => ~sqFull(State)

Dispatch ==
    LET i == pipe.next
        s == [State EXCEPT !.pipe.next = @ + 1]
    IN /\ canDispatch
       /\ Become(IF isBarrier(i)
                 THEN [s EXCEPT !.dep = insertBarrier(@, i)]
                 ELSE [(IF isLoad(i) THEN insertLoad(s, i) ELSE insertStore(s, i))
                       EXCEPT !.dep = memDepInsert(@, i)])

\* executeInsts, for one of the instructions ready (and issued the cycle before);
\* sameCycle: the squash on its way was found by one executed just before.
Execute(i, ok, sameCycle) ==
    LET s == [State EXCEPT !.dep = storeSetIssued([@ EXCEPT !.ready = @ \ {i}], i)]
        r == IF isLoad(i) THEN executeLoad(s, i, ok) ELSE executeStore(s, i)
    IN /\ i \in dep.ready
       /\ sameCycle => pipe.redirect # NoRedirect
       /\ IF isBarrier(i)
          THEN Become(completeBarrier([s EXCEPT !.inst[i].executed = TRUE], i))
          ELSE Become(squashDueToMemOrder(r.s, i, r.violator, sameCycle))

\* A WritebackEvent of a load that was given the data of a store.
Writeback(w) ==
    /\ w \in lsq.writebacks
    /\ Become(writeback([State EXCEPT !.lsq.writebacks = @ \ {w}], w.inst, w.val))

\* Once a cycle IEW writes back stores, then handles doneSeqNum.
WritebackStores(refuse) ==
    /\ canWriteback(State)
    /\ refuse # 0 => Answers(State) = {TRUE, FALSE}
    /\ Become(writebackStores(State, refuse))

CommitToLSQ ==
    /\ pipe.seen # pipe.done
    /\ Become(commitLoads(commitStores([State EXCEPT !.pipe.seen = pipe.done],
                                       pipe.done), pipe.done))

\* LSQ::recvReqRetry
RecvReqRetry(ok) ==
    LET s == [State EXCEPT !.dcache.owes = FALSE,
                           !.dep = [moveToReady(@, @.blocked)
                                    EXCEPT !.blocked = {}],
                           !.lsq.isStoreBlocked = FALSE]
    IN /\ dcache.owes
       /\ ok \in Answers(s)
       /\ Become(IF lsq.isStoreBlocked THEN sendStore(s, ok) ELSE s)

\* commitHead: an instruction that is executed and has no fault commits.  A barrier
\* waits for the stores, then it is executed; a load to be executed again traps.
atHead(i) == i = pipe.done + 1 /\ i < pipe.next /\ pipe.redirect = NoRedirect
storesDone == ~hasStoresToWB(State) /\ pipe.seen = pipe.done
canCommit(i) == atHead(i) /\ inst[i].executed /\ ~inst[i].reExec
canExecute(i) ==
    /\ atHead(i) /\ isBarrier(i) /\ storesDone
    /\ ~inst[i].executed /\ i \notin dep.ready
canTrap(i) == atHead(i) /\ inst[i].executed /\ inst[i].reExec /\ storesDone

Commit(i) ==
    /\ canCommit(i)
    /\ Become([State EXCEPT !.pipe.done = i])

CommitNonSpec(i) ==
    /\ canExecute(i)
    /\ Become([State EXCEPT !.dep = moveToReady(@, {i})])

CommitFault(i) ==
    /\ canTrap(i)
    /\ Become([State EXCEPT !.pipe.redirect = pipe.done])

\* A branch behind instruction keep turns out mispredicted.
Mispredict(keep) ==
    /\ pipe.mispredicted < setup.mispredictions
    /\ keep \in pipe.done..(pipe.next - 1)
    /\ pipe.redirect = NoRedirect \/ keep < pipe.redirect
    /\ Become([State EXCEPT !.pipe.redirect = keep, !.pipe.mispredicted = @ + 1])

\* What fetch delivers from the new PC on.
Refetched(keep) ==
    [i \in Insts |-> IF i > keep /\ pipe.mispredicted > 0 THEN setup.actual[i]
                     ELSE Program[i]]

\* The squash comes back from commit to IEW.
Squash ==
    LET keep == pipe.redirect
        s == lsqSquash([State EXCEPT !.dep = memDepSquash(@, keep)], keep)
    IN /\ keep # NoRedirect
       /\ pipe.seen = pipe.done
       /\ Become([s EXCEPT !.pipe.redirect = NoRedirect, !.pipe.next = keep + 1,
                           !.pipe.program = Refetched(keep),
                           !.inst = [i \in Insts |->
                               IF i > keep THEN NotDispatched ELSE @[i]]])

\* The cache serves the requests for a block in the order it accepted them.
Before(k) ==
    {j \in 1..(k - 1) :
       blocks(dcache.queue[j].bytes) \cap blocks(dcache.queue[k].bytes) # {}}

perform(s, k) ==
    LET p == s.dcache.queue[k]
    IN IF p.isLoad
       THEN [s EXCEPT !.dcache.queue[k].performed = TRUE,
                      !.dcache.queue[k].val = [b \in p.bytes |-> Contents(s, b)]]
       ELSE [s EXCEPT !.dcache.queue[k].performed = TRUE,
                      !.dcache.writes = Append(@, [by |-> p.inst,
                                                   bytes |-> p.bytes])]

Perform(k) ==
    /\ k \in DOMAIN dcache.queue
    /\ ~dcache.queue[k].performed
    /\ \A j \in Before(k) : dcache.queue[j].performed
    /\ Become(perform(State, k))

\* LSQ::recvTimingResp
RecvTimingResp(k) ==
    LET p == dcache.queue[k]
        s == completeDataAccess([State EXCEPT !.dcache.queue = RemoveAt(@, k)], p)
    IN /\ k \in DOMAIN dcache.queue
       /\ p.performed
       /\ Before(k) = {}
       /\ Become(IF ~p.isInvalidate THEN s
                 ELSE checkSnoop(s, CHOOSE x \in blocks(p.bytes) : TRUE))

\* Another processor writes byte b.  The invalidation comes as a snoop, or, where
\* loads of the block wait for a miss that is ordered before the write, with their
\* responses (ReadRespWithInvalidate).
OtherWrite(b, late) ==
    LET waiting == {k \in DOMAIN dcache.queue :
                      /\ BlockOf[b] \in blocks(dcache.queue[k].bytes)
                      /\ ~dcache.queue[k].performed}
        w == [by |-> -(dcache.others + 1), bytes |-> {b}]
        s == [State EXCEPT !.dcache.writes = Append(@, w), !.dcache.others = @ + 1]
        missed == [k \in DOMAIN dcache.queue |->
                     IF k \in waiting
                     THEN [perform(State, k).dcache.queue[k]
                           EXCEPT !.isInvalidate = TRUE]
                     ELSE dcache.queue[k]]
    IN /\ dcache.others < setup.others
       /\ b \in setup.shared
       /\ late => /\ setup.late /\ waiting # {}
                  /\ \A k \in waiting : dcache.queue[k].isLoad
       /\ Become(IF late THEN [s EXCEPT !.dcache.queue = missed]
                 ELSE checkSnoop(s, BlockOf[b]))

Step ==
    \/ Dispatch
    \/ \E i \in Insts : \E ok \in IF isLoad(i) THEN Answers(State) ELSE {TRUE} :
         \E sameCycle \in BOOLEAN : Execute(i, ok, sameCycle)
    \/ \E w \in lsq.writebacks : Writeback(w)
    \/ \E refuse \in 0..SQEntries : WritebackStores(refuse)
    \/ CommitToLSQ
    \/ \E ok \in BOOLEAN : RecvReqRetry(ok)
    \/ \E i \in Insts : Commit(i) \/ CommitNonSpec(i) \/ CommitFault(i)
    \/ Squash
    \/ \E k \in DOMAIN dcache.queue : Perform(k) \/ RecvTimingResp(k)

Next ==
    \/ Step
    \/ \E keep \in 0..Len(Program) : Mispredict(keep)
    \/ \E b \in Bytes, late \in BOOLEAN : OtherWrite(b, late)

\* Whether Step is enabled.
CanStep ==
    \/ canDispatch \/ dep.ready # {} \/ lsq.writebacks # {} \/ canWriteback(State)
    \/ pipe.seen # pipe.done \/ dcache.owes \/ dcache.queue # <<>>
    \/ pipe.redirect # NoRedirect
    \/ \E i \in Insts : canCommit(i) \/ canExecute(i) \/ canTrap(i)

\* The processor is ticked and the cache answers: steps are taken while there are
\* any.  Mispredictions and the writes of others, which also count here, are few.
Spec ==
    Init /\ [][Next]_vars /\ ((<>[]CanStep) => []<><<TRUE>>_vars)

----------------------------------------------------------------------------

Counts(q, from, to, n) == q = (to - from) % n

\* The counts of both queues agree with their indices, the stores sent are between
\* the head and the tail, and storesToWB counts the committed ones not completed.
TypeOK ==
    /\ setup \in Setups
    /\ Counts(lsq.loads, lsq.loadHead, lsq.loadTail, LQEntries)
    /\ Counts(lsq.stores, lsq.storeHead, lsq.storeTail, SQEntries)
    /\ lsq.storeWBIdx \in Span(lsq.storeHead, lsq.storeTail, SQEntries)
                            \cup {lsq.storeTail}
    /\ lsq.storesToWB = Cardinality({x \in DOMAIN lsq.storeQueue :
                            /\ lsq.storeQueue[x].canWB
                            /\ ~lsq.storeQueue[x].completed})
    /\ dep.hash \subseteq Insts /\ dep.ready \subseteq dep.hash
    /\ dep.toReplay \subseteq dep.hash /\ dep.blocked \subseteq dep.hash
    /\ pipe.next \in 1..(Len(Program) + 1)
    /\ pipe.seen <= pipe.done /\ pipe.done < pipe.next

\* The counts are right, and no assertion and no panic of LSQUnit or MemDepUnit is
\* ever hit: the queues do
\* not overflow (insertLoad, insertStore), the stores a load walks over are there
\* and not completed (read), a store is sent once (writebackStores), and a squash
\* finds no store that a surviving load stalls for (squash: "I don't think this
\* can happen.").
NoAssertionFails == TypeOK /\ asserts = {}

\* The place of a write of byte b in the order of memory; the processor's own that
\* is not performed comes after all that are.
Place(w) ==
    LET ps == {k \in DOMAIN dcache.writes : dcache.writes[k].by = w}
    IN IF w = 0 THEN 0
       ELSE IF ps = {} THEN Len(dcache.writes) + w
       ELSE CHOOSE k \in ps : TRUE

Committed == 1..pipe.done

\* What instruction i wrote to byte b, or saw there.
Wrote(i, b) == IF isStore(i) THEN i ELSE inst[i].val[b]

\* The committed accesses to one byte agree with one order of its writes, in
\* program order: a load never sees a write older than the one an earlier load
\* saw, or than an earlier store, and never a later store (read forwards from the
\* store queue; checkViolations and checkSnoop squash what went wrong).
Coherent ==
    \A i, j \in Committed : \A b \in bytes(i) \cap bytes(j) :
        i < j => /\ Place(Wrote(i, b)) <= Place(Wrote(j, b))
                 /\ isStore(j) => Wrote(i, b) # j

\* Only committed stores are written to memory, each of them once and with its
\* own bytes, however squashes, refusals and retries fall (commitStores,
\* writebackStores, recvRetry, squash).
CommittedStoresOnly ==
    \A k \in DOMAIN dcache.writes :
        LET w == dcache.writes[k]
        IN w.by > 0 => /\ w.by \in Committed
                       /\ isStore(w.by) /\ w.bytes = bytes(w.by)
                       /\ \A m \in DOMAIN dcache.writes :
                            dcache.writes[m].by = w.by => m = k

\* Load j read something that had been overwritten when the t-th write was made.
Stale(j, t) ==
    \E b \in bytes(j), p \in 1..Min({t, Len(dcache.writes)}) :
        /\ b \in dcache.writes[p].bytes
        /\ p > Place(inst[j].val[b])

\* The last write of another processor that load i saw.
SeenAt(i) ==
    Max({Place(inst[i].val[b]) : b \in {c \in bytes(i) : inst[i].val[c] <= 0}}
        \cup {0})

\* With needsTSO, stores reach memory in program order (storeInFlight), and a load
\* never reads what was overwritten before something an earlier load has seen
\* (checkSnoop squashes the load that was hit and all after it).
TotalStoreOrder ==
    setup.needsTSO =>
        \A i, j \in Committed :
            i < j =>
              /\ isLoad(i) /\ isLoad(j) => ~Stale(j, SeenAt(i))
              /\ isStore(i) /\ isStore(j) /\ bytes(i) # {} /\ bytes(j) # {}
                   => Place(i) < Place(j)

\* A barrier is one: the stores before it are performed before any store after it,
\* and, for a memory barrier, before any load after it reads; such a load does not
\* read what was overwritten before something a load in front of the barrier has
\* seen ("Memory barriers block loads and stores, write barriers only stores.").
BarriersOrder ==
    \A m \in {x \in Committed : isBarrier(x)} :
        \A i \in 1..(m - 1), j \in (m + 1)..pipe.done :
            /\ isStore(i) /\ isStore(j) /\ bytes(i) # {} /\ bytes(j) # {}
                 => Place(i) < Place(j)
            /\ isMemBarrier(m) /\ isLoad(j) =>
                 IF isStore(i)
                 THEN bytes(i) # {} => /\ Place(i) <= Len(dcache.writes)
                                       /\ ~Stale(j, Place(i))
                 ELSE isLoad(i) => ~Stale(j, SeenAt(i))

\* Other processors see the accesses ordered as far as the memory model and the
\* barriers say (checkSnoop, storeInFlight, MemDepUnit::insertBarrier, completed).
OrderedForOthers == TotalStoreOrder /\ BarriersOrder

\* Every instruction commits and every store reaches memory: no load waits for a
\* store that has gone (replay), for a retry that woke others (cacheUnblocked), or
\* for a barrier or store predicted to produce for it that was squashed
\* (MemDepUnit::squash).
AllPerformed ==
    <>(/\ pipe.done = Len(Program)
       /\ lsq.stores = 0
       /\ \A i \in Insts : isStore(i) /\ bytes(i) # {} =>
            \E k \in DOMAIN dcache.writes : dcache.writes[k].by = i)
=============================================================================

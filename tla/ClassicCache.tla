---------------------------- MODULE ClassicCache ----------------------------
(***************************************************************************)
(* One block of memory in a system of first-level caches (mem/cache: Cache,  *)
(* BaseCache, MSHR, MSHRQueue) that share a coherent crossbar, with or       *)
(* without a snoop filter, in front of a simple memory, in timing mode.      *)
(*                                                                         *)
(* A request that a cache sends snoops every other cache and reaches the     *)
(* memory before the call returns, so an event's handler is the whole chain  *)
(* of calls it starts: the handlers are functions from a system state s, a   *)
(* record of the variables below and of the handler's own locals (the packet *)
(* being snooped, tempBlock, is_fill), to the state they leave.  Ticks are   *)
(* left out: a scheduled event may fire at any time, and a crossbar layer    *)
(* that is occupied only delays a call.                                      *)
(*                                                                         *)
(* The other blocks of the same set appear through what they do to this one: *)
(* a fill of another block may evict it, a victim that waits for an upgrade  *)
(* may leave it only the cache's tempBlock, and their writebacks may fill    *)
(* the write buffer.  The contents of the block are the set of the writes it *)
(* holds, so that a lost write shows.                                        *)
(***************************************************************************)
EXTENDS Integers, Sequences, SequencesExt, FiniteSets

CONSTANTS
    Ports,           \* the caches, in the order the crossbar snoops them
    Setups,          \* the systems: records of the program of every processor
                     \* (a sequence of requests [cmd, bytes]: the whole line,
                     \* the word that is locked, or others), whether the
                     \* crossbar has a snoop filter, and whether the write
                     \* buffer may be full and all victims busy
    NumTargets,      \* tgts_per_mshr
    None             \* no cache

Caches == {Ports[i] : i \in 1..Len(Ports)}

(***************************************************************************)
(* blk[c]     status bits, data, and whether the processor's load lock is on *)
(*            lockList                                                     *)
(* mshr[c]    the MSHR of the block: its two lists of targets and its flags, *)
(*            or NoMSHR                                                    *)
(* wb[c]      the writebacks of the block in the write buffer; later: its    *)
(*            order is after that of the MSHR                              *)
(* snoopResp[c] the SnoopRespPacketQueue                                     *)
(* port[c]    the CPU side port: blocked (for Blocked_NoTargets),            *)
(*            mustSendRetry, sendRetryEvent.scheduled()                    *)
(* peer       waitingForPeer of the layer towards memory                     *)
(* filter     the SnoopItem of the block: requested and holder               *)
(* mem        the block in memory and the memory's packetQueue               *)
(* asserts    the assertions and panics of the code that were hit            *)
(* setup      the system that runs; never changes                            *)
(* cpu        what the processors have seen: the number of requests issued,  *)
(*            whether one waits for a retry, the requests answered, and for  *)
(*            the properties the writes performed so far, the contents that  *)
(*            were current since a read was issued, the reads that returned  *)
(*            something else, what a load locked returned, and the store     *)
(*            conditionals that succeeded on other contents                *)
(***************************************************************************)
VARIABLES blk, mshr, wb, snoopResp, port, peer, filter, mem, asserts, setup, cpu

vars == <<blk, mshr, wb, snoopResp, port, peer, filter, mem, asserts, setup, cpu>>

State ==
    [blk |-> blk, mshr |-> mshr, wb |-> wb, snoopResp |-> snoopResp,
     port |-> port, peer |-> peer, filter |-> filter, mem |-> mem,
     asserts |-> asserts, cpu |-> cpu, pkt |-> None, temp |-> FALSE,
     fill |-> FALSE]

Become(result) ==
    \E s \in {result} :
        /\ blk' = s.blk /\ mshr' = s.mshr /\ wb' = s.wb /\ port' = s.port
        /\ snoopResp' = s.snoopResp /\ peer' = s.peer /\ filter' = s.filter
        /\ mem' = s.mem /\ asserts' = s.asserts /\ cpu' = s.cpu
        /\ setup' = setup

Check(s, what, cond) ==
    IF cond THEN s ELSE [s EXCEPT !.asserts = @ \cup {what}]

(***************************************************************************)
(* MemCmd::commandInfo                                                     *)
(***************************************************************************)
needsExclusive(cmd) ==
    cmd \in {"WriteReq", "WriteInvalidateReq", "WriteInvalidateResp",
             "UpgradeReq", "SCUpgradeReq", "UpgradeResp", "SCUpgradeFailReq",
             "UpgradeFailResp", "ReadExReq", "ReadExResp", "StoreCondReq",
             "StoreCondFailReq", "Writeback"}

isInvalidate(cmd) ==
    cmd \in {"ReadRespWithInvalidate", "WriteInvalidateReq", "UpgradeReq",
             "SCUpgradeReq", "SCUpgradeFailReq", "ReadExReq"}

isRead(cmd) ==
    cmd \in {"ReadReq", "ReadResp", "ReadRespWithInvalidate", "LoadLockedReq",
             "SCUpgradeFailReq", "UpgradeFailResp", "ReadExReq", "ReadExResp"}

isWrite(cmd) ==
    cmd \in {"WriteReq", "WriteInvalidateReq", "WriteInvalidateResp",
             "StoreCondReq", "StoreCondFailReq", "Writeback"}

isLLSC(cmd) == cmd \in {"LoadLockedReq", "StoreCondReq", "StoreCondFailReq",
                        "SCUpgradeReq", "SCUpgradeFailReq"}

needsResponse(cmd) == cmd # "Writeback"

responseCommand(cmd) ==
    CASE cmd = "ReadReq" -> "ReadResp"
      [] cmd = "ReadExReq" -> "ReadExResp"
      [] cmd \in {"UpgradeReq", "SCUpgradeReq"} -> "UpgradeResp"
      [] cmd = "SCUpgradeFailReq" -> "UpgradeFailResp"
      [] cmd = "WriteInvalidateReq" -> "WriteInvalidateResp"

(***************************************************************************)
(* CacheBlk.  tags->findBlock finds the block exactly when it is valid.      *)
(***************************************************************************)
Invalid == [status |-> {}, data |-> {}, locked |-> FALSE]

isValid(s, c) == "Valid" \in s.blk[c].status
isWritable(s, c) == {"Valid", "Writable"} \subseteq s.blk[c].status
isReadable(s, c) == {"Valid", "Readable"} \subseteq s.blk[c].status
isDirty(s, c) == "Dirty" \in s.blk[c].status

invalidate(s, c) == [s EXCEPT !.blk[c] = Invalid]

setStatus(s, c, bits) == [s EXCEPT !.blk[c].status = @ \cup bits]
clearStatus(s, c, bits) == [s EXCEPT !.blk[c].status = @ \ bits]

(***************************************************************************)
(* The processors.  A response is taken as received when it is scheduled.    *)
(***************************************************************************)
Req(c, i) == [cpu |-> c, n |-> i]
Bytes(r) == setup.program[r.cpu][r.n].bytes
Whole(r) == Bytes(r) = "line"

\* Lock::overlapping: a load locked takes one word, "word", of the block.
overlapping(r) == Bytes(r) # "other"

\* What the contents of the block say of the locked word.
Word(data) == {w \in data : overlapping(w)}

respond(s, r) == [s EXCEPT !.cpu.answered = @ \cup {r}]

\* A read is answered with the contents of the block; a load locked keeps them.
Observe(s, r, cmd, data) ==
    [s EXCEPT !.cpu.stale = IF data \in s.cpu.window[r] THEN @ ELSE @ \cup {r},
              !.cpu.window[r] = {},
              !.cpu.link[r.cpu] = IF isLLSC(cmd) THEN data ELSE @]

\* A write is performed; the contents it leaves are the current ones.
Perform(s, r, cmd, before) ==
    LET now == IF Whole(r) THEN {r} ELSE s.cpu.current \cup {r}
    IN  [s EXCEPT !.cpu.current = now,
                  !.cpu.window = [x \in DOMAIN @ |->
                                    IF @[x] = {} THEN {} ELSE @[x] \cup {now}],
                  !.cpu.unlinked = IF isLLSC(cmd) /\ Word(before) # Word(s.cpu.link[r.cpu])
                                   THEN @ \cup {r} ELSE @]

(***************************************************************************)
(* MSHR                                                                    *)
(***************************************************************************)
NoMSHR == [targets |-> <<>>, deferred |-> <<>>, inService |-> FALSE,
           pendingDirty |-> FALSE, postInvalidate |-> FALSE,
           postDowngrade |-> FALSE]

Allocated(s, c) == s.mshr[c].targets # <<>>

\* TargetList::needsExclusive; the flag is that of the targets a list holds
listNeedsExclusive(targets) ==
    \E i \in 1..Len(targets) :
        targets[i].source = "FromCPU" /\ needsExclusive(targets[i].cmd)

hasUpgrade(targets) ==
    \E i \in 1..Len(targets) :
        targets[i].source = "FromCPU" /\ targets[i].cmd = "StoreCondReq"

replaceUpgrade(cmd) ==
    CASE cmd = "UpgradeReq" -> "ReadExReq"
      [] cmd = "SCUpgradeReq" -> "SCUpgradeFailReq"
      [] cmd = "StoreCondReq" -> "StoreCondFailReq"
      [] OTHER -> cmd

replaceUpgrades(targets) ==
    IF ~hasUpgrade(targets) THEN targets
    ELSE [i \in DOMAIN targets |->
            [targets[i] EXCEPT !.cmd = replaceUpgrade(@)]]

Target(cmd, r, source, to) ==
    [cmd |-> cmd, req |-> r, source |-> source, to |-> to]

allocateTarget(m, cmd, r) ==
    IF /\ m.inService
       /\ \/ m.deferred # <<>>
          \/ m.postInvalidate
          \/ needsExclusive(cmd) /\ (~m.pendingDirty \/ m.postDowngrade)
    THEN LET c == IF m.postInvalidate THEN replaceUpgrade(cmd) ELSE cmd
         IN  [m EXCEPT !.deferred = Append(@, Target(c, r, "FromCPU", None))]
    ELSE [m EXCEPT !.targets = Append(@, Target(cmd, r, "FromCPU", None))]

markInService(m, pending_dirty_resp) ==
    [m EXCEPT !.inService = TRUE,
              !.pendingDirty = \/ listNeedsExclusive(m.targets)
                               \/ pending_dirty_resp,
              !.postInvalidate = FALSE,
              !.postDowngrade = FALSE]

\* Packet::assertMemInhibit
assertMemInhibit(s) ==
    [Check(s, "assertMemInhibit", ~s.pkt.inhibit) EXCEPT !.pkt.inhibit = TRUE]

\* Mutant: the memory is not told that this cache will answer.
handleSnoopNotInhibited(s, c) ==
    LET p == s.pkt
        m == [s.mshr[c] EXCEPT !.deferred = IF needsExclusive(p.cmd)
                                            THEN replaceUpgrades(@) ELSE @]
        m1 == IF ~(m.pendingDirty \/ isInvalidate(p.cmd)) THEN m
              ELSE [m EXCEPT
                      !.targets = Append(@, Target(p.cmd, p.req, "FromSnoop",
                                                   p.from)),
                      !.postInvalidate = needsExclusive(p.cmd)]
    IN  IF m.postInvalidate THEN [s EXCEPT !.mshr[c] = m]
        ELSE IF needsExclusive(p.cmd) THEN [s EXCEPT !.mshr[c] = m1]
        ELSE [s EXCEPT !.mshr[c] = [m1 EXCEPT !.postDowngrade = TRUE],
                       !.pkt.shared = TRUE]

\* MSHR::handleSnoop of the packet s.pkt, on an MSHR that is in service; the
\* cache does not look at the block then
handleSnoopInService(s, c) ==
    LET p == s.pkt
        m == [s.mshr[c] EXCEPT !.deferred = IF needsExclusive(p.cmd)
                                            THEN replaceUpgrades(@) ELSE @]
        saved == m.pendingDirty \/ isInvalidate(p.cmd)
        s1 == IF m.pendingDirty
              THEN [assertMemInhibit(s) EXCEPT !.pkt.supplyExclusive = TRUE]
              ELSE s
        m1 == IF ~saved THEN m
              ELSE [m EXCEPT
                      !.targets = Append(@, Target(p.cmd, p.req, "FromSnoop",
                                                   p.from)),
                      !.postInvalidate = needsExclusive(p.cmd)]
    IN  IF m.postInvalidate THEN [s EXCEPT !.mshr[c] = m]
        ELSE IF needsExclusive(p.cmd) THEN [s1 EXCEPT !.mshr[c] = m1]
        ELSE [s1 EXCEPT !.mshr[c] = [m1 EXCEPT !.postDowngrade = TRUE],
                        !.pkt.shared = TRUE]

\* MSHR::handleSnoop on an MSHR whose request has not been issued yet
handleSnoopPending(s, c) ==
    IF ~needsExclusive(s.pkt.cmd) THEN s
    ELSE [s EXCEPT !.mshr[c].targets = replaceUpgrades(@),
                   !.mshr[c].deferred = replaceUpgrades(@)]

\* MSHR::handleFill: an exclusive response serves the deferred targets too
mshrHandleFill(s, c, shared) ==
    LET m == s.mshr[c]
    IN  IF /\ ~shared /\ ~m.postInvalidate /\ ~m.postDowngrade
           /\ listNeedsExclusive(m.deferred)
        THEN [Check(s, "MSHR::handleFill", ~listNeedsExclusive(m.targets))
                EXCEPT !.mshr[c].targets = @ \o m.deferred,
                       !.mshr[c].deferred = <<>>]
        ELSE s

(***************************************************************************)
(* Cache: requests from the processor                                      *)
(***************************************************************************)

\* A StoreCond whose lock is gone writes nothing; the block is dirty anyway.
\* A write clears the locks it overlaps (CacheBlk::clearLoadLocks).
satisfyCpuSideRequest(s, c, cmd, r) ==
    LET b == s.blk[c]
        write == ~isLLSC(cmd) \/ b.locked          \* CacheBlk::checkWrite
        s1 == Check(Check(s, "satisfyCpuSideRequest", isValid(s, c)),
                    "isWritable", isWrite(cmd) => isWritable(s, c))
    IN  IF isWrite(cmd)
        THEN [IF write THEN Perform(s1, r, cmd, b.data) ELSE s1 EXCEPT
                !.blk[c] = [status |-> b.status \cup {"Dirty"},
                            locked |-> b.locked /\ ~overlapping(r),
                            data |-> CASE ~write -> b.data
                                       [] write /\ Whole(r) -> {r}
                                       [] OTHER -> b.data \cup {r}]]
        ELSE [Observe(s1, r, cmd, b.data) EXCEPT
                !.blk[c].locked = @ \/ isLLSC(cmd)]

allocateWriteBuffer(s, c, data, supplyExclusive) ==
    [s EXCEPT !.wb[c] = Append(@, [data |-> data, later |-> Allocated(s, c),
                                   supplyExclusive |-> supplyExclusive])]

\* writebackBlk, and the write buffer entry its callers make
writebackBlk(s, c) ==
    clearStatus(allocateWriteBuffer(s, c, s.blk[c].data, isWritable(s, c)), c,
                {"Dirty"})

setBlocked(s, c) ==
    [Check(s, "setBlocked", ~s.port[c].blocked) EXCEPT !.port[c].blocked = TRUE]

\* Mutant: the retry that was promised is not scheduled.
clearBlockedNoRetry(s, c) ==
    [Check(s, "clearBlocked", s.port[c].blocked) EXCEPT
       !.port[c].blocked = FALSE]

clearBlocked(s, c) ==
    [Check(s, "clearBlocked", s.port[c].blocked) EXCEPT
       !.port[c].blocked = FALSE,
       !.port[c].retryEvent = s.port[c].mustSendRetry]

\* Cache::recvTimingReq once access() has missed
handleMiss(s, c, cmd, r) ==
    LET m1 == allocateTarget(s.mshr[c], cmd, r)
        s1 == [s EXCEPT !.mshr[c] = m1]
        s2 == Check(s, "write miss",
                    isValid(s, c) => needsExclusive(cmd) /\ ~isWritable(s, c))
    IN  IF Allocated(s, c)
        THEN IF Len(m1.targets) + Len(m1.deferred) = NumTargets
             THEN setBlocked(s1, c) ELSE s1
        ELSE [clearStatus(s2, c, {"Readable"}) EXCEPT
                !.mshr[c].targets = <<Target(cmd, r, "FromCPU", None)>>]

recvTimingReq(s, c, cmd, r) ==
    LET s0 == IF isRead(cmd) THEN [s EXCEPT !.cpu.window[r] = {s.cpu.current}]
              ELSE s
    IN  CASE isValid(s, c) /\ (IF needsExclusive(cmd) THEN isWritable(s, c)
                               ELSE isReadable(s, c)) ->
               respond(satisfyCpuSideRequest(s0, c, cmd, r), r)
          [] ~isValid(s, c) /\ isLLSC(cmd) /\ isWrite(cmd) -> respond(s0, r)
          [] OTHER -> handleMiss(s0, c, cmd, r)

promoteWholeLineWrites(q) ==
    IF q.cmd = "WriteReq" /\ q.bytes = "line" THEN "WriteInvalidateReq" ELSE q.cmd

\* the next request of the processor of c reaches the cache
accept(s, c) ==
    LET n == s.cpu.issued[c] + 1
    IN  recvTimingReq([s EXCEPT !.cpu.issued[c] = n], c,
                      promoteWholeLineWrites(setup.program[c][n]), Req(c, n))

(***************************************************************************)
(* Cache: snoops.  s.pkt is the packet; from is the cache that sent it.      *)
(***************************************************************************)
Packet(cmd, r, from) ==
    [cmd |-> cmd, req |-> r, from |-> from, shared |-> FALSE,
     inhibit |-> FALSE, supplyExclusive |-> FALSE]

doTimingSupplyResponse(s, c, data, pending_inval) ==
    LET p == s.pkt
        resp == responseCommand(p.cmd)
    IN  [Check(s, "doTimingSupplyResponse", isInvalidate(p.cmd) \/ p.shared)
           EXCEPT !.snoopResp[c] = Append(@,
             [cmd |-> IF resp = "ReadResp" /\ pending_inval
                      THEN "ReadRespWithInvalidate" ELSE resp,
              to |-> p.from, shared |-> p.shared, inhibit |-> p.inhibit,
              data |-> IF isRead(resp) THEN data ELSE {}])]

\* Mutant: a read leaves the owner its write permission.
handleSnoopKeepsWritable(s, c, pending_inval) ==
    LET p == s.pkt
        responds == isDirty(s, c) /\ p.cmd # "WriteInvalidateReq"
        s1 == IF isRead(p.cmd) /\ ~isInvalidate(p.cmd)
              THEN [s EXCEPT !.pkt.shared = TRUE] ELSE s
        s2 == [assertMemInhibit(s1) EXCEPT
                 !.pkt.supplyExclusive = @ \/ isWritable(s, c)]
        s3 == IF responds
              THEN doTimingSupplyResponse(s2, c, s.blk[c].data, pending_inval)
              ELSE s1
    IN  CASE ~isValid(s, c) -> s
          [] isValid(s, c) /\ isInvalidate(p.cmd) -> invalidate(s3, c)
          [] OTHER -> s3

handleSnoop(s, c, pending_inval) ==
    LET p == s.pkt
        responds == isDirty(s, c) /\ p.cmd # "WriteInvalidateReq"
        s1 == IF isRead(p.cmd) /\ ~isInvalidate(p.cmd)
              THEN [clearStatus(s, c, {"Writable"}) EXCEPT !.pkt.shared = TRUE]
              ELSE s
        s2 == [assertMemInhibit(s1) EXCEPT
                 !.pkt.supplyExclusive = @ \/ isWritable(s, c)]
        s3 == IF responds
              THEN doTimingSupplyResponse(s2, c, s.blk[c].data, pending_inval)
              ELSE s1
    IN  CASE ~isValid(s, c) -> s
          [] isValid(s, c) /\ isInvalidate(p.cmd) -> invalidate(s3, c)
          [] OTHER -> s3

\* Mutant: the write buffer is not looked at.
snoopNoWriteBuffer(s, c) == s

\* A snoop that hits a writeback in the write buffer is answered from it, and
\* discards it when it invalidates.
snoopWriteBuffer(s, c) ==
    LET p == s.pkt
        s1 == assertMemInhibit(Check(s, "writebacks.size()", Len(s.wb[c]) = 1))
        s2 == IF needsExclusive(p.cmd)
              THEN Check(s1, "snoop writeback", isInvalidate(p.cmd))
              ELSE [s1 EXCEPT !.pkt.shared = TRUE,
                              !.wb[c][1].supplyExclusive = FALSE]
        s3 == doTimingSupplyResponse(s2, c, s.wb[c][1].data, FALSE)
    IN  IF s.wb[c] = <<>> THEN s
        ELSE IF isInvalidate(p.cmd) THEN [s3 EXCEPT !.wb[c] = Tail(@)] ELSE s3

recvTimingSnoopReq(s, c) ==
    LET s1 == IF Allocated(s, c) THEN handleSnoopPending(s, c) ELSE s
    IN  CASE s.pkt.cmd = "Writeback" -> s
          [] s.mshr[c].inService -> handleSnoopInService(s, c)
          [] OTHER -> handleSnoop(snoopWriteBuffer(s1, c), c, FALSE)

(***************************************************************************)
(* Cache: responses.  temp: allocateBlock found no block to replace.         *)
(***************************************************************************)
handleFill(s, c, p, temp) ==
    LET s1 == IF isValid(s, c) THEN s
              ELSE [Check(s, "handleFill",
                          isRead(p.cmd) \/ p.cmd = "WriteInvalidateReq")
                      EXCEPT !.temp = temp]
        s2 == setStatus(s1, c, {"Valid", "Readable"}
                               \cup (IF p.shared THEN {} ELSE {"Writable"})
                               \cup (IF ~p.shared /\ p.inhibit THEN {"Dirty"}
                                     ELSE {}))
    IN  IF isRead(p.cmd) THEN [s2 EXCEPT !.blk[c].data = p.data] ELSE s2

\* One target of the MSHR, at the response p
serveTarget(s, c, t, p, temp) ==
    LET own == [cmd |-> t.cmd, shared |-> FALSE, inhibit |-> FALSE]
        s1 == IF t.cmd # "WriteInvalidateReq" THEN s
              ELSE [handleFill(mshrHandleFill(s, c, FALSE), c, own, temp)
                      EXCEPT !.fill = TRUE]
        m == s.mshr[c]
    IN  CASE t.source = "FromCPU" /\ s1.fill ->
               respond(satisfyCpuSideRequest(s1, c, t.cmd, t.req), t.req)
          [] t.source = "FromCPU" /\ ~s1.fill ->
               respond(IF isRead(t.cmd) THEN Observe(s1, t.req, t.cmd, {None})
                       ELSE s1, t.req)
          [] t.source = "FromSnoop" ->
               handleSnoop([Check(s, "deferred snoop",
                                  isInvalidate(p.cmd) => m.postInvalidate)
                              EXCEPT !.pkt = Packet(t.cmd, t.req, t.to)],
                           c, m.postInvalidate)

RECURSIVE serveTargets(_, _, _, _)
serveTargets(s, c, p, temp) ==
    IF s.mshr[c].targets = <<>> THEN s
    ELSE LET t == Head(s.mshr[c].targets)
             s1 == serveTarget(s, c, t, p, temp)
         IN  serveTargets([s1 EXCEPT !.mshr[c].targets = Tail(@)], c, p, temp)

\* MSHR::promoteDeferredTargets and markPending, or deallocate
promoteDeferredTargets(s, c) ==
    IF s.mshr[c].deferred = <<>> THEN [s EXCEPT !.mshr[c] = NoMSHR]
    ELSE [clearStatus(s, c, {"Readable"}) EXCEPT
            !.mshr[c] = [NoMSHR EXCEPT !.targets = s.mshr[c].deferred]]

recvTimingResp(s, c, p, temp) ==
    LET isFill == isRead(p.cmd) \/ p.cmd = "UpgradeResp"
        s1 == IF s.port[c].blocked THEN clearBlocked(s, c) ELSE s
        s2 == IF isFill
              THEN [handleFill(mshrHandleFill(s1, c, p.shared), c, p, temp)
                      EXCEPT !.fill = TRUE]
              ELSE s1
        s3 == serveTargets(s2, c, p, temp)
        m == s3.mshr[c]
        s4 == CASE isInvalidate(p.cmd) \/ m.postInvalidate ->
                     IF isValid(s3, c)
                     THEN invalidate(Check(s3, "tempBlock", ~s3.temp), c)
                     ELSE s3
                [] OTHER -> IF m.postDowngrade
                            THEN clearStatus(s3, c, {"Writable"}) ELSE s3
        s5 == promoteDeferredTargets(s4, c)
        s6 == IF isDirty(s5, c) THEN writebackBlk(s5, c) ELSE s5
    IN  IF s5.temp THEN invalidate(s6, c) ELSE s5

(***************************************************************************)
(* SnoopFilter                                                             *)
(***************************************************************************)

\* The caches a request of c is snooped in.
interested(s, c) ==
    IF setup.filter THEN (s.filter.holder \cup s.filter.requested) \ {c}
    ELSE Caches \ {c}

lookupRequest(s, c) ==
    IF ~setup.filter \/ ~needsResponse(s.pkt.cmd) THEN s
    ELSE [Check(s, "double request", c \notin s.filter.requested)
            EXCEPT !.filter.requested = @ \cup {c}]

\* Mutant: a request that will be sent again stays on record.
updateRequestAlways(s, c, will_retry) ==
    IF ~setup.filter \/ needsResponse(s.pkt.cmd) \/ will_retry THEN s
    ELSE [s EXCEPT !.filter.holder = @ \ {c}]

updateRequest(s, c, will_retry) ==
    CASE ~setup.filter -> s
      [] setup.filter /\ will_retry -> [s EXCEPT !.filter.requested = @ \ {c}]
      [] OTHER ->
           IF needsResponse(s.pkt.cmd) THEN s
           ELSE [Check(Check(s, "double request", c \notin s.filter.requested),
                       "not a holder", c \in s.filter.holder)
                   EXCEPT !.filter.holder = @ \ {c}]

\* updateResponse, and updateSnoopResponse when the cache from answers
updateResponse(s, p, from) ==
    LET s1 == Check(s, "missing request", p.to \in s.filter.requested)
        s2 == IF from = None THEN s1
              ELSE Check(Check(s1, "updateSnoopResponse", p.inhibit),
                         "does not have the line", from \in s.filter.holder)
    IN  IF ~setup.filter THEN s
        ELSE [s2 EXCEPT
                !.filter.holder =
                   (IF needsExclusive(p.cmd) \/ ~p.shared THEN {} ELSE @)
                   \cup {p.to},
                !.filter.requested = @ \ {p.to}]

(***************************************************************************)
(* CoherentXBar and the memory                                             *)
(***************************************************************************)
forwardTiming(s, c) ==
    LET dests == SelectSeq(Ports, LAMBDA d : d \in interested(s, c))
    IN  FoldLeft(LAMBDA x, d : recvTimingSnoopReq(x, d), s, dests)

\* SimpleMemory::recvTimingReq, of a request that no cache answers
memAccess(s) ==
    LET p == s.pkt
        resp == responseCommand(p.cmd)
    IN  [s EXCEPT !.mem.queue = Append(@,
           [cmd |-> resp, to |-> p.from, shared |-> p.shared,
            inhibit |-> FALSE,
            data |-> IF isRead(resp) THEN s.mem.data ELSE {}])]

\* Cache::getBusPacket
getBusPacket(s, c) ==
    LET t == Head(s.mshr[c].targets)
        exclusive == listNeedsExclusive(s.mshr[c].targets)
        cmd == CASE isValid(s, c) -> IF isLLSC(t.cmd) THEN "SCUpgradeReq"
                                     ELSE "UpgradeReq"
                 [] ~isValid(s, c) /\ t.cmd = "StoreCondFailReq" ->
                      "SCUpgradeFailReq"
                 [] ~isValid(s, c) /\ t.cmd = "WriteInvalidateReq" -> t.cmd
                 [] OTHER -> IF exclusive THEN "ReadExReq" ELSE "ReadReq"
    IN  [Check(s, "getBusPacket",
               isValid(s, c) => exclusive /\ ~isWritable(s, c))
           EXCEPT !.pkt = Packet(cmd, t.req, c)]

\* The request of the MSHR has been snooped everywhere.
sendMiss(s, c) == LET s1 == getBusPacket(s, c)
                  IN  forwardTiming(lookupRequest(s1, c), c)

\* Mutant: a miss does not look for a writeback of its block.
getNextMSHR_noConflict(c) ==
    (IF wb[c] # <<>> THEN {"write"} ELSE {})
    \cup (IF Allocated(State, c) /\ ~mshr[c].inService THEN {"miss"} ELSE {})

\* What Cache::getNextMSHR may return.  A writeback goes before a miss on its
\* block, except when it was made after the miss and the write buffer is full.
\* (It is never ready before a miss that precedes it.)
getNextMSHR(c) ==
    (IF wb[c] # <<>> THEN {"write"} ELSE {})
    \cup (IF /\ Allocated(State, c) /\ ~mshr[c].inService
             /\ wb[c] # <<>> => setup.full /\ wb[c][1].later
          THEN {"miss"} ELSE {})

\* CacheReqPacketQueue::sendDeferredPacket: a snoop response for the block goes
\* first, and a layer that waits for the memory takes nobody else's request.
CanSend(c, what) ==
    what \in getNextMSHR(c) /\ snoopResp[c] = <<>> /\ peer \in {None, c}

SendMiss(c) ==
    /\ CanSend(c, "miss")
    /\ Become(
        LET s == sendMiss(State, c)
            dirty == ~s.pkt.shared /\ s.pkt.inhibit
            s1 == IF s.pkt.inhibit THEN s ELSE memAccess(s)
        IN  [updateRequest(s1, c, FALSE) EXCEPT
               !.mshr[c] = markInService(@, dirty), !.peer = None])

\* The memory is busy; the snoops have been made all the same.  The retry
\* comes when it is free again, and no other request gets in between.
RefuseMiss(c) ==
    /\ CanSend(c, "miss") /\ peer = None
    /\ ~sendMiss(State, c).pkt.inhibit
    /\ Become([updateRequest(sendMiss(State, c), c, TRUE) EXCEPT !.peer = c])

sendWriteback(s, c) ==
    [Check(s, "getTimingPacket", ~isValid(s, c))
       EXCEPT !.pkt = Packet("Writeback", None, c)]

SendWriteback(c) ==
    /\ CanSend(c, "write")
    /\ Become([updateRequest(sendWriteback(State, c), c, FALSE) EXCEPT
                 !.mem.data = wb[c][1].data, !.wb[c] = Tail(@), !.peer = None])

RefuseWriteback(c) ==
    /\ CanSend(c, "write") /\ peer = None
    /\ Become([updateRequest(sendWriteback(State, c), c, TRUE) EXCEPT !.peer = c])

\* At the retry another block goes first: its writeback if the write buffer is
\* full, its miss if what was refused is a writeback.
RetryOther(c) ==
    /\ peer = c
    /\ setup.full \/ wb[c] # <<>>
    /\ peer' = None
    /\ UNCHANGED <<blk, mshr, wb, snoopResp, port, filter, mem, asserts, setup,
                   cpu>>

\* SimpleMemory::dequeue, CoherentXBar::recvTimingResp
MemResponds ==
    /\ mem.queue # <<>>
    /\ LET p == Head(mem.queue)
           s == [State EXCEPT !.mem.queue = Tail(@)]
       IN  \E temp \in BOOLEAN :
             /\ temp => setup.busy /\ ~isValid(State, p.to)
             /\ Become(recvTimingResp(updateResponse(s, p, None), p.to, p, temp))

\* SnoopRespPacketQueue::sendDeferredPacket, CoherentXBar::recvTimingSnoopResp
CacheResponds(c) ==
    /\ snoopResp[c] # <<>>
    /\ LET p == Head(snoopResp[c])
           s == [Check(State, "recvTimingSnoopResp", p.to # c)
                   EXCEPT !.snoopResp[c] = Tail(@)]
       IN  \E temp \in BOOLEAN :
             /\ temp => setup.busy /\ ~isValid(State, p.to)
             /\ Become(recvTimingResp(updateResponse(s, p, c), p.to, p, temp))

\* Cache::allocateBlock for another block picks this one as its victim.
Evict(c) ==
    /\ isValid(State, c)
    /\ Become(
        CASE Allocated(State, c) ->
               Check(State, "allocateBlock",
                     /\ isWritable(State, c) => isDirty(State, c)
                     /\ listNeedsExclusive(mshr[c].targets))
          [] ~Allocated(State, c) /\ isDirty(State, c) ->
               invalidate(writebackBlk(State, c), c)
          [] OTHER -> invalidate(State, c))

\* The processor of c has a request to make; a store conditional waits for what
\* precedes it.
CanIssue(c) ==
    LET n == cpu.issued[c] + 1
    IN  /\ n <= Len(setup.program[c]) /\ ~cpu.waiting[c]
        /\ setup.program[c][n].cmd = "StoreCondReq" =>
             \A i \in 1..(n - 1) : Req(c, i) \in cpu.answered

\* CpuSidePort::recvTimingReq
CpuRequest(c) ==
    /\ CanIssue(c)
    /\ Become(IF port[c].blocked \/ port[c].mustSendRetry
              THEN [State EXCEPT !.port[c].mustSendRetry = TRUE,
                                 !.cpu.waiting[c] = TRUE]
              ELSE accept(State, c))

\* CacheSlavePort::processSendRetry; the processor sends the request again
SendRetry(c) ==
    /\ port[c].retryEvent
    /\ Become(accept([State EXCEPT !.port[c].retryEvent = FALSE,
                                   !.port[c].mustSendRetry = FALSE,
                                   !.cpu.waiting[c] = FALSE], c))

Requests == UNION {{Req(c, i) : i \in 1..Len(setup.program[c])} : c \in Caches}

\* Nothing is left to do.
Quiet ==
    /\ cpu.answered = Requests
    /\ mem.queue = <<>>
    /\ \A c \in Caches : /\ snoopResp[c] = <<>> /\ wb[c] = <<>>
                         /\ mshr[c] = NoMSHR

\* The simulator serves events of other blocks.
OtherEvents == UNCHANGED vars

Init ==
    /\ setup \in Setups
    /\ blk = [c \in Caches |-> Invalid]
    /\ mshr = [c \in Caches |-> NoMSHR]
    /\ wb = [c \in Caches |-> <<>>]
    /\ snoopResp = [c \in Caches |-> <<>>]
    /\ port = [c \in Caches |-> [blocked |-> FALSE, mustSendRetry |-> FALSE,
                                 retryEvent |-> FALSE]]
    /\ peer = None
    /\ filter = [requested |-> {}, holder |-> {}]
    /\ mem = [data |-> {}, queue |-> <<>>]
    /\ asserts = {}
    /\ cpu = [issued |-> [c \in Caches |-> 0],
              waiting |-> [c \in Caches |-> FALSE], answered |-> {},
              current |-> {}, window |-> [r \in Requests |-> {}], stale |-> {},
              link |-> [c \in Caches |-> {}], unlinked |-> {}]

Next ==
    \/ \E c \in Caches :
         \/ CpuRequest(c) \/ SendRetry(c) \/ Evict(c)
         \/ SendMiss(c) \/ RefuseMiss(c)
         \/ SendWriteback(c) \/ RefuseWriteback(c) \/ RetryOther(c)
         \/ CacheResponds(c)
    \/ MemResponds
    \/ OtherEvents

\* An event is scheduled: a processor has a request to send, a retry or a
\* response is due, or a port may send.
EventScheduled ==
    \/ mem.queue # <<>>
    \/ \E c \in Caches :
         \/ CanIssue(c) \/ port[c].retryEvent \/ snoopResp[c] # <<>>
         \/ \E what \in {"miss", "write"} : CanSend(c, what)

\* A request, a writeback or a response has been taken.
Served ==
    \/ <<cpu, mem, wb, snoopResp>>' # <<cpu, mem, wb, snoopResp>>
    \/ \E c \in Caches : mshr'[c].inService # mshr[c].inService

\* The event queue serves what is scheduled, and the memory that refuses a
\* request has it retried when it is free again.
Fairness == <>[]EventScheduled => []<><<Served>>_vars

Spec == Init /\ [][Next]_vars /\ Fairness

(***************************************************************************)
(* Properties                                                              *)
(***************************************************************************)

\* Every variable has its type, and a list of targets that the MSHR defers
\* stands behind one it serves (MSHR::allocateTarget, promoteDeferredTargets).
TypeOK ==
    /\ \A c \in Caches :
         /\ blk[c].status \subseteq {"Valid", "Readable", "Writable", "Dirty"}
         /\ blk[c].data \subseteq Requests /\ blk[c].locked \in BOOLEAN
         /\ mshr[c].deferred # <<>> => mshr[c].targets # <<>>
         /\ \A i \in DOMAIN wb[c] : wb[c][i].data \subseteq Requests
         /\ \A i \in DOMAIN snoopResp[c] : snoopResp[c][i].to \in Caches
         /\ port[c] \in [blocked : BOOLEAN, mustSendRetry : BOOLEAN,
                         retryEvent : BOOLEAN]
    /\ peer \in Caches \cup {None}
    /\ filter.holder \subseteq Caches /\ filter.requested \subseteq Caches
    /\ mem.data \subseteq Requests
    /\ setup \in Setups /\ cpu.answered \subseteq Requests

\* The state is well formed, and no assertion of the caches and no panic of the snoop filter is ever hit: no
\* two caches answer a snoop (assertMemInhibit), a miss that finds the block
\* finds it without write permission, the writeback being sent has left the
\* cache, the filter knows the holder that answers and the request it answers.
NoAssertionFails == TypeOK /\ asserts = {}

\* A block that one cache may write is valid in no other, in spite of snoops
\* that are deferred behind a miss in service (MSHR::handleSnoop,
\* Cache::handleSnoop).
SingleWriter ==
    \A c, d \in Caches : c # d /\ isWritable(State, c) => ~isValid(State, d)

\* A read returns contents that were the latest at some time between the
\* request and the answer, wherever they were: in the memory, in a cache, in a
\* writeback, or in a cache whose own miss is not answered yet.
ReadsAreCurrent == cpu.stale = {}

\* A store conditional that succeeds finds the word its load locked returned
\* (CacheBlk::checkWrite, MSHR::replaceUpgrades): no other write to it was
\* performed between the two.
StoreConditionalsAreAtomic == cpu.unlinked = {}

\* The processors see one memory: reads are current and store conditionals
\* atomic, wherever the block is (access, handleResponse, snoop).
AccessesAreAtomic == ReadsAreCurrent /\ StoreConditionalsAreAtomic

\* When everything has come to rest the dirty copy holds all writes that were
\* performed, and the memory does if there is none: no writeback and no snoop
\* lost one (Cache::writebackBlk, handleSnoop, getNextMSHR).
NoLostWrite ==
    Quiet => IF \E c \in Caches : isDirty(State, c)
             THEN \A c \in Caches : isDirty(State, c) => blk[c].data = cpu.current
             ELSE mem.data = cpu.current

\* The answers to c on their way: in the memory's queue, in the queue of a cache
\* that was snooped, or promised by one whose own miss is in service.
Answers(c) ==
    {<<"memory", i>> : i \in {j \in DOMAIN mem.queue : mem.queue[j].to = c}}
    \cup UNION {{<<d, i>> : i \in {j \in DOMAIN snoopResp[d] :
                                     snoopResp[d][j].to = c}} : d \in Caches}
    \cup UNION {{<<d, -i>> : i \in {j \in DOMAIN mshr[d].targets :
                                      /\ mshr[d].pendingDirty
                                      /\ mshr[d].targets[j].to = c}} :
                 d \in Caches}

\* A miss in service has exactly one answer on its way, and nobody else has one:
\* whoever inhibits the memory (Packet::assertMemInhibit) "need[s] to respond
\* after we receive data" (MSHR::handleSnoop), and only then.
OneAnswerEach ==
    \A c \in Caches : Cardinality(Answers(c)) = IF mshr[c].inService THEN 1 ELSE 0

\* Every request of every processor is answered, also one that was refused
\* because the MSHR had no target left, or deferred behind snoops
\* (BaseCache::clearBlocked, MSHR::promoteDeferredTargets).
EveryRequestAnswered == <>[](cpu.answered = Requests)
=============================================================================

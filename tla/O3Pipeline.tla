---------------------------- MODULE O3Pipeline ----------------------------
(***************************************************************************)
(* The pipeline of the out of order processor (cpu/o3) for one thread:       *)
(* fetch, decode, rename, issue/execute/writeback (IEW) with the instruction *)
(* queue and the load queue, and commit with the reorder buffer (ROB).        *)
(*                                                                         *)
(* FullO3CPU::tick calls the five stages in this order and then advances the *)
(* time buffers: what a stage writes in a cycle is read in the next one       *)
(* (instructions go from rename to IEW in two).  So a cycle is one step, the  *)
(* stages are functions from a processor state s, a record of the variables   *)
(* and of the wires written this cycle (out), to the state they leave.        *)
(*                                                                         *)
(* What depends on the caches, the predictor and the functional units is a    *)
(* choice: how many instructions fetch supplies and which of the instructions *)
(* issued are executed in this cycle.  A branch is one that was mispredicted: *)
(* fetch goes on along the wrong path.  A value is the instruction that       *)
(* computed it.                                                              *)
(***************************************************************************)
EXTENDS RenameMap, FiniteSets, SequencesExt

CONSTANTS
    Setups,          \* the programs: records of the instructions of the program
                     \* and of the wrong path, each [kind, dst, src]
    Width,           \* fetch, decode, rename, dispatch and commitWidth
    SquashWidth,     \* instructions the ROB squashes in a cycle
    NumROB, NumIQ, NumLQ, \* the sizes of the ROB, the IQ and the load queue
    None             \* no register

(***************************************************************************)
(* fetch    the next pc, Squashing or Running, stalls.decode               *)
(* decode   decodeStatus, stalls.rename, insts, skidBuffer                 *)
(* rename   renameStatus, stalls.iew, insts, skidBuffer, serializeInst (0:    *)
(*          none), resumeSerialize, serializeOnNextInst, the counts of        *)
(*          instructions in progress and of free entries, emptyROB         *)
(* iew      dispatchStatus, insts, skidBuffer, exeStatus = Running,           *)
(*          updateLSQNextCycle; the instructions that count in the IQ, those  *)
(*          of nonSpecInsts, those being executed, the load queue            *)
(* commit   commitStatus, the ROB with squashIt (0: end), squashedSeqNum and   *)
(*          doneSquashing, trapSquash, whether a TrapEvent is scheduled,      *)
(*          checkEmptyROB, youngestSeqNum, lastCommitedSeqNum, pc, and the    *)
(*          faults that were handled                                        *)
(* inst     the instructions by sequence number: pc, renamed registers,       *)
(*          the value read, status bits; Gone once nobody refers to it       *)
(* file     the values of the physical registers, and the scoreboards of      *)
(*          rename and of the IQ (regScoreboard)                            *)
(* wire     what the stages wrote to the time buffers                        *)
(* log      the instructions committed, with the value each read            *)
(* asserts  the assertions and panics of the code that were hit            *)
(***************************************************************************)
VARIABLES setup, fetch, decode, rename, iew, commit, inst, file, wire, log, asserts

vars == <<setup, fetch, decode, rename, regs, iew, commit, inst, file, wire, log, asserts>>

\* A pc: whether on the path of the program, and the position on it.
code(pc) == IF pc.right THEN setup.program[pc.pos] ELSE setup.wrong[pc.pos]
onPath(pc) == pc.pos <= Len(IF pc.right THEN setup.program ELSE setup.wrong)
advancePC(pc) == [pc EXCEPT !.pos = @ + 1]
predict(pc) ==
    IF pc.right /\ code(pc).kind = "branch" THEN [right |-> FALSE, pos |-> 1]
    ELSE advancePC(pc)

Gone == [pc |-> None, src |-> None, dst |-> None, read |-> None, status |-> {}]

CommitInfo ==
    [squash |-> FALSE, robSquashing |-> FALSE, doneSeqNum |-> 0,
     usedROB |-> FALSE, freeROBEntries |-> 0, emptyROB |-> FALSE,
     nonSpecSeqNum |-> 0, pc |-> None]

IewInfo ==
    [block |-> FALSE, unblock |-> FALSE, dispatched |-> 0, dispatchedToLQ |-> 0,
     usedIQ |-> FALSE, freeIQEntries |-> 0, freeLQEntries |-> 0]

Signals == [block |-> FALSE, unblock |-> FALSE]

\* A slot of the time buffers.
TimeStruct ==
    [decode |-> Signals, rename |-> Signals, iew |-> IewInfo,
     commit |-> CommitInfo, toDecode |-> <<>>, toRename |-> <<>>,
     toIEW |-> <<>>, toIEWOld |-> <<>>,
     toCommit |-> [insts |-> {}, squash |-> FALSE, squashedSeqNum |-> 0,
                   pc |-> None]]

State ==
    [fetch |-> fetch, decode |-> decode, rename |-> rename, regs |-> regs,
     iew |-> iew, commit |-> commit, inst |-> inst, file |-> file, log |-> log,
     asserts |-> asserts, out |-> TimeStruct, changed |-> FALSE,
     blockThisCycle |-> FALSE, updatedQueues |-> FALSE]

Check(s, what, cond) ==
    IF cond THEN s ELSE [s EXCEPT !.asserts = @ \cup {what}]

kind(s, sn) == code(s.inst[sn].pc).kind
isNonSpeculative(s, sn) == kind(s, sn) \in {"serial", "nonSpec"}
has(s, sn, bit) == bit \in s.inst[sn].status
set(s, sns, bits) ==
    [s EXCEPT !.inst = [sn \in DOMAIN @ |->
        IF sn \in sns THEN [@[sn] EXCEPT !.status = @ \cup bits] ELSE @[sn]]]
clear(s, sn, bits) == [s EXCEPT !.inst[sn].status = @ \ bits]

Elements(q) == {q[i] : i \in DOMAIN q}
Squashed(s, q) == {sn \in Elements(q) : has(s, sn, "Squashed")}

\* skidInsert of the three stages.
skidInsert(s, stage, max) ==
    LET t == [s EXCEPT ![stage].skidBuffer = @ \o s[stage].insts,
                       ![stage].insts = <<>>]
    IN Check(t, <<stage, "skidBufferMax">>, Len(t[stage].skidBuffer) <= max)

(***************************************************************************)
(* Fetch                                                                   *)
(***************************************************************************)
\* The instructions in no entry of the ROB are squashed.
removeInstsNotInROB(s) ==
    LET tail == IF s.commit.rob = <<>> THEN 0 ELSE Last(s.commit.rob)
    IN set(s, {sn \in DOMAIN s.inst : sn > tail /\ s.inst[sn] # Gone},
           {"Squashed"})

fetchSignals(s) ==
    LET d == wire.decode
        t == Check(Check([s EXCEPT !.fetch.stalled =
                              (@ \/ d.block) /\ ~d.unblock],
                         "stalls.decode", d.unblock => s.fetch.stalled \/ d.block),
                   "decodeBlock", ~(d.unblock /\ d.block))
    IN IF wire.commit.squash
       THEN removeInstsNotInROB([t EXCEPT !.fetch.pc = wire.commit.pc,
                                          !.fetch.status = "Squashing"])
       ELSE [t EXCEPT !.fetch.status = "Running"]

\* The next instruction of the fetch queue goes to decode.
fetchInst(s) ==
    [s EXCEPT !.inst = Append(@, [Gone EXCEPT !.pc = s.fetch.pc]),
              !.out.toDecode = Append(@, Len(s.inst) + 1),
              !.fetch.pc = predict(@)]

RECURSIVE fetchInsts(_, _)
fetchInsts(s, n) ==
    IF n = 0 \/ ~onPath(s.fetch.pc) THEN s ELSE fetchInsts(fetchInst(s), n - 1)

fetchTick(s, n) ==
    LET t == fetchSignals(s)
    IN IF t.fetch.status = "Squashing" \/ t.fetch.stalled THEN t
       ELSE fetchInsts(t, n)

(***************************************************************************)
(* Decode                                                                  *)
(***************************************************************************)
\* Mutant: fetch is not told to stop.
MutDecodeBlockSilent(s) ==
    [skidInsert(s, "decode", 2 * Width) EXCEPT !.decode.status = "Blocked"]

decodeBlock(s) ==
    LET t == skidInsert(s, "decode", 2 * Width)
    IN IF t.decode.status = "Blocked" THEN t
       ELSE [t EXCEPT !.decode.status = "Blocked",
                      !.out.decode = IF @.unblock
                                     THEN [@ EXCEPT !.unblock = FALSE]
                                     ELSE [@ EXCEPT !.block = TRUE]]

decodeUnblock(s) ==
    IF s.decode.skidBuffer # <<>> THEN s
    ELSE [s EXCEPT !.out.decode.unblock = TRUE, !.decode.status = "Running"]

decodeSquash(s) ==
    set([s EXCEPT !.out.decode.unblock =
                      @ \/ s.decode.status \in {"Blocked", "Unblocking"},
                  !.decode.status = "Squashing", !.decode.insts = <<>>,
                  !.decode.skidBuffer = <<>>],
        Elements(wire.toDecode), {"Squashed"})

decodeSignals(s) ==
    LET r == wire.rename
        t == Check([s EXCEPT !.decode.stalled = (@ \/ r.block) /\ ~r.unblock],
                   "stalls.rename", r.unblock => s.decode.stalled \/ r.block)
    IN CASE wire.commit.squash -> decodeSquash(t)
         [] ~wire.commit.squash /\ t.decode.stalled -> decodeBlock(t)
         [] OTHER ->
              CASE t.decode.status = "Blocked" ->
                     decodeUnblock([t EXCEPT !.decode.status = "Unblocking"])
                [] t.decode.status = "Squashing" ->
                     [t EXCEPT !.decode.status = "Running"]
                [] OTHER -> t

\* Squashed instructions are skipped; at most Width others go to rename.
decodeInsts(s) ==
    LET from == IF s.decode.status = "Unblocking" THEN "skidBuffer" ELSE "insts"
        q == s.decode[from]
        valid(n) == SelectSeq(SubSeq(q, 1, n), LAMBDA sn : ~has(s, sn, "Squashed"))
        n == CHOOSE n \in 0..Len(q) :
               /\ n = 0 \/ Len(valid(n - 1)) < Width
               /\ n = Len(q) \/ Len(valid(n)) = Width
        t == [s EXCEPT !.decode[from] = SubSeq(q, n + 1, Len(q)),
                       !.out.toRename = valid(n)]
    IN IF t.decode[from] = <<>> THEN t ELSE decodeBlock(t)

decodeTick(s) ==
    LET t == decodeSignals([s EXCEPT !.decode.insts = @ \o wire.toDecode])
        u == decodeInsts(Check(t, "skidsEmpty", t.decode.skidBuffer # <<>>))
    IN CASE t.decode.status \in {"Running", "Idle"} -> decodeInsts(t)
         [] t.decode.status = "Unblocking" ->
              decodeUnblock(IF wire.toDecode = <<>> THEN u
                            ELSE skidInsert(u, "decode", 2 * Width))
         [] OTHER -> t

(***************************************************************************)
(* Rename                                                                  *)
(***************************************************************************)
renameBlock(s) ==
    LET t == skidInsert(s, "rename", 2 * Width)
        u == IF t.rename.status \in {"Blocked", "Unblocking"} THEN t
             ELSE [t EXCEPT !.out.rename = [block |-> TRUE, unblock |-> FALSE]]
    IN IF u.rename.status = "SerializeStall" THEN u
       ELSE [u EXCEPT !.rename.status = "Blocked"]

renameUnblock(s) ==
    IF s.rename.skidBuffer # <<>> \/ s.rename.status = "SerializeStall" THEN s
    ELSE [s EXCEPT !.out.rename.unblock = TRUE, !.rename.status = "Running"]

RECURSIVE doSquash(_, _), removeFromHistory(_, _)
doSquash(r, sn) ==
    IF r.history # <<>> /\ Head(r.history).instSeqNum > sn
    THEN doSquash(undoRename(r), sn) ELSE r

removeFromHistory(r, sn) ==
    IF r.history # <<>> /\ Last(r.history).instSeqNum <= sn
    THEN removeFromHistory(commitRename(r), sn) ELSE r

\* Mutant: a squash ends the block of rename and decode is not told.
MutSquashKeepsBlock(s) ==
    LET sn == wire.commit.doneSeqNum
        stays == s.rename.status = "SerializeStall" /\ s.rename.serializeInst <= sn
    IN set([s EXCEPT
              !.rename = [s.rename EXCEPT
                            !.status = "Squashing", !.insts = <<>>,
                            !.skidBuffer = <<>>, !.resumeSerialize = stays,
                            !.serializeInst = IF stays THEN @ ELSE 0],
              !.regs = doSquash(@, sn)],
           {i \in Elements(wire.toRename) : i > sn}, {"Squashed"})

renameSquash(s) ==
    LET sn == wire.commit.doneSeqNum
        r == s.rename
        stays == r.status = "SerializeStall" /\ r.serializeInst <= sn
        resume == IF r.status \in {"Blocked", "Unblocking", "SerializeStall"}
                  THEN stays ELSE r.resumeSerialize
        serial == IF r.status \in {"Blocked", "Unblocking", "SerializeStall"}
                     /\ ~stays
                  THEN 0 ELSE r.serializeInst
    IN set([s EXCEPT
              !.out.rename.unblock =
                  @ \/ (r.status \in {"Blocked", "Unblocking", "SerializeStall"}
                        /\ ~stays),
              !.rename = [r EXCEPT !.status = "Squashing", !.insts = <<>>,
                                   !.skidBuffer = <<>>, !.serializeInst = serial,
                                   !.resumeSerialize = resume],
              !.regs = doSquash(@, sn)],
           {i \in Elements(wire.toRename) : i > sn}, {"Squashed"})

calcFreeROBEntries(s) ==
    s.rename.free.rob - (s.rename.instsInProgress - wire.iew.dispatched)
calcFreeIQEntries(s) ==
    s.rename.free.iq - (s.rename.instsInProgress - wire.iew.dispatched)
calcFreeLQEntries(s) ==
    s.rename.free.lq - (s.rename.loadsInProgress - wire.iew.dispatchedToLQ)

\* Mutant: the instructions on the way from rename to the ROB are forgotten.
MutSerializeEarly(s) ==
    \/ s.rename.stalled
    \/ calcFreeROBEntries(s) <= 0
    \/ calcFreeIQEntries(s) <= 0
    \/ numFreeRegs(s.regs) <= 0
    \/ s.rename.status = "SerializeStall" /\ ~s.rename.emptyROB

\* A store queue that is never full lets rename go on without a load entry.
renameCheckStall(s) ==
    \/ s.rename.stalled
    \/ calcFreeROBEntries(s) <= 0
    \/ calcFreeIQEntries(s) <= 0
    \/ numFreeRegs(s.regs) <= 0
    \/ /\ s.rename.status = "SerializeStall"
       /\ ~s.rename.emptyROB \/ s.rename.instsInProgress # 0

readFreeEntries(s) ==
    LET i == wire.iew
        c == wire.commit
    IN [s EXCEPT !.rename.free =
                   [rob |-> IF c.usedROB THEN c.freeROBEntries ELSE @.rob,
                    iq |-> IF i.usedIQ THEN i.freeIQEntries ELSE @.iq,
                    lq |-> IF i.usedIQ THEN i.freeLQEntries ELSE @.lq],
                 !.rename.emptyROB = IF c.usedROB THEN c.emptyROB ELSE @]

\* The stall of a serializing instruction is over: it goes first.
endSerializeStall(s) ==
    LET t == renameUnblock([s EXCEPT !.rename.status = "Unblocking"])
        to == IF t.rename.skidBuffer # <<>> THEN "skidBuffer" ELSE "insts"
    IN clear([t EXCEPT !.rename[to] = <<s.rename.serializeInst>> \o @,
                       !.rename.serializeInst = 0],
             s.rename.serializeInst, {"SerializeBefore"})

renameSignals(s) ==
    LET i == wire.iew
        t == Check([readFreeEntries(s) EXCEPT
                        !.rename.stalled = (@ \/ i.block) /\ ~i.unblock],
                   "stalls.iew", i.unblock => s.rename.stalled \/ i.block)
        status == t.rename.status
    IN IF wire.commit.squash THEN renameSquash(t)
       ELSE IF renameCheckStall(t) THEN renameBlock(t)
       ELSE CASE status = "Blocked" ->
                   renameUnblock([t EXCEPT !.rename.status = "Unblocking"])
              [] status = "Squashing" ->
                   [t EXCEPT !.rename.status = IF t.rename.resumeSerialize
                                               THEN "SerializeStall"
                                               ELSE "Running"]
              [] status = "SerializeStall" -> endSerializeStall(t)
              [] OTHER -> t

isSerializeBefore(s, sn) ==
    kind(s, sn) = "serial" \/ has(s, sn, "SerializeBefore")

\* renameSrcRegs and renameDestRegs; the instruction goes to IEW and the ROB.
renameInst(s, sn) ==
    LET c == code(s.inst[sn].pc)
        src == IF c.src = None THEN None ELSE s.regs.map[c.src]
        ready == src = None \/ src \in s.file.scoreboard
        t == set([s EXCEPT !.inst[sn].src = src,
                           !.out.toIEW = Append(@, sn),
                           !.rename.instsInProgress = @ + 1,
                           !.rename.loadsInProgress =
                               IF c.kind = "load" THEN @ + 1 ELSE @],
                 {sn}, IF ready THEN {"SrcReady"} ELSE {})
        dst == Head(s.regs.free)
    IN IF c.dst = None THEN t
       ELSE [t EXCEPT !.inst[sn].dst = dst, !.file.scoreboard = @ \ {dst},
                      !.regs = renameReg(@, c.dst, sn)]

\* serializeAfter: the next instruction in the queue, or the next to come.
serializeAfter(s, from) ==
    IF s.rename[from] = <<>> THEN [s EXCEPT !.rename.serializeOnNextInst = TRUE]
    ELSE set(s, {Head(s.rename[from])}, {"SerializeBefore"})

\* The loop of renameInsts; it leaves blockThisCycle set if it stops early.
RECURSIVE renameLoop(_, _, _)
renameLoop(s, from, available) ==
    LET q == s.rename[from]
        sn == Head(q)
        popped == [s EXCEPT !.rename[from] = Tail(q)]
        stop(t) == [t EXCEPT !.blockThisCycle = TRUE]
        serialized == set(popped, {sn}, {"SerializeHandled"})
    IN IF available = 0 THEN s
       ELSE IF Len(s.out.toIEW) = Width THEN stop(s)
       ELSE IF kind(s, sn) = "load" /\ calcFreeLQEntries(s) <= 0 THEN stop(s)
       ELSE IF has(s, sn, "Squashed") THEN renameLoop(popped, from, available - 1)
       ELSE IF code(s.inst[sn].pc).dst # None /\ numFreeRegs(s.regs) = 0
       THEN stop(s)
       ELSE IF isSerializeBefore(s, sn) /\ ~has(s, sn, "SerializeHandled")
       THEN stop([IF has(s, sn, "SerializeBefore") THEN popped ELSE serialized
                    EXCEPT !.rename.status = "SerializeStall",
                           !.rename.serializeInst = sn])
       ELSE renameLoop(renameInst(IF kind(s, sn) = "after"
                                     /\ ~has(s, sn, "SerializeHandled")
                                  THEN serializeAfter(serialized, from)
                                  ELSE popped, sn),
                       from, available - 1)

renameInsts(s) ==
    LET from == IF s.rename.status = "Unblocking" THEN "skidBuffer" ELSE "insts"
        q == s.rename[from]
        room == Min({calcFreeROBEntries(s), calcFreeIQEntries(s)})
        alone == s.rename.emptyROB /\ s.rename.instsInProgress = 0
        t == [s EXCEPT !.blockThisCycle = room < Len(q)]
        u == IF ~t.rename.serializeOnNextInst THEN t
             ELSE IF alone THEN [t EXCEPT !.rename.serializeOnNextInst = FALSE]
             ELSE set(t, {Head(q)}, {"SerializeBefore"})
        done == renameLoop(u, from, Min({room, Len(q)}))
    IN IF q = <<>> THEN s
       ELSE IF room <= 0 THEN renameBlock([s EXCEPT !.blockThisCycle = TRUE])
       ELSE IF ~done.blockThisCycle THEN done
       ELSE [renameBlock(done) EXCEPT !.out.rename.unblock = FALSE]

renameStage(s) ==
    CASE s.rename.status \in {"Running", "Idle"} -> renameInsts(s)
      [] s.rename.status = "Unblocking" ->
           LET t == renameInsts(s)
           IN renameUnblock(IF Elements(wire.toRename) = Squashed(t, wire.toRename)
                            THEN t ELSE skidInsert(t, "rename", 2 * Width))
      [] s.rename.status = "SerializeStall" /\ s.rename.resumeSerialize ->
           [renameBlock([s EXCEPT !.rename.resumeSerialize = FALSE])
              EXCEPT !.out.rename.unblock = FALSE]
      [] OTHER -> s

renameTick(s) ==
    LET t == renameStage(renameSignals(
                 [s EXCEPT !.rename.insts = @ \o wire.toRename]))
        done == wire.commit.doneSeqNum
        u == [t EXCEPT
                !.regs = IF done # 0 /\ ~wire.commit.squash
                            /\ t.rename.status # "Squashing"
                         THEN removeFromHistory(@, done) ELSE @,
                !.rename.instsInProgress = @ - wire.iew.dispatched,
                !.rename.loadsInProgress = @ - wire.iew.dispatchedToLQ]
    IN Check(u, "instsInProgress", /\ u.rename.instsInProgress >= 0
                                   /\ u.rename.loadsInProgress >= 0)

(***************************************************************************)
(* IEW: dispatch, the instruction queue, execution                           *)
(***************************************************************************)
\* The instructions of queue q have been dealt with, for rename's counts.
dispatched(s, q) ==
    [s EXCEPT !.out.iew.dispatched = @ + Len(q),
              !.out.iew.dispatchedToLQ =
                  @ + Len(SelectSeq(q, LAMBDA sn : kind(s, sn) = "load"))]

emptyRenameInsts(s) == [dispatched(s, s.iew.insts) EXCEPT !.iew.insts = <<>>]

\* InstructionQueue::doSquash: an instruction that was issued stays with the
\* functional unit, and only the ROB marks it.
iqSquash(s, num) ==
    LET gone == {sn \in s.iew.iq : sn > num}
        t == Check(s, "nonSpecInsts",
                   \A sn \in gone : isNonSpeculative(s, sn) => sn \in s.iew.nonSpec)
    IN set([t EXCEPT !.iew.iq = @ \ gone, !.iew.nonSpec = @ \ gone],
           gone, {"Squashed", "Issued", "CanCommit"})

\* LSQUnit::squash
lsqSquash(s, num) ==
    LET gone == {sn \in s.iew.loads : sn > num}
    IN set([s EXCEPT !.iew.loads = @ \ gone], gone, {"Squashed"})

iewSquash(s) ==
    LET num == wire.commit.doneSeqNum
        t == lsqSquash(iqSquash(s, num), num)
        u == dispatched(t, t.iew.skidBuffer)
    IN emptyRenameInsts([u EXCEPT !.iew.skidBuffer = <<>>, !.updatedQueues = TRUE])

iewBlock(s) ==
    LET t == [s EXCEPT !.out.iew.block =
                  @ \/ s.iew.status \notin {"Blocked", "Unblocking"}]
    IN [skidInsert(t, "iew", 3 * Width) EXCEPT !.iew.status = "Blocked"]

iewUnblock(s) ==
    IF s.iew.skidBuffer # <<>> THEN s
    ELSE [s EXCEPT !.out.iew.unblock = TRUE, !.iew.status = "Running"]

iqFull(s) == Cardinality(s.iew.iq) = NumIQ
lqFull(s) == Cardinality(s.iew.loads) = NumLQ

iewCheckStall(s) == wire.commit.robSquashing \/ iqFull(s)

iewSignals(s) ==
    LET status == s.iew.status
        t == IF ~wire.commit.robSquashing THEN s
             ELSE emptyRenameInsts([s EXCEPT !.iew.status = "Squashing"])
    IN IF wire.commit.squash
       THEN [iewSquash(s) EXCEPT !.out.iew.unblock =
                                     status \in {"Blocked", "Unblocking"},
                                 !.iew.status = "Squashing"]
       ELSE IF iewCheckStall(t) THEN iewBlock(t)
       ELSE CASE t.iew.status = "Blocked" ->
                   iewUnblock([t EXCEPT !.iew.status = "Unblocking"])
              [] t.iew.status = "Squashing" -> [t EXCEPT !.iew.status = "Running"]
              [] OTHER -> t

\* The operand is ready if it was when renamed, or became so on the way.
srcReady(s, sn) ==
    has(s, sn, "SrcReady") \/ s.inst[sn].src \in s.file.regScoreboard

\* insert or insertNonSpec: dependGraph holds the instructions of the queue
\* that wait for a register.
iqInsert(s, sn) ==
    LET dst == s.inst[sn].dst
        nonSpec == isNonSpeculative(s, sn)
        t == Check(s, "dependGraph",
                   \A i \in s.iew.iq : s.inst[i].src = dst /\ dst # None =>
                       has(s, i, "SrcReady") \/ i \in s.iew.nonSpec)
        u == Check(t, "freeEntries", ~iqFull(s))
    IN set([u EXCEPT !.iew.iq = @ \cup {sn},
                     !.iew.nonSpec = IF nonSpec THEN @ \cup {sn} ELSE @,
                     !.file.regScoreboard = @ \ {dst}],
           {sn}, IF nonSpec THEN {"CanCommit"}
                 ELSE IF srcReady(s, sn) THEN {"SrcReady"} ELSE {})

\* The loop of dispatchInsts.
RECURSIVE dispatchLoop(_, _, _)
dispatchLoop(s, from, n) ==
    LET q == s.iew[from]
        sn == Head(q)
        popped == [dispatched(s, <<sn>>) EXCEPT !.iew[from] = Tail(q)]
    IN IF n = 0 \/ q = <<>> THEN s
       ELSE IF has(s, sn, "Squashed") THEN dispatchLoop(popped, from, n - 1)
       ELSE IF iqFull(s) \/ (kind(s, sn) = "load" /\ lqFull(s)) THEN s
       ELSE dispatchLoop(
              iqInsert(IF kind(s, sn) = "load"
                       THEN [popped EXCEPT !.iew.loads = @ \cup {sn}]
                       ELSE popped, sn), from, n - 1)

\* A stop in the loop for a full queue blocks as the end of dispatchInsts does.
dispatchInsts(s) ==
    LET from == IF s.iew.status = "Unblocking" THEN "skidBuffer" ELSE "insts"
        t == dispatchLoop(s, from, Width)
    IN IF t.iew[from] = <<>> THEN t
       ELSE [iewBlock(t) EXCEPT !.out.iew.unblock = FALSE]

dispatch(s) ==
    CASE s.iew.status = "Running" -> dispatchInsts(s)
      [] s.iew.status = "Unblocking" ->
           LET t == dispatchInsts(Check(s, "iew skidsEmpty",
                                        s.iew.skidBuffer # <<>>))
           IN iewUnblock(IF Elements(wire.toIEWOld) = Squashed(t, wire.toIEWOld)
                         THEN t ELSE skidInsert(t, "iew", 3 * Width))
      [] OTHER -> s

faults(s, sn) == kind(s, sn) = "fault" /\ s.inst[sn].pc \notin s.commit.handled

\* squashDueToBranch: the oldest branch of the cycle wins.
squashDueToBranch(s, sn) ==
    IF s.out.toCommit.squash /\ sn >= s.out.toCommit.squashedSeqNum THEN s
    ELSE [s EXCEPT !.out.toCommit.squash = TRUE,
                   !.out.toCommit.squashedSeqNum = sn,
                   !.out.toCommit.pc = advancePC(s.inst[sn].pc)]

\* The body of the loop of executeInsts, and what writebackInsts does for the
\* instruction: wakeDependents, setReg.
execute(s, sn) ==
    LET i == s.inst[sn]
        t == set([s EXCEPT !.iew.executing = @ \ {sn}], {sn}, {"Executed"})
        u == [t EXCEPT !.out.toCommit.insts = @ \cup {sn},
                       !.inst[sn].read = IF i.src = None THEN None
                                         ELSE s.file.value[i.src]]
        v == [u EXCEPT !.iew.iq = @ \ {sn}]
        w == set([v EXCEPT !.file.value[i.dst] = i.pc,
                           !.file.scoreboard = @ \cup {i.dst},
                           !.file.regScoreboard = @ \cup {i.dst}],
                 {j \in v.iew.iq \ v.iew.nonSpec : v.inst[j].src = i.dst},
                 {"SrcReady"})
    IN IF has(s, sn, "Squashed") THEN set(t, {sn}, {"CanCommit"})
       ELSE IF faults(s, sn) THEN set(u, {sn}, {"Fault"})
       ELSE LET x == IF i.dst = None THEN v ELSE w
            IN IF code(i.pc).kind = "branch" THEN squashDueToBranch(x, sn) ELSE x

RECURSIVE executeInsts(_, _)
executeInsts(s, sns) ==
    IF sns = {} THEN [s EXCEPT !.iew.exeRunning = TRUE, !.updatedQueues = TRUE]
    ELSE LET sn == Min(sns) IN executeInsts(execute(s, sn), sns \ {sn})

\* An instruction leaves the queue when issued, a load when it completes.
scheduleReadyInsts(s) ==
    LET ready == {sn \in s.iew.iq \ s.iew.nonSpec :
                    has(s, sn, "SrcReady") /\ ~has(s, sn, "Issued")}
    IN set([s EXCEPT !.iew.executing = @ \cup ready,
                     !.iew.iq = @ \ {sn \in ready : kind(s, sn) # "load"}],
           ready, {"Issued"})

broadcastFreeEntries(s) ==
    IF ~(s.updatedQueues \/ s.iew.exeRunning \/ s.iew.updateLSQ) THEN s
    ELSE [s EXCEPT !.iew.exeRunning = FALSE, !.iew.updateLSQ = FALSE,
                   !.out.iew.usedIQ = TRUE]

\* commitLoads
commitLoads(s) ==
    LET c == wire.commit
    IN IF c.doneSeqNum = 0 \/ c.squash \/ c.robSquashing THEN s
       ELSE [s EXCEPT !.iew.loads = {sn \in @ : sn > c.doneSeqNum},
                      !.iew.updateLSQ = TRUE]

scheduleNonSpec(s) ==
    LET sn == wire.commit.nonSpecSeqNum
    IN IF sn = 0 THEN s
       ELSE set([Check(s, "scheduleNonSpec", sn \in s.iew.nonSpec)
                   EXCEPT !.iew.nonSpec = @ \ {sn}], {sn}, {"SrcReady"})

iewTick(s, finished) ==
    LET t == dispatch(iewSignals([s EXCEPT !.iew.insts = @ \o wire.toIEWOld]))
        u == IF finished = {} THEN t ELSE executeInsts(t, finished)
        v == scheduleNonSpec(commitLoads(broadcastFreeEntries(
                 scheduleReadyInsts(u))))
    IN [v EXCEPT !.out.iew.freeIQEntries =
                     IF v.out.iew.usedIQ THEN NumIQ - Cardinality(v.iew.iq) ELSE 0,
                 !.out.iew.freeLQEntries =
                     IF v.out.iew.usedIQ THEN NumLQ - Cardinality(v.iew.loads) ELSE 0]

(***************************************************************************)
(* Commit and the ROB                                                      *)
(***************************************************************************)
\* ROB::doSquash: at most SquashWidth instructions, the youngest first.
robDoSquash(s) ==
    LET rob == s.commit.rob
        it == s.commit.squashIt
        num == s.commit.squashedSeqNum
        n == Min({SquashWidth, Cardinality({i \in 1..it : rob[i] > num})})
        t == set(s, {rob[i] : i \in (it - n + 1)..it}, {"Squashed", "CanCommit"})
        done == it - n = 0 \/ rob[it - n] <= num
    IN Check([t EXCEPT !.commit.squashIt = IF done THEN 0 ELSE it - n,
                       !.commit.doneSquashing = done], "squashIt", it # 0)

robSquash(s, num) ==
    IF s.commit.rob = <<>> THEN s
    ELSE robDoSquash([s EXCEPT !.commit.squashedSeqNum = num,
                               !.commit.squashIt = Len(s.commit.rob)])

\* What squashAll and a squash from IEW have in common.
squashTo(s, num, youngest, pc) ==
    LET t == robSquash(s, num)
    IN [t EXCEPT !.commit.status = "ROBSquashing",
                 !.commit.youngestSeqNum = youngest,
                 !.changed = TRUE, !.out.commit.doneSeqNum = num,
                 !.out.commit.squash = TRUE, !.out.commit.robSquashing = TRUE,
                 !.out.commit.pc = pc]

squashAll(s) ==
    squashTo(s, IF s.commit.rob = <<>> THEN s.commit.lastCommitedSeqNum
                ELSE Head(s.commit.rob) - 1,
             s.commit.lastCommitedSeqNum, s.commit.pc)

\* squashFromTrap, squashFromSquashAfter
squashFromCommit(s) ==
    IF s.commit.trapSquash
    THEN [squashAll(s) EXCEPT !.commit.trapSquash = FALSE]
    ELSE IF s.commit.status = "SquashAfterPending" THEN squashAll(s) ELSE s

\* Mutant: a squash of a younger branch overrides that of an older one.
MutYoungerOverrides(s) ==
    LET w == wire.toCommit
    IN IF w.squash /\ s.commit.status # "TrapPending"
       THEN squashTo(s, w.squashedSeqNum, w.squashedSeqNum, w.pc) ELSE s

squashFromIEW(s) ==
    LET w == wire.toCommit
    IN IF /\ w.squash /\ s.commit.status # "TrapPending"
          /\ w.squashedSeqNum <= s.commit.youngestSeqNum
       THEN squashTo(s, w.squashedSeqNum, w.squashedSeqNum, w.pc) ELSE s

getInsts(s) ==
    LET new == IF s.commit.status \in {"ROBSquashing", "TrapPending"} THEN <<>>
               ELSE SelectSeq(wire.toIEW, LAMBDA sn : ~has(s, sn, "Squashed"))
    IN IF new = <<>> THEN s
       ELSE Check([s EXCEPT !.commit.rob = @ \o new, !.changed = TRUE,
                            !.commit.youngestSeqNum = Last(new)],
                  "numInstsInROB", Len(s.commit.rob \o new) <= NumROB)

retireHead(s) == [s EXCEPT !.commit.rob = Tail(@), !.changed = TRUE]

\* commitHead of an instruction that was executed without a fault, and what
\* commitInsts does after it.
commitExecuted(s, sn) ==
    LET i == s.inst[sn]
    IN [retireHead(s) EXCEPT
          !.out.commit.doneSeqNum = sn,
          !.commit.lastCommitedSeqNum = sn,
          !.commit.pc = advancePC(i.pc),
          !.commit.status =
              IF code(i.pc).kind = "squashAfter" THEN "SquashAfterPending" ELSE @,
          !.log = Append(@, [pc |-> i.pc, read |-> i.read])]

\* The trap is taken at once; the squash waits for the TrapEvent.
trap(s, sn) ==
    [s EXCEPT !.commit.status = "TrapPending", !.commit.trapInFlight = TRUE,
              !.commit.handled = @ \cup {s.inst[sn].pc}]

RECURSIVE commitInsts(_, _)
commitInsts(s, n) ==
    LET sn == Head(s.commit.rob)
        t == [s EXCEPT !.commit.pc = s.inst[sn].pc]
        signalled == [clear(t, sn, {"CanCommit"})
                        EXCEPT !.out.commit.nonSpecSeqNum = sn]
    IN IF \/ n = Width \/ s.commit.status \notin {"Running", "Idle"}
          \/ s.commit.rob = <<>>
       THEN s
       ELSE IF ~has(s, sn, "CanCommit") THEN s
       ELSE IF has(s, sn, "Squashed") THEN commitInsts(retireHead(s), n)
       ELSE IF ~has(s, sn, "Executed")
       THEN Check(IF n > 0 THEN t ELSE signalled,
                  "isExecuted", isNonSpeculative(s, sn))
       ELSE IF has(s, sn, "Fault")
       THEN IF n > 0 THEN t ELSE trap(t, sn)
       ELSE commitInsts(commitExecuted(t, sn), n + 1)

\* The news for rename: free entries of the ROB, and whether it is empty.
reportROB(s) ==
    LET empty == s.commit.rob = <<>>
        checkEmpty == s.commit.checkEmptyROB \/ (s.changed /\ empty)
        used == s.changed \/ (checkEmpty /\ empty)
    IN [s EXCEPT !.commit.checkEmptyROB = checkEmpty /\ ~empty,
                 !.out.commit.usedROB = used,
                 !.out.commit.emptyROB = checkEmpty /\ empty,
                 !.out.commit.freeROBEntries =
                     IF used THEN NumROB - Len(s.commit.rob) ELSE 0]

\* markCompletedInsts
markCompletedInsts(s) ==
    set(s, {sn \in wire.toCommit.insts : ~has(s, sn, "Squashed")}, {"CanCommit"})

commitTick(s) ==
    LET t == IF s.commit.status # "ROBSquashing" THEN s
             ELSE IF s.commit.doneSquashing
             THEN [s EXCEPT !.commit.status = "Running"]
             ELSE [robDoSquash(s) EXCEPT !.out.commit.robSquashing = TRUE]
        u == squashFromIEW(squashFromCommit(t))
        v == IF u.commit.status = "ROBSquashing" THEN u
             ELSE commitInsts(getInsts(u), 0)
    IN markCompletedInsts(reportROB(v))

(***************************************************************************)
(* A cycle                                                                 *)
(***************************************************************************)
\* The instructions that some stage, queue or wire still refers to; the others
\* are deleted (cleanUpRemovedInsts and the reference counts).
InFlight(s) ==
    UNION {Elements(q) :
             q \in {s.decode.insts, s.decode.skidBuffer, s.rename.insts,
                    s.rename.skidBuffer, s.iew.insts, s.iew.skidBuffer,
                    s.commit.rob, s.out.toDecode, s.out.toRename, s.out.toIEW,
                    wire.toIEW}}
    \cup s.iew.iq \cup s.iew.executing \cup s.iew.loads
    \cup s.out.toCommit.insts \cup {s.rename.serializeInst}

cleanUp(s) ==
    LET refs == InFlight(s)
    IN [s EXCEPT !.inst = [sn \in DOMAIN @ |-> IF sn \in refs THEN @[sn] ELSE Gone]]

\* FullO3CPU::tick: fetch supplies up to n instructions, and those of finished
\* are executed.
tick(n, finished) ==
    cleanUp(commitTick(iewTick(
        renameTick(decodeTick(fetchTick(State, n))), finished)))

Tick ==
    /\ asserts = {}
    /\ \E n \in 0..Width, finished \in SUBSET iew.executing :
       \E s \in {tick(n, finished)} :
         /\ fetch' = s.fetch /\ decode' = s.decode /\ rename' = s.rename
         /\ regs' = s.regs /\ iew' = s.iew /\ commit' = s.commit
         /\ inst' = s.inst /\ file' = s.file /\ log' = s.log
         /\ asserts' = s.asserts
         /\ wire' = [s.out EXCEPT !.toIEWOld = wire.toIEW]
         /\ setup' = setup

\* TrapEvent::process
TrapEvent ==
    /\ commit.trapInFlight
    /\ commit' = [commit EXCEPT !.trapSquash = TRUE, !.trapInFlight = FALSE]
    /\ UNCHANGED <<setup, fetch, decode, rename, regs, iew, inst, file, wire,
                   log, asserts>>

Start == [right |-> TRUE, pos |-> 1]

FetchInit == fetch = [pc |-> Start, status |-> "Running", stalled |-> FALSE]

DecodeInit ==
    decode = [status |-> "Idle", stalled |-> FALSE, insts |-> <<>>,
              skidBuffer |-> <<>>]

\* The free entries are taken from the stages, which are all empty.
RenameInit ==
    rename = [status |-> "Idle", stalled |-> FALSE, insts |-> <<>>,
              skidBuffer |-> <<>>, serializeInst |-> 0,
              resumeSerialize |-> FALSE, serializeOnNextInst |-> FALSE,
              instsInProgress |-> 0, loadsInProgress |-> 0,
              free |-> [rob |-> NumROB, iq |-> NumIQ, lq |-> NumLQ],
              emptyROB |-> TRUE]

\* The first physical registers are those of the architectural ones, the others
\* are free.
FirstReg(a) ==
    SetToSeq(PhysRegs)[CHOOSE i \in 1..Cardinality(ArchRegs) :
                          SetToSeq(ArchRegs)[i] = a]

RegsInit ==
    regs = [map |-> [a \in ArchRegs |-> FirstReg(a)],
            free |-> SubSeq(SetToSeq(PhysRegs), Cardinality(ArchRegs) + 1,
                            Cardinality(PhysRegs)),
            history |-> <<>>]

IewInit ==
    iew = [status |-> "Running", insts |-> <<>>, skidBuffer |-> <<>>,
           exeRunning |-> TRUE, updateLSQ |-> FALSE, iq |-> {},
           nonSpec |-> {}, executing |-> {}, loads |-> {}]

\* With the reorder buffer, as ROB::resetState leaves it.
CommitInit ==
    commit = [status |-> "Idle", rob |-> <<>>, squashIt |-> 0,
              squashedSeqNum |-> 0, doneSquashing |-> TRUE,
              trapSquash |-> FALSE, trapInFlight |-> FALSE,
              checkEmptyROB |-> FALSE, youngestSeqNum |-> 0,
              lastCommitedSeqNum |-> 0, pc |-> Start, handled |-> {}]

\* The scoreboard of rename starts with all registers ready, that of the IQ with
\* none: rename tells the IQ what was ready.
FileInit ==
    file = [value |-> [p \in PhysRegs |->
                         IF \E a \in ArchRegs : FirstReg(a) = p
                         THEN CHOOSE a \in ArchRegs : FirstReg(a) = p
                         ELSE None],
            scoreboard |-> PhysRegs, regScoreboard |-> {}]

\* startup: what startupStage sends to rename is what rename has read already.
Init ==
    /\ setup \in Setups
    /\ FetchInit /\ DecodeInit /\ RenameInit /\ RegsInit /\ IewInit
    /\ CommitInit /\ FileInit
    /\ inst = <<>>
    /\ wire = TimeStruct
    /\ log = <<>>
    /\ asserts = {}

Next == Tick \/ TrapEvent

\* A cycle in which the caches and the functional units deliver nothing would
\* change nothing.
Settled ==
    LET s == tick(0, {})
    IN /\ State = [s EXCEPT !.out = TimeStruct, !.changed = FALSE,
                            !.blockThisCycle = FALSE, !.updatedQueues = FALSE]
       /\ wire = [s.out EXCEPT !.toIEWOld = wire.toIEW]

CanFetch == ~wire.commit.squash /\ ~fetch.stalled /\ onPath(fetch.pc)

\* The CPU ticks in every cycle, the instruction cache and the functional units
\* deliver in the end, and an event that is scheduled is processed.
Fairness ==
    /\ <>[](~Settled /\ asserts = {}) =>
           []<><<commit'.trapInFlight \/ ~commit.trapInFlight>>_vars
    /\ <>[]CanFetch => []<><<Len(inst') > Len(inst)>>_vars
    /\ <>[](iew.executing # {}) =>
           []<><<~(iew.executing \subseteq iew'.executing)>>_vars
    /\ <>[]commit.trapInFlight =>
           []<><<commit.trapInFlight /\ ~commit'.trapInFlight>>_vars

Spec == Init /\ [][Next]_vars /\ Fairness

(***************************************************************************)
(* Properties                                                              *)
(***************************************************************************)
TypeOK ==
    /\ DOMAIN regs.map = ArchRegs /\ Elements(regs.history) \subseteq RenameHistory
    /\ decode.status \in {"Running", "Idle", "Squashing", "Blocked", "Unblocking"}
    /\ rename.status \in {"Running", "Idle", "Squashing", "Blocked", "Unblocking",
                          "SerializeStall"}
    /\ iew.status \in {"Running", "Squashing", "Blocked", "Unblocking"}
    /\ commit.status \in {"Running", "Idle", "ROBSquashing", "TrapPending",
                          "SquashAfterPending"}
    /\ commit.squashIt \in 0..Len(commit.rob)
    /\ iew.nonSpec \subseteq iew.iq
    /\ file.scoreboard \subseteq PhysRegs /\ file.regScoreboard \subseteq PhysRegs

\* The state is well formed, and none of the assertions and panics of the stages
\* fails: the skid buffers of decode and rename hold what arrives while a block
\* signal travels back (skidInsert; that of IEW is longer than what the ROB of
\* the run lets through), an unblock signal finds the stall it ends
\* (readStallSignals), neither the IQ nor the ROB is given more than it holds
\* (insert, insertInst), no instruction waits for a register that is being
\* renamed anew (addToProducers), the instructions in progress do not fall below
\* zero (tick), a non-speculative instruction that commit signals is in the IQ
\* (scheduleNonSpec).
NoAssertionFails == TypeOK /\ asserts = {}

\* What the instruction at position i of the program reads if the program is
\* executed one instruction after the other.
Operand(i) ==
    LET src == setup.program[i].src
        writers == {j \in 1..(i - 1) : setup.program[j].dst = src}
    IN IF src = None THEN None
       ELSE IF writers = {} THEN src
       ELSE [right |-> TRUE, pos |-> Max(writers)]

\* The processor is one that executes the program: instructions commit in
\* program order, each exactly once, none from the wrong path of a branch and
\* none fetched before a squash that should have removed it, and each has read
\* the value that the last earlier writer of its register computed
\* (commitHead, renameSrcRegs, doSquash, executeInsts).
CommitsSequentially ==
    \A i \in 1..Len(log) :
        /\ log[i].pc = [right |-> TRUE, pos |-> i]
        /\ log[i].read = Operand(i)

\* A serializing instruction is renamed only when every older instruction has
\* committed, and nothing younger is renamed before it is handled (renameInsts,
\* checkStall, serializeAfter): an instruction behind "after", and a "serial"
\* one itself, has no company in the ROB when it enters it.
SerializesAlone ==
    \A i \in 1..Len(commit.rob) :
        LET pc == inst[commit.rob[i]].pc
            alone == \/ code(pc).kind = "serial"
                     \/ pc.pos > 1 /\ code([pc EXCEPT !.pos = @ - 1]).kind = "after"
        IN alone => \A j \in 1..(i - 1) : has(State, commit.rob[j], "Squashed")

\* The whole program commits: no block signal is lost, no stage waits for an
\* entry that will not be freed, no serialize stall is forgotten
\* (checkSignalsAndUpdate of the stages, checkEmptyROB).
ProgramCommits == <>(Len(log) = Len(setup.program))

=============================================================================

--------------------------- MODULE SnapMemProofs ---------------------------
(***************************************************************************)
(* Theorems about SnapMem, for any number of CPUs, units and blocks in a   *)
(* unit, and any queue size.                                               *)
(***************************************************************************)
EXTENDS SnapMem, TLAPS, FiniteSetTheorems, WellFoundedInduction

-----------------------------------------------------------------------------
(* Blocks and units.                                                       *)

\* A block address is split into its unit and its place in the unit
\* (translateUnitAddr).
LEMMA DivMod ==
    ASSUME NEW b \in Nat, NEW n \in Nat, n > 0
    PROVE  /\ b \div n \in Nat /\ b % n \in 0 .. n - 1
           /\ b = (b \div n) * n + (b % n)
  <1>1. b \div n \in Int /\ b \div n >= 0
    OBVIOUS
  <1>2. b % n \in 0 .. n - 1
    OBVIOUS
  <1>3. b = (b \div n) * n + (b % n)
    OBVIOUS
  <1> QED BY <1>1, <1>2, <1>3

\* The unit that translateUnitAddr finds exists.
LEMMA UnitOfBlock ==
    ASSUME NEW b \in Blocks PROVE translateUnitAddr(b) \in Units
  <1>1. b \in Nat /\ b < NumUnits * BlkInUnit
    BY SnapAssumption DEF Blocks
  <1>2. \A n, k \in Nat : n > 0 /\ b < k * n => b \div n < k
    BY <1>1
  <1>3. b \div BlkInUnit < NumUnits
    BY <1>1, <1>2, SnapAssumption
  <1> QED BY <1>1, <1>3, SnapAssumption, DivMod DEF Units, translateUnitAddr

\* Every address that the generation unit makes from a unit is a block.
LEMMA BlockOfUnit ==
    ASSUME NEW u \in Units, NEW i \in 0 .. BlkInUnit - 1
    PROVE  u * BlkInUnit + i \in Blocks
  BY SnapAssumption DEF Blocks, Units

\* The first entry of a table that is not empty is in the table.
LEMMA MinUnit ==
    ASSUME NEW S \in SUBSET Units, S # {} PROVE Min(S) \in S
  <1>1. S \subseteq Nat
    BY SnapAssumption DEF Units
  <1>2. PICK n \in S : \A m \in S : ~(<<m, n>> \in OpToRel(<, Nat))
    BY <1>1, NatLessThanWellFounded, WFMin
  <1>3. \A m, k \in Nat : m < k => <<m, k>> \in OpToRel(<, Nat)
    BY DEF OpToRel
  <1>4. \A m \in S : ~(m < n)
    BY <1>1, <1>2, <1>3, Zenon
  <1>5. \A m \in S : n <= m
    BY <1>1, <1>4
  <1> QED BY <1>5 DEF Min

\* There are finitely many blocks to count.
LEMMA FiniteBlocks ==
    ASSUME NEW S \in SUBSET Blocks PROVE IsFiniteSet(S)
  <1>1. IsFiniteSet(Blocks)
    BY SnapAssumption, FS_Interval DEF Blocks
  <1> QED BY <1>1, FS_Subset

-----------------------------------------------------------------------------
(* The inductive invariant.                                                *)

\* One event of the controller is scheduled, and outside the cycles of a
\* snapshot nothing is outstanding or half generated.
OneEvent ==
    /\ events \in {{"snapshot"}, {"cycle"}, {"finalize"}}
    /\ events # {"cycle"} => scat = {} /\ agu.complete

\* A unit that is not complete has blocks left.
AguSound == agu.complete \/ agu.counter < BlkInUnit

\* scat holds the blocks whose copying is under way, within the limit.
Outstanding ==
    /\ \A b \in Blocks : b \in scat <=> flight[b] # "none"
    /\ QueueSize # 0 => Cardinality(scat) <= QueueSize

\* A queue_size that the ports have room for keeps them from the panic.
NoPanic == QueueSize \in 1 .. PortLimit + 1 => failed # "port"

IInv ==
    /\ TypeOK /\ OneEvent /\ AguSound /\ Outstanding /\ RecordedNotForgotten
    /\ NoPanic

\* The invariant holds when the controller starts.
LEMMA InitIInv == Init => IInv
  <1> SUFFICES ASSUME Init PROVE IInv
    OBVIOUS
  <1>1. TypeOK
    BY SnapAssumption DEF Init, TypeOK, Units
  <1>2. OneEvent /\ AguSound /\ RecordedNotForgotten /\ NoPanic
    BY DEF Init, OneEvent, AguSound, RecordedNotForgotten, NoPanic
  <1>3. Outstanding
    BY SnapAssumption, FS_EmptySet DEF Init, Outstanding
  <1> QED BY <1>1, <1>2, <1>3 DEF IInv

-----------------------------------------------------------------------------
(* Actions that leave the controller alone, or only note a write.          *)

\* What a step that is not one of the snapshot itself may do.
Noted ==
    /\ UNCHANGED <<events, scat, agu, flight>>
    /\ wat' \in SUBSET Units /\ wat \subseteq wat'
    /\ \A b \in recorded' : b \in recorded \/ translateUnitAddr(b) \in wat'
    /\ failed = "none" /\ failed' # "port"

\* A step that forgets nothing and leaves the snapshot alone.
LEMMA NotedPreserves ==
    ASSUME IInv, Noted, TypeOK' PROVE IInv'
  <1>1. OneEvent' /\ AguSound' /\ Outstanding'
    BY DEF IInv, Noted, OneEvent, AguSound, Outstanding
  <1>2. RecordedNotForgotten' /\ NoPanic'
    BY DEF IInv, Noted, RecordedNotForgotten, NoPanic
  <1> QED BY <1>1, <1>2 DEF IInv

\* catchWriteRequestPacket() keeps the table, and enters what it records.
LEMMA CatchWrite ==
    ASSUME TypeOK, NEW cmd, NEW b \in Blocks, catchWriteRequestPacket(cmd, b)
    PROVE  /\ wat' \in SUBSET Units /\ wat \subseteq wat'
           /\ recorded' \in SUBSET Blocks
           /\ \A x \in recorded' : x \in recorded \/ translateUnitAddr(x) \in wat'
  BY UnitOfBlock DEF TypeOK, catchWriteRequestPacket

\* Processors that fetch, quiesce and wake up leave the tables alone.
LEMMA CPUStep ==
    ASSUME IInv, NEW c \in CPUs, Fetch(c) \/ Quiesce(c) \/ Wakeup(c)
    PROVE  IInv'
  <1>1. TypeOK'
    BY DEF IInv, TypeOK, Fetch, Quiesce, Wakeup, activateFails, ctrl
  <1>2. Noted
    BY DEF IInv, TypeOK, Fetch, Quiesce, Wakeup, activateFails, ctrl, Noted
  <1> QED BY <1>1, <1>2, NotedPreserves

\* So does a switch of the memory mode.
LEMMA SwitchPreserves ==
    ASSUME IInv, SwitchMode PROVE IInv'
  <1>1. TypeOK'
    BY DEF IInv, TypeOK, SwitchMode, ctrl, system
  <1>2. Noted
    BY DEF IInv, TypeOK, SwitchMode, ctrl, Noted
  <1> QED BY <1>1, <1>2, NotedPreserves

\* A write on the bus is recorded together with the unit it enters in the table.
LEMMA BusStep ==
    ASSUME IInv, NEW b \in Blocks,
           \/ \E c \in CPUs : Load(c, b) \/ Store(c, b)
           \/ AtomicStore(b) \/ Evict(b) \/ DMAWrite(b)
    PROVE  IInv'
  <1> USE DEF IInv
  <1>1. CASE \E c \in CPUs : Load(c, b)
    <2>1. TypeOK' BY <1>1 DEF TypeOK, Load, ctrl
    <2>2. Noted BY <1>1 DEF TypeOK, Load, ctrl, Noted
    <2> QED BY <2>1, <2>2, NotedPreserves
  <1>2. CASE \E c \in CPUs : Store(c, b)
    <2>1. /\ wat' \in SUBSET Units /\ wat \subseteq wat'
          /\ recorded' \in SUBSET Blocks
          /\ \A x \in recorded' : x \in recorded \/ translateUnitAddr(x) \in wat'
      BY <1>2, CatchWrite DEF TypeOK, Store
    <2>2. TypeOK' BY <1>2, <2>1, SnapAssumption DEF TypeOK, Store
    <2>3. Noted BY <1>2, <2>1 DEF TypeOK, Store, Noted
    <2> QED BY <2>2, <2>3, NotedPreserves
  <1>3. CASE AtomicStore(b)
    <2>1. TypeOK' BY <1>3, SnapAssumption DEF TypeOK, AtomicStore, ctrl
    <2>2. Noted BY <1>3 DEF TypeOK, AtomicStore, ctrl, Noted
    <2> QED BY <2>1, <2>2, NotedPreserves
  <1>4. CASE Evict(b)
    <2>1. /\ wat' \in SUBSET Units /\ wat \subseteq wat'
          /\ recorded' \in SUBSET Blocks
          /\ \A x \in recorded' : x \in recorded \/ translateUnitAddr(x) \in wat'
      BY <1>4, CatchWrite DEF TypeOK, Evict
    <2>2. TypeOK' BY <1>4, <2>1 DEF TypeOK, Evict
    <2>3. Noted BY <1>4, <2>1 DEF TypeOK, Evict, Noted
    <2> QED BY <2>2, <2>3, NotedPreserves
  <1>5. CASE DMAWrite(b)
    <2>1. /\ wat' \in SUBSET Units /\ wat \subseteq wat'
          /\ recorded' \in SUBSET Blocks
          /\ \A x \in recorded' : x \in recorded \/ translateUnitAddr(x) \in wat'
      BY <1>5, CatchWrite DEF TypeOK, DMAWrite
    <2>2. TypeOK' BY <1>5, <2>1, SnapAssumption DEF TypeOK, DMAWrite
    <2>3. Noted BY <1>5, <2>1 DEF TypeOK, DMAWrite, Noted
    <2> QED BY <2>2, <2>3, NotedPreserves
  <1> QED BY <1>1, <1>2, <1>3, <1>4, <1>5

-----------------------------------------------------------------------------
(* The copying of a block.                                                 *)

\* The packets of one kind that were sent are fewer than queue_size allows in all
\* when there is one more to send: the port has room.
LEMMA RoomInPort ==
    ASSUME IInv, NEW sent \in {"read", "write"}, QueueSize \in 1 .. PortLimit + 1,
           \/ Cardinality(scat) < QueueSize
           \/ \E b \in Blocks : flight[b] = "resp"
    PROVE  Panics(sent) = {}
  <1> DEFINE S == {b \in Blocks : flight[b] = sent}
  <1>1. S \subseteq scat /\ scat \subseteq Blocks
    BY Zenon DEF IInv, TypeOK, Outstanding
  <1>2. IsFiniteSet(scat) /\ Cardinality(scat) \in Nat /\ Cardinality(S) \in Nat
    BY <1>1, FiniteBlocks, FS_CardinalityType
  <1>3. Cardinality(scat) <= QueueSize
    BY SnapAssumption DEF IInv, Outstanding
  <1>4. Cardinality(S) < QueueSize
    <2>1. CASE Cardinality(scat) < QueueSize
      <3>1. Cardinality(S) <= Cardinality(scat)
        BY <1>1, <1>2, FS_Subset
      <3> HIDE DEF S
      <3> QED BY <1>2, <2>1, <3>1, SnapAssumption
    <2>2. CASE \E b \in Blocks : flight[b] = "resp"
      <3>1. S # scat
        BY <2>2 DEF IInv, Outstanding
      <3> HIDE DEF S
      <3>2. Cardinality(S) <= Cardinality(scat) /\ Cardinality(S) # Cardinality(scat)
        BY Zenon, <1>1, <1>2, <3>1, FS_Subset
      <3> QED BY <1>2, <1>3, <3>2, SnapAssumption
    <2> QED BY <2>1, <2>2
  <1> HIDE DEF S
  <1>5. ~(Cardinality(S) > PortLimit)
    BY <1>2, <1>4, SnapAssumption
  <1> QED BY Zenon, <1>5 DEF S, Panics

\* A panic is recorded as one.
LEMMA PanicType == ASSUME NEW sent PROVE Panics(sent) \in SUBSET {"port"}
  BY DEF Panics

\* The reads and writes of the copy.
LEMMA CopyingPreserves ==
    ASSUME IInv, NEW b \in Blocks, Copying(b) PROVE IInv'
  <1> USE DEF IInv
  <1>1. CASE MemoryRead(b)
    <2>1. TypeOK'
      <3>1. line' \in [Blocks ->
                {"absent", "shared", "exclusive", "owned", "modified"}]
        BY <1>1 DEF TypeOK, MemoryRead
      <3> QED BY <1>1, <3>1 DEF TypeOK, MemoryRead, ctrl
    <2>2. OneEvent' /\ AguSound' /\ Outstanding'
      BY <1>1 DEF TypeOK, MemoryRead, ctrl, OneEvent, AguSound, Outstanding
    <2>3. RecordedNotForgotten' /\ NoPanic'
      BY <1>1 DEF TypeOK, MemoryRead, ctrl, RecordedNotForgotten, NoPanic
    <2> QED BY <2>1, <2>2, <2>3
  <1>2. CASE catchSnapReadResponsePacket(b)
    <2>0. failed' \in {"none", "port"}
      BY <1>2, PanicType DEF catchSnapReadResponsePacket
    <2>1. TypeOK'
      BY <1>2, <2>0 DEF TypeOK, catchSnapReadResponsePacket, ctrl, system
    <2>2. OneEvent' /\ AguSound' /\ Outstanding'
      BY <1>2 DEF TypeOK, catchSnapReadResponsePacket, ctrl, OneEvent, AguSound,
                  Outstanding
    <2>3. RecordedNotForgotten'
      BY <1>2 DEF TypeOK, catchSnapReadResponsePacket, ctrl, RecordedNotForgotten
    <2>4. NoPanic'
      BY <1>2, RoomInPort DEF catchSnapReadResponsePacket, NoPanic
    <2> QED BY <2>1, <2>2, <2>3, <2>4
  <1>3. CASE SnapMemoryWrite(b)
    <2>1. TypeOK'
      BY <1>3 DEF TypeOK, SnapMemoryWrite, ctrl, system
    <2>2. OneEvent' /\ AguSound' /\ Outstanding'
      BY <1>3 DEF TypeOK, SnapMemoryWrite, ctrl, OneEvent, AguSound, Outstanding
    <2>3. RecordedNotForgotten' /\ NoPanic'
      BY <1>3 DEF TypeOK, SnapMemoryWrite, ctrl, RecordedNotForgotten, NoPanic
    <2> QED BY <2>1, <2>2, <2>3
  <1>4. CASE recvTimingSnapperPort(b)
    <2>1. TypeOK'
      BY <1>4 DEF TypeOK, recvTimingSnapperPort, system
    <2>2. OneEvent' /\ AguSound'
      BY <1>4 DEF TypeOK, recvTimingSnapperPort, OneEvent, AguSound
    <2>3. IsFiniteSet(scat) /\ Cardinality(scat) \in Nat /\ Cardinality(scat') \in Nat
      BY <2>1, FiniteBlocks, FS_CardinalityType DEF TypeOK
    <2>4. Cardinality(scat') <= Cardinality(scat)
      BY <1>4, <2>3, FS_Subset DEF recvTimingSnapperPort
    <2>5. Outstanding'
      BY <1>4, <2>3, <2>4, SnapAssumption
      DEF TypeOK, recvTimingSnapperPort, Outstanding
    <2>6. RecordedNotForgotten' /\ NoPanic'
      BY <1>4 DEF TypeOK, recvTimingSnapperPort, RecordedNotForgotten, NoPanic
    <2> QED BY <2>1, <2>2, <2>5, <2>6
  <1> QED BY <1>1, <1>2, <1>3, <1>4 DEF Copying

-----------------------------------------------------------------------------
(* The steps of a snapshot.                                                *)

\* A snapshot begins and ends without touching the tables.
LEMMA SnapshotPreserves ==
    ASSUME IInv, snapshot \/ finalizeSnapshot PROVE IInv'
  <1> USE DEF IInv
  <1>1. TypeOK'
    <2>1. cpu' \in [CPUs -> {"Idle", "Stopped", "Running", "Waiting"}]
      BY DEF TypeOK, snapshot, finalizeSnapshot, suspendCPUs, resumeCPUs
    <2>2. failed' \in {"none", "suspend", "activate", "fetch", "scat", "port"}
      BY DEF TypeOK, snapshot, finalizeSnapshot, suspendCPUs, resumeCPUs,
             activateFails
    <2> QED BY <2>1, <2>2 DEF TypeOK, snapshot, finalizeSnapshot
  <1>2. OneEvent' /\ AguSound'
    BY DEF TypeOK, snapshot, finalizeSnapshot, OneEvent, AguSound
  <1>3. Outstanding'
    BY DEF TypeOK, snapshot, finalizeSnapshot, Outstanding
  <1>4. RecordedNotForgotten'
    BY DEF TypeOK, snapshot, finalizeSnapshot, RecordedNotForgotten
  <1>5. NoPanic'
    BY DEF snapshot, finalizeSnapshot, suspendCPUs, resumeCPUs, activateFails,
           NoPanic
  <1> QED BY <1>1, <1>2, <1>3, <1>4, <1>5

\* The unit from which the next block is taken has one left.
LEMMA NextUnit ==
    ASSUME IInv, ~(agu.complete /\ wat = {})
    PROVE  /\ aguNext.unit \in Units
           /\ aguNext.counter \in 0 .. BlkInUnit - 1
           /\ agu.complete => aguNext.unit = Min(wat) /\ aguNext.counter = 0
           /\ ~agu.complete => aguNext = agu
           /\ aguNext.unit * BlkInUnit + aguNext.counter \in Blocks
  <1>1. CASE agu.complete
    <2>1. Min(wat) \in Units
      BY <1>1, MinUnit DEF IInv, TypeOK
    <2>2. /\ aguNext.unit \in Units
          /\ aguNext.counter \in 0 .. BlkInUnit - 1
          /\ aguNext.unit = Min(wat) /\ aguNext.counter = 0
      BY <1>1, <2>1, SnapAssumption DEF aguNext
    <2> QED BY <1>1, <2>2, BlockOfUnit
  <1>2. CASE ~agu.complete
    <2>1. aguNext = agu
      BY <1>2 DEF aguNext
    <2>2. agu.unit \in Units /\ agu.counter \in 0 .. BlkInUnit - 1
      BY <1>2, SnapAssumption DEF IInv, TypeOK, AguSound
    <2> QED BY <1>2, <2>1, <2>2, BlockOfUnit
  <1> QED BY <1>1, <1>2

\* A cycle of the controller takes an entry to the generation unit, or an address to
\* the read queue.
LEMMA CyclePreserves ==
    ASSUME IInv, snapshotCycle PROVE IInv'
  <1> USE DEF IInv
  <1>1. CASE isFull \/ (agu.complete /\ wat = {})
    <2>1. UNCHANGED <<wat, scat, agu, flight, failed>>
      BY <1>1 DEF snapshotCycle, sendReadPacketToNormalMemory
    <2>2. TypeOK'
      BY <2>1 DEF TypeOK, snapshotCycle, system
    <2>3. /\ OneEvent' /\ AguSound' /\ Outstanding' /\ RecordedNotForgotten'
          /\ NoPanic'
      BY <2>1 DEF snapshotCycle, OneEvent, AguSound, Outstanding,
                  RecordedNotForgotten, NoPanic
    <2> QED BY <2>2, <2>3
  <1>2. CASE ~(isFull \/ (agu.complete /\ wat = {}))
    <2> DEFINE u == aguNext.unit
               n == aguNext.counter
               b == u * BlkInUnit + n
    <2>1. /\ u \in Units /\ n \in 0 .. BlkInUnit - 1 /\ b \in Blocks
          /\ agu.complete => u = Min(wat) /\ n = 0
          /\ ~agu.complete => aguNext = agu
      BY <1>2, NextUnit
    <2>2. /\ wat' = IF agu.complete THEN wat \ {u} ELSE wat
          /\ agu' = aguPop(aguNext)
          /\ \/ /\ b \in scat /\ failed' = "scat" /\ UNCHANGED <<scat, flight>>
             \/ /\ b \notin scat /\ scat' = scat \cup {b}
                /\ flight' = [flight EXCEPT ![b] = "read"]
                /\ failed' \in {"none"} \cup Panics("read")
      BY <1>2, <2>1 DEF snapshotCycle, sendReadPacketToNormalMemory
    <2>3. /\ agu' \in [unit : Units, counter : 0 .. BlkInUnit, complete : BOOLEAN]
          /\ agu'.unit = u /\ agu'.counter = n + 1
          /\ agu'.complete <=> n + 1 >= BlkInUnit
      <3>1. aguNext \in [unit : Units, counter : 0 .. BlkInUnit, complete : BOOLEAN]
        BY <2>1, SnapAssumption DEF aguNext, TypeOK
      <3>2. agu' = [aguNext EXCEPT !.counter = n + 1,
                                   !.complete = (n + 1 >= BlkInUnit)]
        BY <2>2 DEF aguPop
      <3> HIDE DEF u, n
      <3> DEFINE done == (n + 1 >= BlkInUnit)
      <3>3. n + 1 \in 0 .. BlkInUnit /\ done \in BOOLEAN
        BY <2>1, SnapAssumption
      <3> HIDE DEF done
      <3>4. /\ agu' \in [unit : Units, counter : 0 .. BlkInUnit, complete : BOOLEAN]
            /\ agu'.unit = aguNext.unit /\ agu'.counter = n + 1
            /\ agu'.complete = done
        BY <3>1, <3>2, <3>3 DEF done
      <3> QED BY <3>3, <3>4 DEF u, done
    <2>4. TypeOK'
      BY <2>1, <2>2, <2>3, PanicType DEF TypeOK, snapshotCycle, system
    <2>5. OneEvent'
      BY <2>2, <2>3 DEF snapshotCycle, OneEvent
    <2>6. AguSound'
      BY <2>1, <2>3, SnapAssumption DEF AguSound
    <2>7. Outstanding'
      <3>1. CASE b \in scat
        BY <2>2, <3>1 DEF Outstanding
      <3>2. CASE b \notin scat
        <4>1. IsFiniteSet(scat) /\ Cardinality(scat) \in Nat
          BY FiniteBlocks, FS_CardinalityType DEF TypeOK
        <4>2. Cardinality(scat') = Cardinality(scat) + 1
          BY <2>2, <3>2, <4>1, FS_AddElement
        <4>3. QueueSize # 0 => Cardinality(scat) < QueueSize
          BY <1>2, <4>1, SnapAssumption DEF isFull
        <4>4. QueueSize # 0 => Cardinality(scat') <= QueueSize
          BY <4>1, <4>2, <4>3, SnapAssumption
        <4>5. \A x \in Blocks : x \in scat' <=> flight'[x] # "none"
          BY <2>1, <2>2, <3>2 DEF Outstanding, TypeOK
        <4> QED BY <4>4, <4>5 DEF Outstanding
      <3> QED BY <3>1, <3>2
    <2>8. RecordedNotForgotten'
      <3> SUFFICES ASSUME failed' = "none", NEW x \in recorded'
                   PROVE  \/ translateUnitAddr(x) \in wat'
                          \/ /\ ~agu'.complete /\ agu'.unit = translateUnitAddr(x)
                             /\ x % BlkInUnit >= agu'.counter
                          \/ flight'[x] = "read"
        BY DEF RecordedNotForgotten, translateUnitAddr
      <3>1. /\ failed = "none" /\ b \notin scat /\ x \in recorded /\ x \in Blocks
            /\ flight' = [flight EXCEPT ![b] = "read"]
        BY <2>2 DEF snapshotCycle, TypeOK
      <3>2. flight[x] = "read" => flight'[x] = "read"
        BY <3>1 DEF TypeOK
      <3>3. x \in Nat /\ x % BlkInUnit \in 0 .. BlkInUnit - 1
            /\ x = translateUnitAddr(x) * BlkInUnit + (x % BlkInUnit)
        BY <3>1, SnapAssumption, DivMod DEF Blocks, translateUnitAddr
      <3>4. x = b => flight'[x] = "read"
        BY <2>1, <3>1 DEF TypeOK
      <3>5. ASSUME translateUnitAddr(x) = u, x % BlkInUnit >= n, x # b
            PROVE  ~agu'.complete /\ x % BlkInUnit >= agu'.counter
        <4>1. x % BlkInUnit # n
          BY <3>3, <3>5
        <4> QED BY <2>1, <2>3, <3>3, <3>5, <4>1, SnapAssumption
      <3>6. \/ translateUnitAddr(x) \in wat'
            \/ translateUnitAddr(x) = u /\ x % BlkInUnit >= n
            \/ flight[x] = "read"
        BY <2>1, <2>2, <3>1, <3>3, SnapAssumption DEF RecordedNotForgotten
      <3> QED BY <2>3, <3>2, <3>4, <3>5, <3>6
    <2>9. NoPanic'
      <3> SUFFICES ASSUME QueueSize \in 1 .. PortLimit + 1 PROVE failed' # "port"
        BY DEF NoPanic
      <3>1. Cardinality(scat) \in Nat
        BY FiniteBlocks, FS_CardinalityType DEF TypeOK
      <3>2. Cardinality(scat) < QueueSize
        BY <1>2, <3>1, SnapAssumption DEF isFull
      <3> QED BY <2>2, <3>2, RoomInPort
    <2> QED BY <2>4, <2>5, <2>6, <2>7, <2>8, <2>9
  <1> QED BY <1>1, <1>2

-----------------------------------------------------------------------------
(* The theorems.                                                           *)

\* Every step keeps the invariant.
LEMMA NextPreserves == IInv /\ [Next]_vars => IInv'
  <1> SUFFICES ASSUME IInv, [Next]_vars PROVE IInv'
    OBVIOUS
  <1>1. CASE UNCHANGED vars
    BY <1>1 DEF IInv, TypeOK, OneEvent, AguSound, Outstanding,
                RecordedNotForgotten, translateUnitAddr, NoPanic, vars, ctrl, system
  <1>2. CASE \E c \in CPUs : Fetch(c) \/ Quiesce(c) \/ Wakeup(c)
    BY <1>2, CPUStep
  <1>3. CASE \E c \in CPUs, b \in Blocks : Load(c, b) \/ Store(c, b)
    BY <1>3, BusStep
  <1>4. CASE \E b \in Blocks : AtomicStore(b) \/ Evict(b) \/ DMAWrite(b)
    BY <1>4, BusStep
  <1>5. CASE \E b \in Blocks : Copying(b)
    BY <1>5, CopyingPreserves
  <1>6. CASE SwitchMode
    BY <1>6, SwitchPreserves
  <1>7. CASE snapshot \/ finalizeSnapshot
    BY <1>7, SnapshotPreserves
  <1>8. CASE snapshotCycle
    BY <1>8, CyclePreserves
  <1> QED BY <1>1, <1>2, <1>3, <1>4, <1>5, <1>6, <1>7, <1>8 DEF Next

\* What the tables, the generation unit and the outstanding reads of the controller
\* keep true.
THEOREM Invariance == Spec => []IInv
  BY InitIInv, NextPreserves, PTL DEF Spec

\* No snooped write is forgotten (catchWriteRequestPacket, AddressGenerationUnit,
\* sendReadPacketToNormalMemory): until a block is read, its unit is in the table,
\* its address is still to be generated, or its read is outstanding.
THEOREM AlwaysRecordedNotForgotten == Spec => []RecordedNotForgotten
  BY Invariance, PTL DEF IInv

\* The copies in the two memories are those of the current snapshot, they are what
\* scat holds, and queue_size limits them (snapshotCycle, finalizeSnapshot,
\* recvTimingResp).
THEOREM AlwaysCopiesAccounted == Spec => []CopiesAccounted
  <1>1. IInv => CopiesAccounted
    <2> SUFFICES ASSUME IInv PROVE CopiesAccounted
      OBVIOUS
    <2>1. {b \in Blocks : flight[b] # "none"} = scat
      BY DEF IInv, TypeOK, Outstanding
    <2>2. OutstandingBounded
      BY <2>1 DEF IInv, Outstanding, NoPanic, OutstandingBounded
    <2>3. Cardinality(events) = 1
      BY FS_Singleton DEF IInv, OneEvent
    <2>4. SnapshotsDoNotOverlap
      BY <2>3 DEF IInv, OneEvent, SnapshotsDoNotOverlap
    <2> QED BY <2>2, <2>4 DEF IInv, CopiesAccounted
  <1> QED BY <1>1, Invariance, PTL
=============================================================================

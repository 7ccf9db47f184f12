------------------------------ MODULE MIExample ------------------------------
(***************************************************************************)
(* The MI_example coherence protocol of Ruby for one cache line: the L1    *)
(* cache controllers with their sequencers, the directory, the DMA         *)
(* controllers with theirs, the memory behind the directory, and the five  *)
(* virtual networks between them.                                          *)
(*                                                                         *)
(* Every transition of the SLICC files that is not a stall or a recycle is *)
(* one action.  A stalled message stays at the head of its buffer, and a   *)
(* recycled one is put back with a later time stamp.  Messages of          *)
(* different senders are independent here, and a sender has at most one    *)
(* request under way, so both are steps that change nothing.  Time is left *)
(* out: a message may take arbitrarily long.                               *)
(***************************************************************************)
EXTENDS Naturals, FiniteSets, Sequences, Functions

CONSTANTS Caches,     \* the L1 cache controllers
          DMAs,       \* the DMA controllers
          BlockSize,  \* bytes of a line
          Values,     \* what a byte may hold, 0 included
          None        \* an entry, a TBE or a request that is not there

ASSUME MIAssumption ==
    /\ IsFiniteSet(Caches)
    /\ BlockSize \in Nat \ {0}
    /\ 0 \in Values

Bytes == 0 .. BlockSize - 1
DataBlock == [Bytes -> Values]
Clear == [b \in Bytes |-> 0]

VARIABLES cache,   \* per cache: its state, its entry and its TBE for the line
          cpu,     \* per cache: the sequencer's outstanding request, and
                   \* whether it still waits in the mandatory queue
          dir,     \* the directory: state, Owner, TBE
          dma,     \* per DMA controller: state, m_is_busy, mandatory queue
          net,     \* the messages under way, per virtual network and end point
          memory,  \* the line in memory, the requests to it and its answers
          fatal,   \* a controller met an event it has no transition for
          latest   \* what the last write in coherence order left in the line

vars == <<cache, cpu, dir, dma, net, memory, fatal, latest>>

CacheStates == {"I", "II", "M", "MI", "MII", "IS", "IM"}
DirStates == {"I", "M", "M_DRD", "M_DWR", "M_DWRI", "M_DRDI",
              "IM", "MI", "ID", "ID_W"}
DMAStates == {"READY", "BUSY_RD", "BUSY_WR"}

RequestMsg == [Type : {"GETX", "PUTX"}, DataBlk : DataBlock]
ForwardMsg == [Type : {"GETX", "WB_ACK", "WB_NACK", "INV"},
               Requestor : Caches \cup {None}]
DMARequestMsg == [Type : {"READ", "WRITE"}, Offset : Bytes,
                  Len : 1 .. BlockSize, DataBlk : DataBlock]
DMAResponseMsg == [Type : {"DATA", "ACK"}, DataBlk : DataBlock]
MemoryMsg == [Type : {"MEMORY_READ", "MEMORY_WB"}, DataBlk : DataBlock,
              OriginalRequestorMachId : Caches \cup DMAs]
DirTBE == [DataBlk : DataBlock, Offset : Bytes, Len : 1 .. BlockSize,
           DmaRequestor : DMAs \cup {None}]

\* The type of the state, no more.
TypeOK ==
    /\ cache \in [Caches -> [state : CacheStates,
                             entry : DataBlock \cup {None},
                             tbe : DataBlock \cup {None}]]
    /\ cpu \in [Caches -> [outstanding : {None, "LD", "ST"},
                           queued : BOOLEAN]]
    /\ dir.state \in DirStates /\ dir.owner \subseteq Caches
    /\ dir.tbe \in DirTBE \cup {None}
    /\ \A d \in DMAs : /\ dma[d].state \in DMAStates
                       /\ dma[d].busy \in BOOLEAN
                       /\ \A m \in Range(dma[d].queue) : m \in DMARequestMsg
    /\ \A c \in Caches : /\ Range(net.request[c]) \subseteq RequestMsg
                         /\ Range(net.forward[c]) \subseteq ForwardMsg
                         /\ Range(net.response[c]) \subseteq DataBlock
    /\ \A d \in DMAs : /\ Range(net.dmaRequest[d]) \subseteq DMARequestMsg
                       /\ Range(net.dmaResponse[d]) \subseteq DMAResponseMsg
    /\ memory.line \in DataBlock
    /\ Range(memory.toMemory) \subseteq MemoryMsg
    /\ Range(memory.fromMemory) \subseteq MemoryMsg
    /\ fatal \in BOOLEAN
    /\ latest \in DataBlock

Init ==
    /\ cache = [c \in Caches |-> [state |-> "I", entry |-> None, tbe |-> None]]
    /\ cpu = [c \in Caches |-> [outstanding |-> None, queued |-> FALSE]]
    /\ dir = [state |-> "I", owner |-> {}, tbe |-> None]
    /\ dma = [d \in DMAs |-> [state |-> "READY", busy |-> FALSE, queue |-> <<>>]]
    /\ net = [request |-> [c \in Caches |-> <<>>],       \* vnet 2
              forward |-> [c \in Caches |-> <<>>],       \* vnet 3
              response |-> [c \in Caches |-> <<>>],      \* vnet 4
              dmaRequest |-> [d \in DMAs |-> <<>>],      \* vnet 0
              dmaResponse |-> [d \in DMAs |-> <<>>]]     \* vnet 1
    /\ memory = [line |-> Clear, toMemory |-> <<>>, fromMemory |-> <<>>]
    /\ fatal = FALSE
    /\ latest = Clear

-----------------------------------------------------------------------------
(* The sequencer of an L1 cache.                                           *)

\* makeRequest and insertRequest: a second request to a line that has one
\* outstanding is refused as aliased.
makeRequest(c, type) ==
    /\ ~fatal
    /\ cpu[c].outstanding = None
    /\ cpu' = [cpu EXCEPT ![c] = [outstanding |-> type, queued |-> TRUE]]
    /\ UNCHANGED <<cache, dir, dma, net, memory, fatal, latest>>

\* readCallback, writeCallback and hitCallback: the request leaves its table;
\* a store writes its bytes into the entry, whose other bytes are `data`.
hitCallback(c, data) ==
    /\ cpu' = [cpu EXCEPT ![c] = [outstanding |-> None, queued |-> FALSE]]
    /\ \/ /\ cpu[c].outstanding = "LD"
          /\ cache' = [cache EXCEPT ![c] =
                         [state |-> "M", entry |-> data, tbe |-> None]]
          /\ UNCHANGED latest
       \/ /\ cpu[c].outstanding = "ST"
          /\ \E b \in Bytes, v \in Values :
                /\ cache' = [cache EXCEPT ![c] =
                               [state |-> "M", entry |-> [data EXCEPT ![b] = v],
                                tbe |-> None]]
                /\ latest' = [latest EXCEPT ![b] = v]

-----------------------------------------------------------------------------
(* The L1 cache controller.                                                *)

\* An event is taken from the head of an incoming buffer.
Forwarded(c, type) ==
    /\ ~fatal
    /\ net.forward[c] # <<>>
    /\ Head(net.forward[c]).Type = type

\* A request from the sequencer hits in M.
M_Load_Store(c) ==
    /\ ~fatal
    /\ cpu[c].queued
    /\ cache[c].state = "M"
    /\ hitCallback(c, cache[c].entry)
    /\ UNCHANGED <<dir, dma, net, memory, fatal>>

\* A request from the sequencer misses: GETX for loads and stores alike.  A
\* line taken by another cache left its entry behind, which is used again.
I_Load_Store(c) ==
    /\ ~fatal
    /\ cpu[c].queued
    /\ cache[c].state = "I"
    /\ cpu' = [cpu EXCEPT ![c].queued = FALSE]
    /\ cache' = [cache EXCEPT ![c] =
                   [state |-> IF cpu[c].outstanding = "LD" THEN "IS" ELSE "IM",
                    entry |-> IF @.entry = None THEN Clear ELSE @.entry,
                    tbe |-> Clear]]
    /\ net' = [net EXCEPT !.request[c] =
                 Append(@, [Type |-> "GETX", DataBlk |-> Clear])]
    /\ UNCHANGED <<dir, dma, memory, fatal, latest>>

\* The data of a miss arrives.
Data(c) ==
    /\ ~fatal
    /\ net.response[c] # <<>>
    /\ cache[c].state \in {"IS", "IM"}
    /\ hitCallback(c, Head(net.response[c]))
    /\ net' = [net EXCEPT !.response[c] = Tail(@)]
    /\ UNCHANGED <<dir, dma, memory, fatal>>

\* Data for the cache a forwarded request names.
SendData(c, data) ==
    net' = [net EXCEPT !.response[Head(net.forward[c]).Requestor] = Append(@, data),
                       !.forward[c] = Tail(@)]

\* The entry stays allocated, invalid.
M_Fwd_GETX(c) ==
    /\ Forwarded(c, "GETX")
    /\ cache[c].state = "M"
    /\ SendData(c, cache[c].entry)
    /\ cache' = [cache EXCEPT ![c].state = "I"]
    /\ UNCHANGED <<cpu, dir, dma, memory, fatal, latest>>

\* Another cache takes the line while it is being written back: in MII the
\* directory has refused the writeback already.
MI_Fwd_GETX(entry) == [entry EXCEPT !.state = "II"]
MII_Fwd_GETX(entry) == [entry EXCEPT !.state = "I", !.tbe = None]

ee_sendDataFromTBE(c) ==
    /\ Forwarded(c, "GETX")
    /\ cache[c].state \in {"MI", "MII"}
    /\ SendData(c, cache[c].tbe)
    /\ cache' = [cache EXCEPT ![c] = IF @.state = "MI" THEN MI_Fwd_GETX(@)
                                     ELSE MII_Fwd_GETX(@)]
    /\ UNCHANGED <<cpu, dir, dma, memory, fatal, latest>>

\* A line of the same set needs the entry: this one is dropped ...
I_Replacement(c) ==
    /\ ~fatal
    /\ cache[c].state = "I" /\ cache[c].entry # None
    /\ cache' = [cache EXCEPT ![c].entry = None]
    /\ UNCHANGED <<cpu, dir, dma, net, memory, fatal, latest>>

\* Mutant of WriteBack: the data is not copied to the TBE.
WriteBack_noCopy(c) ==
    /\ cache[c].state = "M"
    /\ cache' = [cache EXCEPT ![c] =
                   [state |-> "MI", entry |-> None, tbe |-> Clear]]
    /\ net' = [net EXCEPT !.request[c] =
                 Append(@, [Type |-> "PUTX", DataBlk |-> cache[c].entry])]
    /\ UNCHANGED <<cpu, dir, dma, memory, fatal, latest>>

\* ... or written back: PUTX with the data, a copy of which stays in the TBE.
WriteBack(c) ==
    /\ cache[c].state = "M"
    /\ cache' = [cache EXCEPT ![c] =
                   [state |-> "MI", entry |-> None, tbe |-> @.entry]]
    /\ net' = [net EXCEPT !.request[c] =
                 Append(@, [Type |-> "PUTX", DataBlk |-> cache[c].entry])]
    /\ UNCHANGED <<cpu, dir, dma, memory, fatal, latest>>

M_Replacement(c) == ~fatal /\ WriteBack(c)

\* The invalidation is not popped here: it is dropped later, in MI or in I.
M_Inv(c) == Forwarded(c, "INV") /\ WriteBack(c)

Pop(c) == net' = [net EXCEPT !.forward[c] = Tail(@)]

\* An invalidation for a line that is on its way out ...
MI_Inv(c) ==
    /\ Forwarded(c, "INV")
    /\ cache[c].state = "MI"
    /\ Pop(c)
    /\ UNCHANGED <<cache, cpu, dir, dma, memory, fatal, latest>>

\* ... or gone.
I_Inv(c) ==
    /\ Forwarded(c, "INV")
    /\ cache[c].state = "I"
    /\ Pop(c)
    /\ UNCHANGED <<cache, cpu, dir, dma, memory, fatal, latest>>

\* The directory has taken the writeback.
MI_Writeback_Ack(c) ==
    /\ Forwarded(c, "WB_ACK")
    /\ cache[c].state = "MI"
    /\ cache' = [cache EXCEPT ![c].state = "I", ![c].tbe = None]
    /\ Pop(c)
    /\ UNCHANGED <<cpu, dir, dma, memory, fatal, latest>>

\* The directory has refused it: another cache asked for the line first, and
\* the request it forwarded is still to come (MI) or has been answered (II).
MI_Writeback_Nack(entry) == [entry EXCEPT !.state = "MII"]
II_Writeback_Nack(entry) == [entry EXCEPT !.state = "I", !.tbe = None]

Writeback_Nack(c) ==
    /\ Forwarded(c, "WB_NACK")
    /\ cache[c].state \in {"MI", "II"}
    /\ cache' = [cache EXCEPT ![c] = IF @.state = "MI" THEN MI_Writeback_Nack(@)
                                     ELSE II_Writeback_Nack(@)]
    /\ Pop(c)
    /\ UNCHANGED <<cpu, dir, dma, memory, fatal, latest>>

-----------------------------------------------------------------------------
(* The memory, and what the directory puts into its queue.                 *)

\* A read or a write of the whole line is carried out and answered, in order.
memoryAccess ==
    /\ ~fatal
    /\ memory.toMemory # <<>>
    /\ LET m == Head(memory.toMemory)
           line == IF m.Type = "MEMORY_WB" THEN m.DataBlk ELSE memory.line
       IN  memory' = [line |-> line,
                      toMemory |-> Tail(memory.toMemory),
                      fromMemory |-> Append(memory.fromMemory,
                                            [m EXCEPT !.DataBlk = line])]
    /\ UNCHANGED <<cache, cpu, dir, dma, net, fatal, latest>>

queueMemory(type, id, data) ==
    memory' = [memory EXCEPT !.toMemory =
                 Append(@, [Type |-> type, DataBlk |-> data,
                            OriginalRequestorMachId |-> id])]

queueMemoryRead(id) == queueMemory("MEMORY_READ", id, Clear)

queueMemoryWrite(id, block) == queueMemory("MEMORY_WB", id, block)

\* The first `size` bytes of the block are copied, whatever the offset of the
\* request was, and the request writes a whole line: what lies behind the copy
\* goes with it, and can be anything.
queueMemoryWritePartial(id, block, size) ==
    \E behind \in [size .. BlockSize - 1 -> Values] :
       queueMemory("MEMORY_WB", id,
                   [b \in Bytes |-> IF b < size THEN block[b] ELSE behind[b]])

-----------------------------------------------------------------------------
(* The directory.                                                          *)

\* A PUTX of a cache that is no longer the owner is an event of its own.
DirEvent(c) ==
    LET type == Head(net.request[c]).Type
    IN  IF type = "PUTX" /\ c \notin dir.owner THEN "PUTX_NotOwner" ELSE type

Requested(c, event) == ~fatal /\ net.request[c] # <<>> /\ DirEvent(c) = event

DMARequested(d, type) ==
    /\ ~fatal
    /\ net.dmaRequest[d] # <<>>
    /\ Head(net.dmaRequest[d]).Type = type

FromMemory(type) ==
    /\ ~fatal
    /\ memory.fromMemory # <<>>
    /\ Head(memory.fromMemory).Type = type

Answer == Head(memory.fromMemory)
popMemQueue == memory' = [memory EXCEPT !.fromMemory = Tail(@)]

\* What the DMA write in m leaves of the line, for the observer.
Written(m) == [b \in Bytes |-> IF b \in m.Offset .. m.Offset + m.Len - 1
                               THEN m.DataBlk[b] ELSE latest[b]]

\* Mutant of sendWriteBackAck: it overtakes everything sent before.
sendWriteBackAck_first(n) ==
    LET c == Answer.OriginalRequestorMachId
        ack == [Type |-> "WB_ACK", Requestor |-> c]
    IN  net' = [n EXCEPT !.forward[c] = <<ack>> \o @]

\* s with m at position i.
InsertAt(s, i, m) == SubSeq(s, 1, i - 1) \o <<m>> \o SubSeq(s, i, Len(s))

\* The acknowledgement takes one cycle and the other messages of the forward
\* network directory_latency: it may overtake the one sent before it.
sendWriteBackAck(n) ==
    LET c == Answer.OriginalRequestorMachId
        ack == [Type |-> "WB_ACK", Requestor |-> c]
        last == Len(n.forward[c])
    IN  \E i \in {last, last + 1} \ {0} :
           net' = [n EXCEPT !.forward[c] = InsertAt(@, i, ack)]

I_GETX(c) ==
    /\ Requested(c, "GETX") /\ dir.state = "I"
    /\ queueMemoryRead(c)
    /\ dir' = [dir EXCEPT !.state = "IM", !.owner = {c}]
    /\ net' = [net EXCEPT !.request[c] = Tail(@)]
    /\ UNCHANGED <<cache, cpu, dma, fatal, latest>>

IM_Memory_Data ==
    /\ FromMemory("MEMORY_READ") /\ dir.state = "IM"
    /\ net' = [net EXCEPT !.response[Answer.OriginalRequestorMachId] =
                 Append(@, Answer.DataBlk)]
    /\ dir' = [dir EXCEPT !.state = "M"]
    /\ popMemQueue
    /\ UNCHANGED <<cache, cpu, dma, fatal, latest>>

\* The request goes to the owner, and the requestor is the owner from here on.
M_GETX(c) ==
    /\ Requested(c, "GETX") /\ dir.state = "M"
    /\ net' = [net EXCEPT
                 !.request[c] = Tail(@),
                 !.forward = [o \in Caches |->
                    IF o \in dir.owner
                    THEN Append(@[o], [Type |-> "GETX", Requestor |-> c])
                    ELSE @[o]]]
    /\ dir' = [dir EXCEPT !.owner = {c}]
    /\ UNCHANGED <<cache, cpu, dma, memory, fatal, latest>>

M_PUTX(c) ==
    /\ Requested(c, "PUTX") /\ dir.state = "M"
    /\ LET data == Head(net.request[c]).DataBlk
       IN  /\ queueMemoryWrite(c, data)
           /\ dir' = [state |-> "MI", owner |-> {},
                      tbe |-> [DataBlk |-> data, Offset |-> 0, Len |-> BlockSize,
                               DmaRequestor |-> None]]
    /\ net' = [net EXCEPT !.request[c] = Tail(@)]
    /\ UNCHANGED <<cache, cpu, dma, fatal, latest>>

\* The writeback is in memory, after a replacement or for a DMA read.
MI_Memory_Ack ==
    /\ FromMemory("MEMORY_WB") /\ dir.state \in {"MI", "M_DRDI"}
    /\ sendWriteBackAck(net)
    /\ dir' = [dir EXCEPT !.state = "I", !.tbe = None]
    /\ popMemQueue
    /\ UNCHANGED <<cache, cpu, dma, fatal, latest>>

\* Mutant of PUTX_NotOwner: the writeback is dropped without an answer.
PUTX_NotOwner_silent(c) ==
    /\ Requested(c, "PUTX_NotOwner") /\ dir.state \in {"M", "I"}
    /\ net' = [net EXCEPT !.request[c] = Tail(@)]
    /\ UNCHANGED <<cache, cpu, dir, dma, memory, fatal, latest>>

PUTX_NotOwner(c) ==
    /\ Requested(c, "PUTX_NotOwner") /\ dir.state \in {"M", "I"}
    /\ net' = [net EXCEPT !.request[c] = Tail(@),
                          !.forward[c] = Append(@, [Type |-> "WB_NACK",
                                                    Requestor |-> c])]
    /\ UNCHANGED <<cache, cpu, dir, dma, memory, fatal, latest>>

-----------------------------------------------------------------------------
(* The directory and DMA.                                                  *)

I_DMA_READ(d) ==
    /\ DMARequested(d, "READ") /\ dir.state = "I"
    /\ queueMemoryRead(d)
    /\ dir' = [dir EXCEPT !.state = "ID",
                          !.tbe = [DataBlk |-> Clear, Offset |-> 0,
                                   Len |-> BlockSize, DmaRequestor |-> d]]
    /\ net' = [net EXCEPT !.dmaRequest[d] = Tail(@)]
    /\ UNCHANGED <<cache, cpu, dma, fatal, latest>>

ID_Memory_Data ==
    /\ FromMemory("MEMORY_READ") /\ dir.state = "ID"
    /\ net' = [net EXCEPT !.dmaResponse[dir.tbe.DmaRequestor] =
                 Append(@, [Type |-> "DATA", DataBlk |-> Answer.DataBlk])]
    /\ dir' = [dir EXCEPT !.state = "I", !.tbe = None]
    /\ popMemQueue
    /\ UNCHANGED <<cache, cpu, dma, fatal, latest>>

I_DMA_WRITE(d) ==
    /\ DMARequested(d, "WRITE") /\ dir.state = "I"
    /\ LET m == Head(net.dmaRequest[d])
       IN  /\ queueMemoryWritePartial(d, m.DataBlk, m.Len)
           /\ dir' = [dir EXCEPT !.state = "ID_W",
                                 !.tbe = [DataBlk |-> m.DataBlk,
                                          Offset |-> m.Offset, Len |-> m.Len,
                                          DmaRequestor |-> d]]
           /\ latest' = Written(m)
    /\ net' = [net EXCEPT !.dmaRequest[d] = Tail(@)]
    /\ UNCHANGED <<cache, cpu, dma, fatal>>

DMAAck == [Type |-> "ACK", DataBlk |-> Clear]

ID_W_Memory_Ack ==
    /\ FromMemory("MEMORY_WB") /\ dir.state = "ID_W"
    /\ net' = [net EXCEPT !.dmaResponse[dir.tbe.DmaRequestor] = Append(@, DMAAck)]
    /\ dir' = [dir EXCEPT !.state = "I", !.tbe = None]
    /\ popMemQueue
    /\ UNCHANGED <<cache, cpu, dma, fatal, latest>>

\* A cache has the line: it is told to give it up first.
M_DMA(d) ==
    /\ ~fatal
    /\ net.dmaRequest[d] # <<>> /\ dir.state = "M"
    /\ LET m == Head(net.dmaRequest[d])
       IN  dir' = [dir EXCEPT
                     !.state = IF m.Type = "READ" THEN "M_DRD" ELSE "M_DWR",
                     !.tbe = [DataBlk |-> m.DataBlk, Offset |-> m.Offset,
                              Len |-> m.Len, DmaRequestor |-> d]]
    /\ net' = [net EXCEPT
                 !.dmaRequest[d] = Tail(@),
                 !.forward = [o \in Caches |->
                    IF o \in dir.owner
                    THEN Append(@[o], [Type |-> "INV", Requestor |-> None])
                    ELSE @[o]]]
    /\ UNCHANGED <<cache, cpu, dma, memory, fatal, latest>>

\* Mutant of M_DRD_PUTX: the device is sent the block of the TBE.
M_DRD_PUTX_fromTBE(c) ==
    /\ Requested(c, "PUTX") /\ dir.state = "M_DRD"
    /\ queueMemoryWrite(c, Head(net.request[c]).DataBlk)
    /\ net' = [net EXCEPT
                 !.request[c] = Tail(@),
                 !.dmaResponse[dir.tbe.DmaRequestor] =
                    Append(@, [Type |-> "DATA", DataBlk |-> dir.tbe.DataBlk])]
    /\ dir' = [dir EXCEPT !.state = "M_DRDI", !.owner = {}]
    /\ UNCHANGED <<cache, cpu, dma, fatal, latest>>

\* The data goes to the device and, in parallel, to memory.
M_DRD_PUTX(c) ==
    /\ Requested(c, "PUTX") /\ dir.state = "M_DRD"
    /\ LET data == Head(net.request[c]).DataBlk
       IN  /\ queueMemoryWrite(c, data)
           /\ net' = [net EXCEPT
                        !.request[c] = Tail(@),
                        !.dmaResponse[dir.tbe.DmaRequestor] =
                           Append(@, [Type |-> "DATA", DataBlk |-> data])]
    /\ dir' = [dir EXCEPT !.state = "M_DRDI", !.owner = {}]
    /\ UNCHANGED <<cache, cpu, dma, fatal, latest>>

\* Mutant of M_DWR_PUTX: the cache's data is written, not the device's.
M_DWR_PUTX_swapped(c) ==
    /\ Requested(c, "PUTX") /\ dir.state = "M_DWR"
    /\ queueMemoryWritePartial(c, Head(net.request[c]).DataBlk, dir.tbe.Len)
    /\ latest' = Written(dir.tbe)
    /\ dir' = [dir EXCEPT !.state = "M_DWRI", !.owner = {}]
    /\ net' = [net EXCEPT !.request[c] = Tail(@)]
    /\ UNCHANGED <<cache, cpu, dma, fatal>>

\* What the device writes goes to memory, and the data of the PUTX nowhere.
M_DWR_PUTX(c) ==
    /\ Requested(c, "PUTX") /\ dir.state = "M_DWR"
    /\ queueMemoryWritePartial(c, dir.tbe.DataBlk, dir.tbe.Len)
    /\ latest' = Written(dir.tbe)
    /\ dir' = [dir EXCEPT !.state = "M_DWRI", !.owner = {}]
    /\ net' = [net EXCEPT !.request[c] = Tail(@)]
    /\ UNCHANGED <<cache, cpu, dma, fatal>>

M_DWRI_Memory_Ack ==
    /\ FromMemory("MEMORY_WB") /\ dir.state = "M_DWRI"
    /\ sendWriteBackAck([net EXCEPT !.dmaResponse[dir.tbe.DmaRequestor] =
                            Append(@, DMAAck)])
    /\ dir' = [dir EXCEPT !.state = "I", !.tbe = None]
    /\ popMemQueue
    /\ UNCHANGED <<cache, cpu, dma, fatal, latest>>

-----------------------------------------------------------------------------
(* The DMA sequencer and its controller.                                   *)

\* One outstanding request; the block is clear outside the request's bytes.
\* A longer request is a sequence of these, one for each line.
makeDMARequest(d) ==
    /\ ~fatal
    /\ ~dma[d].busy
    /\ \E offset \in Bytes, v \in Values, write \in BOOLEAN :
          \E len \in 1 .. BlockSize - offset :
             dma' = [dma EXCEPT
                ![d].busy = TRUE,
                ![d].queue = Append(@,
                   [Type |-> IF write THEN "WRITE" ELSE "READ",
                    Offset |-> offset, Len |-> len,
                    DataBlk |-> [b \in Bytes |->
                       IF write /\ b \in offset .. offset + len - 1
                       THEN v ELSE 0]])]
    /\ UNCHANGED <<cache, cpu, dir, net, memory, fatal, latest>>

READY_Request(d) ==
    /\ ~fatal
    /\ dma[d].queue # <<>> /\ dma[d].state = "READY"
    /\ LET m == Head(dma[d].queue)
       IN  /\ net' = [net EXCEPT !.dmaRequest[d] = Append(@, m)]
           /\ dma' = [dma EXCEPT
                        ![d].state = IF m.Type = "READ" THEN "BUSY_RD"
                                     ELSE "BUSY_WR",
                        ![d].queue = Tail(@)]
    /\ UNCHANGED <<cache, cpu, dir, memory, fatal, latest>>

\* dataCallback, ackCallback and issueNext for the last line of a request.
BUSY_Response(d) ==
    /\ ~fatal
    /\ net.dmaResponse[d] # <<>>
    /\ <<dma[d].state, Head(net.dmaResponse[d]).Type>>
          \in {<<"BUSY_RD", "DATA">>, <<"BUSY_WR", "ACK">>}
    /\ dma' = [dma EXCEPT ![d].state = "READY", ![d].busy = FALSE]
    /\ net' = [net EXCEPT !.dmaResponse[d] = Tail(@)]
    /\ UNCHANGED <<cache, cpu, dir, memory, fatal, latest>>

-----------------------------------------------------------------------------
(* Events that a controller has no transition for.                         *)

\* Mutant of CacheTable: no transition for a refused writeback in II.
CacheTable_noNack ==
    {"I", "M", "IS", "IM", "MI", "II", "MII"} \X {"Load_Store", "Replacement"}
    \cup {"IS", "IM", "M", "MI", "MII"} \X {"GETX"}
    \cup {"IS", "IM", "M", "MI", "I"} \X {"INV"}
    \cup {"IS", "IM"} \X {"DATA"}
    \cup {"MI"} \X {"WB_ACK", "WB_NACK"}

CacheTable ==
    {"I", "M", "IS", "IM", "MI", "II", "MII"} \X {"Load_Store", "Replacement"}
    \cup {"IS", "IM", "M", "MI", "MII"} \X {"GETX"}
    \cup {"IS", "IM", "M", "MI", "I"} \X {"INV"}
    \cup {"IS", "IM"} \X {"DATA"}
    \cup {"MI"} \X {"WB_ACK"}
    \cup {"MI", "II"} \X {"WB_NACK"}

DirTable ==
    DirStates \X {"GETX"}
    \cup {"IM", "MI", "ID", "ID_W", "M", "M_DRD", "M_DWR"} \X {"PUTX"}
    \cup {"IM", "MI", "ID", "ID_W", "M", "I"} \X {"PUTX_NotOwner"}
    \cup {"IM", "MI", "ID", "ID_W", "M", "I"} \X {"READ", "WRITE"}
    \cup {"IM", "ID"} \X {"MEMORY_READ"}
    \cup {"ID_W", "M_DRDI", "M_DWRI", "MI"} \X {"MEMORY_WB"}

DMATable == {<<"READY", "READ">>, <<"READY", "WRITE">>,
             <<"BUSY_RD", "DATA">>, <<"BUSY_WR", "ACK">>}

\* The types of the messages at the head of a buffer.
HeadType(q) == IF q = <<>> THEN {} ELSE {Head(q).Type}

CacheEvents(c) ==
    HeadType(net.forward[c])
    \cup (IF net.response[c] # <<>> THEN {"DATA"} ELSE {})
    \cup (IF cpu[c].queued THEN {"Load_Store"} ELSE {})
    \cup (IF cache[c].entry # None THEN {"Replacement"} ELSE {})

DirEvents ==
    {DirEvent(c) : c \in {x \in Caches : net.request[x] # <<>>}}
    \cup (UNION {HeadType(net.dmaRequest[d]) : d \in DMAs})
    \cup HeadType(memory.fromMemory)

DMAEvents(d) == HeadType(dma[d].queue) \cup HeadType(net.dmaResponse[d])

\* fatal("Invalid transition") ends the simulation.
InvalidTransition ==
    /\ ~fatal
    /\ \/ \E c \in Caches : \E e \in CacheEvents(c) :
             <<cache[c].state, e>> \notin CacheTable
       \/ \E e \in DirEvents : <<dir.state, e>> \notin DirTable
       \/ \E d \in DMAs : \E e \in DMAEvents(d) :
             <<dma[d].state, e>> \notin DMATable
    /\ fatal' = TRUE
    /\ UNCHANGED <<cache, cpu, dir, dma, net, memory, latest>>

-----------------------------------------------------------------------------
\* What a cache controller does with the messages and requests it has.
CacheStep(c) ==
    \/ M_Load_Store(c) \/ I_Load_Store(c) \/ Data(c)
    \/ M_Fwd_GETX(c) \/ ee_sendDataFromTBE(c)
    \/ M_Inv(c) \/ MI_Inv(c) \/ I_Inv(c)
    \/ MI_Writeback_Ack(c) \/ Writeback_Nack(c)

\* What the directory does with a request of a cache, of a DMA controller, and
\* with an answer of the memory.
DirRequest(c) == \/ I_GETX(c) \/ M_GETX(c) \/ M_PUTX(c) \/ PUTX_NotOwner(c)
                 \/ M_DRD_PUTX(c) \/ M_DWR_PUTX(c)
DirDMA(d) == I_DMA_READ(d) \/ I_DMA_WRITE(d) \/ M_DMA(d)
DirMemory == \/ IM_Memory_Data \/ MI_Memory_Ack \/ ID_Memory_Data
             \/ ID_W_Memory_Ack \/ M_DWRI_Memory_Ack

DMAStep(d) == READY_Request(d) \/ BUSY_Response(d)

Next ==
    \/ \E c \in Caches : \/ \E type \in {"LD", "ST"} : makeRequest(c, type)
                         \/ CacheStep(c)
                         \/ I_Replacement(c) \/ M_Replacement(c)
                         \/ DirRequest(c)
    \/ \E d \in DMAs : makeDMARequest(d) \/ DMAStep(d) \/ DirDMA(d)
    \/ DirMemory
    \/ memoryAccess
    \/ InvalidTransition

Spec == Init /\ [][Next]_vars

\* A controller with a message wakes up until it has handled it, and the memory
\* answers.  Nobody is obliged to issue requests or to replace lines.  Nothing
\* is assumed of a request that is recycled over and over.
FairSpec ==
    /\ Spec
    /\ \A c \in Caches : WF_vars(CacheStep(c)) /\ WF_vars(DirRequest(c))
    /\ \A d \in DMAs : WF_vars(DMAStep(d)) /\ WF_vars(DirDMA(d))
    /\ WF_vars(DirMemory)
    /\ WF_vars(memoryAccess)

-----------------------------------------------------------------------------
\* Single writer: when a cache can write the line no other cache can use it, no
\* copy is under way to one, and the memory is neither read nor written for one.
SingleWriter ==
    \A c \in Caches : cache[c].state = "M" =>
       /\ \A x \in Caches \ {c} : cache[x].state # "M"
       /\ \A x \in Caches : net.response[x] = <<>>
       /\ memory.toMemory = <<>> /\ memory.fromMemory = <<>>

\* The copies that will be used are those the last write left: the entry of the
\* cache in M (what a load returns), data under way to a cache, the TBE of an
\* owner that writes back, and the memory when the directory is idle in I.
LatestData ==
    /\ \A c \in Caches : cache[c].state = "M" => cache[c].entry = latest
    /\ \A c \in Caches : \A blk \in Range(net.response[c]) : blk = latest
    /\ \A c \in dir.owner : cache[c].state \in {"MI", "MII"} =>
                               cache[c].tbe = latest
    /\ dir.state = "I" => memory.line = latest

\* The data a device is sent for a DMA read is what the last write left at that
\* moment, whether it comes from memory or out of a cache's writeback.
DMAReadsLatest ==
    [][\A d \in DMAs :
          Len(net'.dmaResponse[d]) > Len(net.dmaResponse[d]) =>
             LET q == net'.dmaResponse[d]
                 m == q[Len(q)]
             IN  m.Type = "DATA" => m.DataBlk = latest]_vars

\* The assertions of the directory's setState on Owner, and what they are for:
\* in M the line is with the owner or on its way to it, in I with no cache.
OwnerAccurate ==
    /\ dir.state = "M" => Cardinality(dir.owner) = 1
    /\ dir.state = "I" => /\ dir.owner = {}
                          /\ \A c \in Caches : /\ cache[c].state # "M"
                                               /\ net.response[c] = <<>>
    /\ \A c \in Caches : cache[c].state = "M" /\ c \notin dir.owner =>
          \E m \in Range(net.forward[c]) : m.Type = "GETX"

\* The line is coherent: one writer, known to the directory, and what anybody will
\* use is what the last write left (the transitions of the three controllers).
Coherent == TypeOK /\ SingleWriter /\ OwnerAccurate /\ LatestData

\* A controller has one request and at most one answer to it under way for the
\* line: no TBE is allocated twice and no buffer grows without bound.
OneTransaction ==
    /\ \A c \in Caches : /\ Len(net.request[c]) <= 1
                         /\ Len(net.response[c]) <= 1
                         /\ Len(net.forward[c]) <= 3
    /\ Len(memory.toMemory) + Len(memory.fromMemory) <= 1

\* No controller meets an event that its state has no transition for, so none
\* stops the simulation with "Invalid transition".
NoInvalidTransition == ~fatal

\* Requests do not hang: as long as some processor or device waits for an
\* answer, one of those waiting gets it.
Completes ==
    \/ \E c \in Caches : /\ cpu[c].outstanding # None
                         /\ cpu'[c].outstanding = None
    \/ \E d \in DMAs : dma[d].busy /\ ~dma'[d].busy

Idle == /\ \A c \in Caches : cpu[c].outstanding = None
        /\ \A d \in DMAs : ~dma[d].busy

SomeoneProgresses == []<>Idle \/ []<><<Completes>>_vars
=============================================================================

-------------------------- MODULE MIExampleProofs --------------------------
(***************************************************************************)
(* Theorems about MIExample, for any number of caches and DMA controllers, *)
(* any block size and any values.                                          *)
(*                                                                         *)
(* What the caches and the directory believe of one another is seldom      *)
(* true at the same time, so no state of a controller is an invariant by   *)
(* itself.  The inductive invariant IInv accounts for what is under way:   *)
(* the request of a cache that misses is in its buffer, at the directory,  *)
(* in front of the former owner or answered (Missing); the line of a cache *)
(* that gives it up is with the cache until the directory takes it or has  *)
(* the cache pass it on (WritingBack, Passing); and of all that could turn *)
(* into a copy only one exists, none while the directory has the line      *)
(* (Holding).  Where the line is then says where the latest data are       *)
(* (Latest).                                                               *)
(*                                                                         *)
(* There is a section for the buffers, one for the types, one for the      *)
(* invariant, and a lemma for each transition, or for each kind of         *)
(* transition, of the cache, the directory and the DMA controller.  The    *)
(* last section bounds the forward buffers (FInv): an invalidation may     *)
(* stay in one after the line it was for is gone, so that the next comes   *)
(* on top of it.                                                           *)
(***************************************************************************)
EXTENDS MIExample, TLAPS

-----------------------------------------------------------------------------
(* Messages in a buffer.                                                   *)

\* A message of this type is in q.
Has(q, type) == \E i \in 1 .. Len(q) : q[i].Type = type

\* A request in q asks for data to be sent to r.
Asks(q, r) == \E i \in 1 .. Len(q) : q[i].Type = "GETX" /\ q[i].Requestor = r

\* At most one message of these types is in q.
Once(q, types) ==
    \A i, j \in 1 .. Len(q) : q[i].Type \in types /\ q[j].Type \in types => i = j

\* Messages of this type, and no others, are in q.
Only(q, type) == \A t : Has(q, t) <=> type = t

\* r is q with m put in somewhere.
Extends(r, q, m) ==
    /\ \A type : Has(r, type) <=> Has(q, type) \/ m.Type = type
    /\ \A x : Asks(r, x) <=> Asks(q, x) \/ (m.Type = "GETX" /\ m.Requestor = x)
    /\ \A types : Once(q, types) /\ (\A type \in types : ~Has(q, type)) =>
                     Once(r, types)
    /\ \A types : Once(q, types) /\ m.Type \notin types => Once(r, types)

\* Nothing is in an empty buffer.
LEMMA EmptyBuffer ==
    /\ \A type : ~Has(<<>>, type)
    /\ \A x : ~Asks(<<>>, x)
    /\ \A types : Once(<<>>, types)
  BY DEF Has, Asks, Once

\* enqueue() puts a message in.
LEMMA AppendExtends ==
    ASSUME NEW S, NEW q \in Seq(S), NEW m \in S
    PROVE  Extends(Append(q, m), q, m)
  <1> DEFINE r == Append(q, m)
             n == Len(q)
  <1>1. /\ n \in Nat /\ Len(r) = n + 1 /\ r[n + 1] = m
        /\ \A i \in 1 .. n : r[i] = q[i]
    OBVIOUS
  <1> HIDE DEF r, n
  <1>2. \A i \in 1 .. Len(r) : i \in 1 .. n \/ i = n + 1
    BY <1>1
  <1>3. 1 .. n \subseteq 1 .. Len(r) /\ n + 1 \in 1 .. Len(r)
    BY <1>1
  <1>4. \A type : Has(r, type) <=> Has(q, type) \/ m.Type = type
    BY Zenon, <1>1, <1>2, <1>3 DEF Has, n
  <1>5. \A x : Asks(r, x) <=> Asks(q, x) \/ (m.Type = "GETX" /\ m.Requestor = x)
    BY Zenon, <1>1, <1>2, <1>3 DEF Asks, n
  <1>6. ASSUME NEW types, Once(q, types),
               \/ m.Type \notin types \/ \A type \in types : ~Has(q, type)
        PROVE  Once(r, types)
    BY Zenon, <1>1, <1>2, <1>6 DEF Once, Has, n
  <1> QED BY Zenon, <1>4, <1>5, <1>6 DEF Extends, r

\* Two buffers, one after the other.
LEMMA Joined ==
    ASSUME NEW S, NEW q \in Seq(S), NEW r \in Seq(S)
    PROVE  q \o r \in Seq(S) /\ Len(q \o r) = Len(q) + Len(r)
  OBVIOUS

\* So does an enqueue() that other messages overtake.
LEMMA InsertExtends ==
    ASSUME NEW S, NEW q \in Seq(S), NEW m \in S, NEW k \in 1 .. Len(q) + 1
    PROVE  Extends(InsertAt(q, k, m), q, m) /\ InsertAt(q, k, m) \in Seq(S)
  <1> DEFINE r == InsertAt(q, k, m)
             n == Len(q)
  <1>0. n \in Nat /\ k \in 1 .. n + 1
    OBVIOUS
  <1>1. /\ SubSeq(q, 1, k - 1) \in Seq(S) /\ Len(SubSeq(q, 1, k - 1)) = k - 1
        /\ \A i \in 1 .. k - 1 : SubSeq(q, 1, k - 1)[i] = q[i]
    BY SMT
  <1>2. /\ SubSeq(q, k, n) \in Seq(S) /\ Len(SubSeq(q, k, n)) = n - k + 1
        /\ \A i \in 1 .. n - k + 1 : SubSeq(q, k, n)[i] = q[k + i - 1]
    BY SMT
  <1> DEFINE front == SubSeq(q, 1, k - 1)
             back == SubSeq(q, k, n)
  <1> HIDE DEF front, back, n
  <1>3. /\ r \in Seq(S) /\ Len(r) = n + 1
        /\ \A i \in 1 .. k - 1 : r[i] = q[i]
        /\ r[k] = m
        /\ \A i \in k + 1 .. n + 1 : r[i] = q[i - 1]
    <2>1. r = (front \o <<m>>) \o back
      BY Zenon DEF InsertAt, front, back, n
    <2> DEFINE fm == front \o <<m>>
    <2>2. /\ fm \in Seq(S) /\ Len(fm) = k /\ fm[k] = m
          /\ \A i \in 1 .. k - 1 : fm[i] = q[i]
      BY <1>0, <1>1 DEF front
    <2>c. back \in Seq(S) /\ Len(back) = n - k + 1
      BY Zenon, <1>2 DEF back
    <2>d. r = fm \o back
      BY Zenon, <2>1
    <2> HIDE DEF fm, r
    <2>3. r \in Seq(S) /\ Len(r) = n + 1
      <3>1. r \in Seq(S) /\ Len(r) = Len(fm) + Len(back)
        BY Zenon, <2>2, <2>c, <2>d, Joined
      <3> QED BY <1>0, <2>2, <2>c, <3>1
    <2>4. \A i \in 1 .. k : r[i] = fm[i]
      BY <1>0, <2>2, <2>c, <2>d
    <2>5. \A i \in k + 1 .. n + 1 : r[i] = back[i - k]
      BY <1>0, <2>2, <2>c, <2>d
    <2>6. \A i \in k + 1 .. n + 1 : back[i - k] = q[i - 1]
      <3> SUFFICES ASSUME NEW i \in k + 1 .. n + 1 PROVE back[i - k] = q[i - 1]
        BY Zenon
      <3>1. i - k \in 1 .. n - k + 1 /\ k + (i - k) - 1 = i - 1
        BY <1>0
      <3> QED BY Zenon, <1>2, <3>1 DEF back
    <2> QED BY <1>0, <2>2, <2>3, <2>4, <2>5, <2>6
  <1> HIDE DEF r
  <1>a. \A i \in 1 .. Len(r) : i = k \/ \E j \in 1 .. n : r[i] = q[j]
                                                      /\ i = IF j < k THEN j ELSE j + 1
    <2> SUFFICES ASSUME NEW i \in 1 .. n + 1, i # k
                 PROVE  \E j \in 1 .. n : r[i] = q[j] /\ i = IF j < k THEN j ELSE j + 1
      BY Zenon, <1>3
    <2>1. CASE i < k
      BY <1>0, <1>3, <2>1
    <2>2. CASE i > k
      <3>1. i - 1 \in 1 .. n /\ r[i] = q[i - 1] /\ ~(i - 1 < k) /\ i = (i - 1) + 1
        BY <1>0, <1>3, <2>2
      <3> QED BY Zenon, <3>1
    <2> QED BY <1>0, <2>1, <2>2
  <1>b. /\ k \in 1 .. Len(r)
        /\ \A j \in 1 .. n : \E i \in 1 .. Len(r) : r[i] = q[j]
    <2>1. k \in 1 .. Len(r)
      BY Zenon, <1>0, <1>3
    <2> SUFFICES ASSUME NEW j \in 1 .. n PROVE \E i \in 1 .. Len(r) : r[i] = q[j]
      BY Zenon, <2>1
    <2>2. CASE j < k
      BY <1>0, <1>3, <2>2
    <2>3. CASE ~(j < k)
      <3>1. j + 1 \in k + 1 .. n + 1 /\ j + 1 \in 1 .. Len(r) /\ (j + 1) - 1 = j
        BY <1>0, <1>3, <2>3
      <3> QED BY Zenon, <1>3, <3>1
    <2> QED BY Zenon, <2>2, <2>3
  <1>4. \A type : Has(r, type) <=> Has(q, type) \/ m.Type = type
    <2>1. ASSUME NEW type, Has(r, type) PROVE Has(q, type) \/ m.Type = type
      BY Zenon, <1>3, <1>a, <2>1 DEF Has, n
    <2>2. ASSUME NEW type, Has(q, type) \/ m.Type = type PROVE Has(r, type)
      BY Zenon, <1>3, <1>b, <2>2 DEF Has, n
    <2> QED BY Zenon, <2>1, <2>2
  <1>5. \A x : Asks(r, x) <=> Asks(q, x) \/ (m.Type = "GETX" /\ m.Requestor = x)
    <2>1. ASSUME NEW x, Asks(r, x)
          PROVE  Asks(q, x) \/ (m.Type = "GETX" /\ m.Requestor = x)
      BY Zenon, <1>3, <1>a, <2>1 DEF Asks, n
    <2>2. ASSUME NEW x, Asks(q, x) \/ (m.Type = "GETX" /\ m.Requestor = x)
          PROVE  Asks(r, x)
      BY Zenon, <1>3, <1>b, <2>2 DEF Asks, n
    <2> QED BY Zenon, <2>1, <2>2
  <1>6. ASSUME NEW types, Once(q, types),
               \/ m.Type \notin types \/ \A type \in types : ~Has(q, type)
        PROVE  Once(r, types)
    <2> SUFFICES ASSUME NEW i \in 1 .. Len(r), NEW j \in 1 .. Len(r),
                        r[i].Type \in types, r[j].Type \in types
                 PROVE  i = j
      BY Zenon DEF Once
    <2>1. CASE m.Type \notin types
      <3>1. PICK x \in 1 .. n : r[i] = q[x] /\ i = IF x < k THEN x ELSE x + 1
        BY Zenon, <1>3, <1>a, <2>1
      <3>2. PICK y \in 1 .. n : r[j] = q[y] /\ j = IF y < k THEN y ELSE y + 1
        BY Zenon, <1>3, <1>a, <2>1
      <3>3. x = y
        BY Zenon, <1>6, <3>1, <3>2 DEF Once, n
      <3> QED BY Zenon, <3>1, <3>2, <3>3
    <2>2. CASE \A type \in types : ~Has(q, type)
      BY Zenon, <1>a, <2>2 DEF Has, n
    <2> QED BY Zenon, <1>6, <2>1, <2>2
  <1> QED BY Zenon, <1>3, <1>4, <1>5, <1>6 DEF Extends, r

\* dequeue() takes a message out.
LEMMA TailShrinks ==
    ASSUME NEW S, NEW q \in Seq(S), q # <<>>
    PROVE  /\ Extends(q, Tail(q), Head(q)) /\ Tail(q) \in Seq(S) /\ Head(q) \in S
           /\ \A types : Once(q, types) => Once(Tail(q), types)
           /\ \A types : Once(q, types) /\ Head(q).Type \in types =>
                            \A type \in types : ~Has(Tail(q), type)
  <1> DEFINE r == Tail(q)
             m == Head(q)
             n == Len(r)
  <1>1. /\ r \in Seq(S) /\ m \in S /\ n \in Nat /\ Len(q) = n + 1
        /\ q[1] = m
        /\ \A i \in 1 .. n : r[i] = q[i + 1]
    OBVIOUS
  <1> HIDE DEF r, n, m
  <1>2. \A i \in 1 .. Len(q) : i = 1 \/ (i - 1 \in 1 .. n /\ q[i] = r[i - 1])
    BY <1>1
  <1>3. 1 \in 1 .. Len(q) /\ \A i \in 1 .. n : i + 1 \in 1 .. Len(q)
    BY <1>1
  <1>4. \A type : Has(q, type) <=> Has(r, type) \/ m.Type = type
    <2>1. ASSUME NEW type, Has(q, type) PROVE Has(r, type) \/ m.Type = type
      BY Zenon, <1>1, <1>2, <2>1 DEF Has, n
    <2>2. ASSUME NEW type, Has(r, type) \/ m.Type = type PROVE Has(q, type)
      BY Zenon, <1>1, <1>3, <2>2 DEF Has, n
    <2> QED BY Zenon, <2>1, <2>2
  <1>5. \A x : Asks(q, x) <=> Asks(r, x) \/ (m.Type = "GETX" /\ m.Requestor = x)
    <2>1. ASSUME NEW x, Asks(q, x)
          PROVE  Asks(r, x) \/ (m.Type = "GETX" /\ m.Requestor = x)
      BY Zenon, <1>1, <1>2, <2>1 DEF Asks, n
    <2>2. ASSUME NEW x, Asks(r, x) \/ (m.Type = "GETX" /\ m.Requestor = x)
          PROVE  Asks(q, x)
      BY Zenon, <1>1, <1>3, <2>2 DEF Asks, n
    <2> QED BY Zenon, <2>1, <2>2
  <1>6. ASSUME NEW types, Once(r, types),
               \/ m.Type \notin types \/ \A type \in types : ~Has(r, type)
        PROVE  Once(q, types)
    <2> SUFFICES ASSUME NEW i \in 1 .. Len(q), NEW j \in 1 .. Len(q),
                        q[i].Type \in types, q[j].Type \in types
                 PROVE  i = j
      BY Zenon DEF Once
    <2>1. CASE m.Type \notin types
      <3>1. /\ i - 1 \in 1 .. n /\ q[i] = r[i - 1]
            /\ j - 1 \in 1 .. n /\ q[j] = r[j - 1]
        BY Zenon, <1>1, <1>2, <2>1
      <3>2. i - 1 = j - 1
        BY Zenon, <1>6, <3>1 DEF Once, n
      <3> QED BY <1>1, <3>2
    <2>2. CASE \A type \in types : ~Has(r, type)
      BY Zenon, <1>1, <1>2, <2>2 DEF Has, n
    <2> QED BY Zenon, <1>6, <2>1, <2>2
  <1>7. ASSUME NEW types, Once(q, types) PROVE Once(r, types)
    <2> SUFFICES ASSUME NEW i \in 1 .. n, NEW j \in 1 .. n,
                        r[i].Type \in types, r[j].Type \in types
                 PROVE  i = j
      BY Zenon DEF Once, n
    <2>1. i + 1 = j + 1
      BY Zenon, <1>1, <1>3, <1>7 DEF Once
    <2> QED BY <1>1, <2>1
  <1>8. ASSUME NEW types, Once(q, types), m.Type \in types,
               NEW type \in types, Has(r, type)
        PROVE  FALSE
    <2>1. PICK i \in 1 .. n : r[i].Type = type
      BY Zenon, <1>8 DEF Has, n
    <2>2. i + 1 = 1
      BY Zenon, <1>1, <1>3, <1>8, <2>1 DEF Once
    <2> QED BY <1>1, <2>2
  <1>9. Extends(q, r, m)
    BY Zenon, <1>4, <1>5, <1>6 DEF Extends
  <1> QED BY Zenon, <1>1, <1>7, <1>8, <1>9 DEF r, m

-----------------------------------------------------------------------------
(* Types.                                                                  *)

CacheType == [state : CacheStates, entry : DataBlock \cup {None},
              tbe : DataBlock \cup {None}]
CPUType == [outstanding : {None, "LD", "ST"}, queued : BOOLEAN]
DirType == [state : DirStates, owner : SUBSET Caches, tbe : DirTBE \cup {None}]
DMAType == [state : DMAStates, busy : BOOLEAN, queue : Seq(DMARequestMsg)]
Requests == [Caches -> Seq(RequestMsg)]
Forwards == [Caches -> Seq(ForwardMsg)]
Responses == [Caches -> Seq(DataBlock)]
DMARequests == [DMAs -> Seq(DMARequestMsg)]
DMAResponses == [DMAs -> Seq(DMAResponseMsg)]
NetType == [request : Requests, forward : Forwards, response : Responses,
            dmaRequest : DMARequests, dmaResponse : DMAResponses]
MemoryType == [line : DataBlock, toMemory : Seq(MemoryMsg),
               fromMemory : Seq(MemoryMsg)]

\* TypeOK, with the shape of every variable.
Types ==
    /\ cache \in [Caches -> CacheType]
    /\ cpu \in [Caches -> CPUType]
    /\ dir \in DirType
    /\ dma \in [DMAs -> DMAType]
    /\ net \in NetType
    /\ memory \in MemoryType
    /\ fatal \in BOOLEAN
    /\ latest \in DataBlock

\* What is there when it is used: the entry in M and the TBE of a writeback, and
\* the directory's TBE for a DMA request.
Allocated ==
    /\ \A c \in Caches :
          /\ cache[c].state = "M" => cache[c].entry \in DataBlock
          /\ cache[c].state \in {"MI", "MII"} => cache[c].tbe \in DataBlock
    /\ dir.state \in {"M_DRD", "M_DWR", "M_DRDI", "M_DWRI", "ID", "ID_W"} =>
          dir.tbe \in DirTBE /\ dir.tbe.DmaRequestor \in DMAs

\* The directory's states in which caches have the line, and in which the
\* memory is writing it.
Lent == {"M", "M_DRD", "M_DWR"}
Writing == {"MI", "M_DRDI", "M_DWRI"}

InMemory == IF memory.toMemory # <<>> THEN Head(memory.toMemory)
            ELSE Head(memory.fromMemory)
Id == InMemory.OriginalRequestorMachId

\* The memory has the one request that the state of the directory tells.
OneInMemory ==
    IF dir.state \in Lent \cup {"I"}
    THEN memory.toMemory = <<>> /\ memory.fromMemory = <<>>
    ELSE /\ \/ Len(memory.toMemory) = 1 /\ memory.fromMemory = <<>>
            \/ memory.toMemory = <<>> /\ Len(memory.fromMemory) = 1
         /\ dir.state = "IM" => Id \in dir.owner
         /\ dir.state \in Writing => Id \in Caches
         /\ InMemory.Type = IF dir.state \in {"IM", "ID"} THEN "MEMORY_READ"
                            ELSE "MEMORY_WB"

TInv == Types /\ Allocated /\ OneInMemory

\* The line before any data has arrived.
LEMMA ClearType == Clear \in DataBlock
  BY Zenon, MIAssumption DEF Clear, DataBlock

\* The controllers start with values of their types.
LEMMA InitTInv == Init => TInv
  <1> SUFFICES ASSUME Init PROVE TInv
    BY Zenon
  <1>1. cache \in [Caches -> CacheType] /\ cpu \in [Caches -> CPUType]
    BY Zenon DEF Init, CacheType, CPUType, CacheStates
  <1>2. dir \in DirType /\ dma \in [DMAs -> DMAType]
    BY DEF Init, DirType, DMAType, DirStates, DMAStates
  <1>3. net \in NetType
    <2>1. /\ [c \in Caches |-> <<>>] \in Requests
          /\ [c \in Caches |-> <<>>] \in Forwards
          /\ [c \in Caches |-> <<>>] \in Responses
          /\ [d \in DMAs |-> <<>>] \in DMARequests
          /\ [d \in DMAs |-> <<>>] \in DMAResponses
      BY DEF Requests, Forwards, Responses, DMARequests, DMAResponses
    <2> QED BY Zenon, <2>1 DEF Init, NetType
  <1>4. memory \in MemoryType /\ fatal \in BOOLEAN /\ latest \in DataBlock
    <2>1. <<>> \in Seq(MemoryMsg)
      OBVIOUS
    <2> QED BY Zenon, ClearType, <2>1 DEF Init, MemoryType
  <1>5. Allocated /\ OneInMemory
    BY Zenon DEF Init, Allocated, OneInMemory, Lent
  <1> QED BY Zenon, <1>1, <1>2, <1>3, <1>4, <1>5 DEF TInv, Types

\* A buffer of length 0 is empty.
LEMMA NoMessage ==
    ASSUME NEW S, NEW q \in Seq(S), Len(q) = 0 PROVE q = <<>>
  OBVIOUS

\* Taking out the only message leaves an empty buffer.
LEMMA OneMessage ==
    ASSUME NEW S, NEW q \in Seq(S), q # <<>>, Len(q) <= 1
    PROVE  Tail(q) = <<>> /\ Len(q) = 1
  <1>1. Tail(q) \in Seq(S) /\ Len(q) \in Nat /\ Len(q) # 0
        /\ Len(Tail(q)) = Len(q) - 1
    OBVIOUS
  <1>2. Len(q) = 1 /\ Len(Tail(q)) = 0
    BY <1>1
  <1> QED BY Zenon, <1>1, <1>2, NoMessage

\* Caches send no requests but GETX and PUTX.
LEMMA NoRequest ==
    ASSUME NEW q \in Seq(RequestMsg), ~Has(q, "GETX"), ~Has(q, "PUTX")
    PROVE  q = <<>>
  <1> SUFFICES ASSUME q # <<>> PROVE FALSE
    BY Zenon
  <1>1. Has(q, Head(q).Type) /\ Head(q) \in RequestMsg
    BY Zenon, TailShrinks DEF Extends
  <1> QED BY Zenon, <1>1 DEF RequestMsg

NetOf(rq, fw, rs, dq, dr) ==
    [request |-> rq, forward |-> fw, response |-> rs,
     dmaRequest |-> dq, dmaResponse |-> dr]

\* f with s at c.
Put(f, c, s) == [f EXCEPT ![c] = s]

\* The network, put together from its buffers.
LEMMA NetOfType ==
    ASSUME NEW rq \in Requests, NEW fw \in Forwards, NEW rs \in Responses,
           NEW dq \in DMARequests, NEW dr \in DMAResponses
    PROVE  /\ NetOf(rq, fw, rs, dq, dr) \in NetType
           /\ NetOf(rq, fw, rs, dq, dr).request = rq
           /\ NetOf(rq, fw, rs, dq, dr).forward = fw
           /\ NetOf(rq, fw, rs, dq, dr).response = rs
  BY Zenon DEF NetType, NetOf

\* The network, taken apart.
LEMMA NetFields ==
    ASSUME net \in NetType
    PROVE  /\ net.request \in Requests /\ net.forward \in Forwards
           /\ net.response \in Responses /\ net.dmaRequest \in DMARequests
           /\ net.dmaResponse \in DMAResponses
           /\ net = NetOf(net.request, net.forward, net.response, net.dmaRequest,
                          net.dmaResponse)
           /\ \A c \in Caches : /\ net.request[c] \in Seq(RequestMsg)
                                /\ net.forward[c] \in Seq(ForwardMsg)
                                /\ net.response[c] \in Seq(DataBlock)
           /\ \A d \in DMAs : /\ net.dmaRequest[d] \in Seq(DMARequestMsg)
                              /\ net.dmaResponse[d] \in Seq(DMAResponseMsg)
  <1>1. /\ net.request \in Requests /\ net.forward \in Forwards
        /\ net.response \in Responses /\ net.dmaRequest \in DMARequests
        /\ net.dmaResponse \in DMAResponses
    BY Zenon DEF NetType
  <1>2. net = NetOf(net.request, net.forward, net.response, net.dmaRequest,
                    net.dmaResponse)
    BY Zenon DEF NetType, NetOf
  <1> QED BY Zenon, <1>1, <1>2 DEF Requests, Forwards, Responses, DMARequests, DMAResponses

\* A request is sent, to a buffer that has none.
LEMMA PutRequest ==
    ASSUME net \in NetType, NEW c \in Caches, NEW m \in RequestMsg,
           net.request[c] = <<>>,
           NEW rq, rq = Put(net.request, c, Append(net.request[c], m))
    PROVE  /\ rq \in Requests
           /\ \A x \in Caches : x # c => rq[x] = net.request[x]
           /\ Len(rq[c]) <= 1 /\ Head(rq[c]) = m
           /\ Only(rq[c], m.Type)
  <1> DEFINE q == net.request[c]
             r == Append(q, m)
  <1>1. q \in Seq(RequestMsg) /\ q = <<>>
    BY Zenon, NetFields
  <1>2. rq = Put(net.request, c, r)
    BY Zenon
  <1> HIDE DEF q
  <1>3. r \in Seq(RequestMsg) /\ Len(r) = Len(q) + 1 /\ Len(q) = 0
    BY <1>1
  <1>4. Only(r, m.Type)
    BY Zenon, <1>1, AppendExtends, EmptyBuffer DEF Extends, Only
  <1>l. Len(r) <= 1
    BY <1>3
  <1>h. Head(r) = m
    BY <1>1
  <1> HIDE DEF r
  <1>5. /\ rq \in Requests /\ rq[c] = r
        /\ \A x \in Caches : x # c => rq[x] = net.request[x]
    BY Zenon, <1>2, <1>3, NetFields DEF Requests, Put
  <1> QED BY <1>l, <1>h, <1>3, <1>4, Zenon, <1>5

\* The only request of a buffer is taken.
LEMMA GetRequest ==
    ASSUME net \in NetType, NEW c \in Caches,
           net.request[c] # <<>>, Len(net.request[c]) <= 1,
           NEW rq, rq = Put(net.request, c, Tail(net.request[c]))
    PROVE  /\ Head(net.request[c]) \in RequestMsg
           /\ rq \in Requests /\ rq[c] = <<>>
           /\ \A x \in Caches : x # c => rq[x] = net.request[x]
           /\ Only(net.request[c], Head(net.request[c]).Type)
  <1> DEFINE q == net.request[c]
  <1>1. q \in Seq(RequestMsg) /\ q # <<>> /\ Len(q) <= 1
    BY Zenon, NetFields
  <1> HIDE DEF q
  <1>2. Tail(q) = <<>> /\ Head(q) \in RequestMsg
    BY <1>1, OneMessage
  <1>3. Only(q, Head(q).Type)
    <2>1. Extends(q, Tail(q), Head(q))
      BY Zenon, <1>1, TailShrinks
    <2>2. \A type : ~Has(Tail(q), type)
      BY Zenon, <1>2, EmptyBuffer
    <2> QED BY Zenon, <2>1, <2>2 DEF Extends, Only
  <1>4. <<>> \in Seq(RequestMsg)
    OBVIOUS
  <1>5. rq = Put(net.request, c, <<>>)
    BY Zenon, <1>2 DEF q
  <1>6. /\ rq \in Requests /\ rq[c] = <<>>
        /\ \A x \in Caches : x # c => rq[x] = net.request[x]
    BY Zenon, <1>4, <1>5, NetFields DEF Requests, Put
  <1> QED BY Zenon, <1>2, <1>3, <1>6 DEF q

\* A message is taken from the buffer of forwarded ones.
LEMMA GetForward ==
    ASSUME net \in NetType, NEW c \in Caches, net.forward[c] # <<>>,
           Once(net.forward[c], {"GETX"}),
           Once(net.forward[c], {"WB_ACK", "WB_NACK"}),
           NEW fw, fw = Put(net.forward, c, Tail(net.forward[c]))
    PROVE  /\ Head(net.forward[c]) \in ForwardMsg /\ fw \in Forwards
           /\ \A x \in Caches : x # c => fw[x] = net.forward[x]
           /\ Extends(net.forward[c], fw[c], Head(net.forward[c]))
           /\ Once(fw[c], {"GETX"}) /\ Once(fw[c], {"WB_ACK", "WB_NACK"})
           /\ Head(net.forward[c]).Type = "GETX" => ~Has(fw[c], "GETX")
           /\ Head(net.forward[c]).Type \in {"WB_ACK", "WB_NACK"} =>
                 ~Has(fw[c], "WB_ACK") /\ ~Has(fw[c], "WB_NACK")
  <1> DEFINE q == net.forward[c]
  <1>1. q \in Seq(ForwardMsg) /\ q # <<>>
    BY Zenon, NetFields
  <1> HIDE DEF q
  <1>2. /\ Extends(q, Tail(q), Head(q)) /\ Tail(q) \in Seq(ForwardMsg)
        /\ Head(q) \in ForwardMsg
        /\ \A types : Once(q, types) => Once(Tail(q), types)
        /\ \A types : Once(q, types) /\ Head(q).Type \in types =>
                         \A type \in types : ~Has(Tail(q), type)
    BY Zenon, <1>1, TailShrinks
  <1>3. /\ fw[c] = Tail(q) /\ fw \in Forwards
        /\ \A x \in Caches : x # c => fw[x] = net.forward[x]
    BY Zenon, <1>2, NetFields DEF Forwards, Put, q
  <1>4. Once(q, {"GETX"}) /\ Once(q, {"WB_ACK", "WB_NACK"})
    BY Zenon DEF q
  <1>5. /\ Once(fw[c], {"GETX"}) /\ Once(fw[c], {"WB_ACK", "WB_NACK"})
        /\ Head(q).Type = "GETX" => ~Has(fw[c], "GETX")
        /\ Head(q).Type \in {"WB_ACK", "WB_NACK"} =>
              ~Has(fw[c], "WB_ACK") /\ ~Has(fw[c], "WB_NACK")
    BY Zenon, <1>2, <1>3, <1>4
  <1> QED BY Zenon, <1>2, <1>3, <1>5 DEF q

\* A message is put into it, wherever.
LEMMA AppendForward ==
    ASSUME net \in NetType, NEW c \in Caches, NEW m \in ForwardMsg,
           NEW fw, fw = Put(net.forward, c, Append(net.forward[c], m))
    PROVE  /\ fw \in Forwards /\ Extends(fw[c], net.forward[c], m)
           /\ \A x \in Caches : x # c => fw[x] = net.forward[x]
  <1> DEFINE s == Append(net.forward[c], m)
  <1>1. net.forward[c] \in Seq(ForwardMsg)
    BY Zenon, NetFields
  <1>2. Extends(s, net.forward[c], m)
    BY Zenon, <1>1, AppendExtends
  <1>3. s \in Seq(ForwardMsg) /\ fw = Put(net.forward, c, s)
    BY <1>1
  <1> HIDE DEF s
  <1>4. /\ fw \in Forwards /\ fw[c] = s
        /\ \A x \in Caches : x # c => fw[x] = net.forward[x]
    BY Zenon, <1>3, NetFields DEF Forwards, Put
  <1> QED BY Zenon, <1>2, <1>4

\* The data of a line is sent to a cache that has none, and taken by it.
LEMMA PutResponse ==
    ASSUME net \in NetType, NEW c \in Caches, NEW m \in DataBlock,
           net.response[c] = <<>>,
           NEW rs, rs = Put(net.response, c, Append(net.response[c], m))
    PROVE  /\ rs \in Responses /\ rs[c] # <<>> /\ Len(rs[c]) <= 1 /\ Head(rs[c]) = m
           /\ \A x \in Caches : x # c => rs[x] = net.response[x]
  <1> DEFINE q == net.response[c]
             r == Append(q, m)
  <1>1. q \in Seq(DataBlock) /\ q = <<>>
    BY Zenon, NetFields
  <1>2. rs = Put(net.response, c, r)
    BY Zenon
  <1> HIDE DEF q
  <1>3. r \in Seq(DataBlock) /\ Len(r) = Len(q) + 1 /\ Len(q) = 0 /\ r # <<>>
    BY <1>1
  <1>l. Len(r) <= 1
    BY <1>3
  <1>h. Head(r) = m
    BY <1>1
  <1> HIDE DEF r
  <1>4. /\ rs \in Responses /\ rs[c] = r
        /\ \A x \in Caches : x # c => rs[x] = net.response[x]
    BY Zenon, <1>2, <1>3, NetFields DEF Responses, Put
  <1> QED BY <1>l, <1>h, <1>3, <1>4, Zenon

\* A cache takes its answer.
LEMMA GetResponse ==
    ASSUME net \in NetType, NEW c \in Caches,
           net.response[c] # <<>>, Len(net.response[c]) <= 1,
           NEW rs, rs = Put(net.response, c, Tail(net.response[c]))
    PROVE  /\ Head(net.response[c]) \in DataBlock
           /\ rs \in Responses /\ rs[c] = <<>> /\ Len(rs[c]) <= 1
           /\ \A x \in Caches : x # c => rs[x] = net.response[x]
  <1> DEFINE q == net.response[c]
  <1>1. q \in Seq(DataBlock) /\ q # <<>> /\ Len(q) <= 1
    BY Zenon, NetFields
  <1> HIDE DEF q
  <1>2. Tail(q) = <<>> /\ Head(q) \in DataBlock
    BY <1>1, OneMessage
  <1>3. <<>> \in Seq(DataBlock) /\ Len(<<>>) = 0
    OBVIOUS
  <1>4. rs = Put(net.response, c, <<>>)
    BY Zenon, <1>2 DEF q
  <1>5. /\ rs \in Responses /\ rs[c] = <<>>
        /\ \A x \in Caches : x # c => rs[x] = net.response[x]
    BY Zenon, <1>3, <1>4, NetFields DEF Responses, Put
  <1> QED BY <1>2, <1>3, <1>5 DEF q

\* The directory gives the memory something to do.
LEMMA QueueMemory ==
    ASSUME TInv, dir.state \in Lent \cup {"I"},
           NEW type \in {"MEMORY_READ", "MEMORY_WB"}, NEW id \in Caches \cup DMAs,
           NEW data \in DataBlock, queueMemory(type, id, data)
    PROVE  /\ memory' \in MemoryType /\ memory'.line = memory.line
           /\ Len(memory'.toMemory) = 1 /\ memory'.fromMemory = <<>>
           /\ memory'.toMemory # <<>>
           /\ InMemory'.Type = type /\ Id' = id /\ InMemory'.DataBlk = data
  <1> DEFINE m == [Type |-> type, DataBlk |-> data, OriginalRequestorMachId |-> id]
  <1>1. m \in MemoryMsg /\ m.Type = type /\ m.DataBlk = data
        /\ m.OriginalRequestorMachId = id
    BY Zenon DEF MemoryMsg
  <1>2. memory.toMemory = <<>> /\ memory.fromMemory = <<>> /\ memory \in MemoryType
    BY Zenon DEF TInv, OneInMemory, Types
  <1>3. memory' = [memory EXCEPT !.toMemory = Append(<<>>, m)]
    BY Zenon, <1>2 DEF queueMemory
  <1> HIDE DEF m
  <1>4. /\ Append(<<>>, m) \in Seq(MemoryMsg) /\ Append(<<>>, m) # <<>>
        /\ Len(Append(<<>>, m)) = 1 /\ Head(Append(<<>>, m)) = m
    BY <1>1
  <1>5. /\ memory'.toMemory = Append(<<>>, m) /\ memory'.fromMemory = <<>>
        /\ memory'.line = memory.line /\ memory' \in MemoryType
    BY Zenon, <1>2, <1>3, <1>4 DEF MemoryType
  <1> QED BY Zenon, <1>1, <1>4, <1>5 DEF InMemory, Id

\* The directory takes the answer of the memory.
LEMMA PopMemory ==
    ASSUME TInv, NEW type, FromMemory(type), popMemQueue
    PROVE  /\ memory' \in MemoryType /\ memory'.line = memory.line
           /\ memory'.toMemory = <<>> /\ memory'.fromMemory = <<>>
           /\ Answer \in MemoryMsg /\ Answer = InMemory /\ Answer.Type = type
           /\ Answer.OriginalRequestorMachId = Id
           /\ dir.state \notin Lent \cup {"I"}
           /\ memory.toMemory = <<>> /\ memory.fromMemory # <<>>
  <1>1. /\ memory \in MemoryType /\ memory.fromMemory # <<>>
        /\ Answer.Type = type
    BY Zenon DEF TInv, Types, FromMemory, Answer
  <1>2. /\ dir.state \notin Lent \cup {"I"} /\ memory.toMemory = <<>>
        /\ Len(memory.fromMemory) = 1
    BY Zenon, <1>1 DEF TInv, OneInMemory
  <1>3. memory.fromMemory \in Seq(MemoryMsg)
    BY Zenon, <1>1 DEF MemoryType
  <1>4. Tail(memory.fromMemory) = <<>> /\ Answer \in MemoryMsg
    <2> DEFINE q == memory.fromMemory
    <2>1. q \in Seq(MemoryMsg) /\ q # <<>> /\ Len(q) <= 1
      BY <1>1, <1>2, <1>3
    <2> HIDE DEF q
    <2>2. Tail(q) = <<>> /\ Head(q) \in MemoryMsg
      BY <2>1, OneMessage
    <2> QED BY Zenon, <2>2 DEF Answer, q
  <1>5. <<>> \in Seq(MemoryMsg)
    OBVIOUS
  <1>6. memory' = [memory EXCEPT !.fromMemory = <<>>]
    BY Zenon, <1>4 DEF popMemQueue
  <1>7. /\ memory' \in MemoryType /\ memory'.line = memory.line
        /\ memory'.toMemory = <<>> /\ memory'.fromMemory = <<>>
    BY Zenon, <1>1, <1>2, <1>5, <1>6 DEF MemoryType
  <1> QED BY Zenon, <1>1, <1>2, <1>4, <1>7 DEF InMemory, Id, Answer

-----------------------------------------------------------------------------
(* Where the line is.                                                      *)

state(c) == cache[c].state
Misses == {"IS", "IM"}

Asking(c) == Has(net.request[c], "GETX")
Putting(c) == Has(net.request[c], "PUTX")
Sent(c, type) == Has(net.forward[c], type)
Waits(c, o) == Asks(net.forward[o], c)
Answered(c) == net.response[c] # <<>>

\* The directory has taken the line that c writes back.
BeingWritten(c) == dir.state \in Writing /\ Id = c
Taken(c) == BeingWritten(c) \/ Sent(c, "WB_ACK")

\* c has the line, or it is on its way to c.
Holds(c) ==
    \/ state(c) = "M"
    \/ Answered(c)
    \/ state(c) \in {"MI", "MII"} /\ ~Taken(c)

Buffers(c) ==
    /\ Len(net.request[c]) <= 1
    /\ Len(net.response[c]) <= 1
    /\ Once(net.forward[c], {"GETX"})
    /\ Once(net.forward[c], {"WB_ACK", "WB_NACK"})

\* The request of a cache that misses is in one place.
Missing(c) ==
    /\ Asking(c) => /\ state(c) \in Misses /\ c \notin dir.owner
                    /\ ~Answered(c) /\ ~Sent(c, "GETX")
                    /\ \A o \in Caches : ~Waits(c, o)
    /\ dir.state = "IM" /\ c \in dir.owner =>
          state(c) \in Misses /\ ~Answered(c) /\ \A o \in Caches : ~Waits(c, o)
    /\ \A o \in Caches : Waits(c, o) => /\ state(c) \in Misses /\ ~Answered(c)
                                        /\ \A p \in Caches : Waits(c, p) => p = o
    /\ Answered(c) => state(c) \in Misses

\* So is the writeback of one that gives the line up.
WritingBack(c) ==
    /\ Putting(c) => state(c) \in {"MI", "II"} /\ ~Taken(c) /\ ~Sent(c, "WB_NACK")
    /\ BeingWritten(c) =>
          state(c) = "MI" /\ ~Sent(c, "WB_ACK") /\ ~Sent(c, "WB_NACK")
    /\ Sent(c, "WB_ACK") => state(c) = "MI"
    /\ Sent(c, "WB_NACK") => state(c) \in {"MI", "II"}

\* A cache that the directory believes to be the owner has or awaits the line, one
\* that has or awaits it and is not the owner has been told to pass it on.
Passing(c) ==
    /\ Sent(c, "GETX") => /\ c \notin dir.owner /\ ~Taken(c)
                          /\ state(c) \in Misses \cup {"M", "MI", "MII"}
                          /\ \E r \in Caches : Waits(r, c)
    /\ c \in dir.owner => /\ state(c) \in Misses \cup {"M", "MI"}
                          /\ ~Sent(c, "WB_ACK") /\ ~Sent(c, "WB_NACK")
    /\ state(c) \in Misses \cup {"M"} =>
          Asking(c) \/ c \in dir.owner \/ Sent(c, "GETX")

\* One cache at most has the line, and none does when the directory has it.
Holding(c) ==
    Holds(c) => dir.state \in Lent /\ \A x \in Caches : Holds(x) => x = c

OneOwner == IF dir.state \in Lent \cup {"IM"}
            THEN \E c \in Caches : dir.owner = {c} ELSE dir.owner = {}

LInv == \A c \in Caches :
    Buffers(c) /\ Missing(c) /\ WritingBack(c) /\ Passing(c) /\ Holding(c)

\* Only DMA has lines invalidated.
NoInv == \A c \in Caches : Sent(c, "INV") => DMAs # {}

\* Devices write whole lines, if there are devices.
WholeLines == BlockSize = 1 \/ DMAs = {}

\* What a cache has of the line, or has sent.
Copy(c) ==
    /\ state(c) = "M" => cache[c].entry = latest
    /\ Answered(c) => Head(net.response[c]) = latest
    /\ state(c) \in {"MI", "MII"} /\ ~Taken(c) => cache[c].tbe = latest
    /\ Putting(c) /\ state(c) = "MI" => Head(net.request[c]).DataBlk = cache[c].tbe

\* What the memory has, or is to write or to answer.
MemoryLatest ==
    /\ dir.state \in {"I", "IM", "ID"} => memory.line = latest
    /\ dir.state \in {"IM", "ID"} /\ memory.fromMemory # <<>> =>
          InMemory.DataBlk = latest
    /\ dir.state \in Writing \cup {"ID_W"} =>
          IF memory.toMemory # <<>> THEN InMemory.DataBlk = latest
          ELSE memory.line = latest

Latest == MemoryLatest /\ \A c \in Caches : Copy(c)

DInv == WholeLines => Latest

IInv == TInv /\ OneOwner /\ LInv /\ NoInv /\ DInv

\* The invariant holds when the controllers start.
LEMMA InitIInv == Init => IInv
  <1> SUFFICES ASSUME Init PROVE IInv
    BY Zenon
  <1>1. \A c \in Caches : /\ net.request[c] = <<>> /\ net.forward[c] = <<>>
                          /\ net.response[c] = <<>> /\ state(c) = "I"
    BY Zenon DEF Init, state
  <1>2. dir.state = "I" /\ dir.owner = {}
    BY Zenon DEF Init
  <1>3. OneOwner
    BY Zenon, <1>2 DEF OneOwner, Lent
  <1>4. \A c \in Caches : Buffers(c) /\ Missing(c) /\ WritingBack(c)
    BY <1>1, <1>2, EmptyBuffer
    DEF Buffers, Missing, WritingBack, Asking, Putting, Sent, Waits, Answered,
        BeingWritten, Taken, Writing
  <1>5. \A c \in Caches : Passing(c) /\ Holding(c)
    BY Zenon, <1>1, <1>2, EmptyBuffer
    DEF Passing, Holding, Sent, Misses, Holds, Answered
  <1>6. NoInv
    BY Zenon, <1>1, EmptyBuffer DEF NoInv, Sent
  <1>7. Latest
    BY Zenon, <1>1, <1>2, EmptyBuffer
    DEF Init, Latest, MemoryLatest, Copy, Answered, Putting, Writing
  <1> QED BY Zenon, <1>3, <1>4, <1>5, <1>6, <1>7, InitTInv DEF IInv, LInv, DInv

\* What the invariant says of each cache.
LEMMA Parts ==
    ASSUME IInv
    PROVE  /\ net \in NetType
           /\ \A x \in Caches : /\ Buffers(x) /\ Missing(x) /\ WritingBack(x)
                                /\ Passing(x) /\ Holding(x)
  BY Zenon DEF IInv, TInv, Types, LInv

\* The latest data is where it was.
LEMMA Kept ==
    ASSUME NEW x \in Caches, Copy(x), UNCHANGED latest, cache'[x] = cache[x],
           Answered(x)' => net'.response[x] = net.response[x],
           Putting(x)' => net'.request[x] = net.request[x],
           Taken(x) => Taken(x)'
    PROVE  Copy(x)'
  BY Zenon DEF Copy, state, Answered, Putting

\* A cache without the line may go without the latest data.
LEMMA NotHolding ==
    ASSUME NEW x \in Caches, Copy(x), ~Holds(x)', cache'[x] = cache[x],
           Putting(x)' => net'.request[x] = net.request[x]
    PROVE  Copy(x)'
  BY Zenon DEF Copy, state, Holds, Putting

\* Nothing is asked of the memory while the line is lent.
LEMMA LentMemory == dir'.state \in Lent => MemoryLatest'
  BY Zenon DEF MemoryLatest, Lent, Writing

\* The memory is as good as it was.
LEMMA SameMemoryLatest ==
    ASSUME MemoryLatest, UNCHANGED <<memory, latest>>, dir'.state = dir.state
    PROVE  MemoryLatest'
  BY Zenon DEF MemoryLatest, InMemory

\* The memory has the one request that it had.
LEMMA SameMemory ==
    ASSUME OneInMemory, UNCHANGED memory, dir'.state = dir.state,
           dir'.owner = dir.owner
    PROVE  OneInMemory' /\ Id' = Id
  BY Zenon DEF OneInMemory, InMemory, Id

\* Of the messages that are forwarded, invalidations matter to nothing below.
SameForward(x) ==
    /\ Sent(x, "GETX")' <=> Sent(x, "GETX")
    /\ Sent(x, "WB_ACK")' <=> Sent(x, "WB_ACK")
    /\ Sent(x, "WB_NACK")' <=> Sent(x, "WB_NACK")
    /\ Sent(x, "INV")' => Sent(x, "INV") \/ DMAs # {}
    /\ \A r \in Caches : Waits(r, x)' <=> Waits(r, x)
    /\ Once(net'.forward[x], {"GETX"})
    /\ Once(net'.forward[x], {"WB_ACK", "WB_NACK"})

\* A cache whose forward buffer did not change.
LEMMA UnchangedForward ==
    ASSUME NEW x \in Caches, Buffers(x), net'.forward[x] = net.forward[x]
    PROVE  SameForward(x)
  BY Zenon DEF SameForward, Buffers, Sent, Waits

\* A step that moves neither the line nor a request for it.
LEMMA Quiet ==
    ASSUME IInv, TInv',
           \A x \in Caches : state(x)' = state(x) /\ SameForward(x),
           net'.request = net.request, net'.response = net.response,
           dir'.owner = dir.owner,
           dir'.state \in Lent <=> dir.state \in Lent,
           dir'.state \in Writing <=> dir.state \in Writing,
           dir'.state = "IM" <=> dir.state = "IM",
           dir.state \in Writing => Id' = Id,
           WholeLines /\ Latest =>
              /\ MemoryLatest'
              /\ \A x \in Caches : (cache'[x] = cache[x] /\ latest' = latest) \/ Copy(x)'
    PROVE  IInv'
  <1>1. \A x \in Caches : /\ Asking(x)' = Asking(x) /\ Putting(x)' = Putting(x)
                          /\ Answered(x)' = Answered(x)
                          /\ BeingWritten(x)' = BeingWritten(x)
    BY Zenon DEF Asking, Putting, Answered, BeingWritten
  <1>2. \A x \in Caches : Taken(x)' = Taken(x)
    BY Zenon, <1>1 DEF Taken, SameForward
  <1>3. OneOwner'
    BY Zenon DEF OneOwner, IInv
  <1>4. ASSUME NEW x \in Caches
        PROVE  /\ Buffers(x)' /\ Missing(x)' /\ WritingBack(x)'
               /\ Passing(x)' /\ Holding(x)'
    <2>1. Buffers(x)'
      BY Zenon, Parts DEF Buffers, SameForward
    <2>2. Missing(x)'
      BY Zenon, <1>1, Parts DEF Missing, SameForward
    <2>3. WritingBack(x)'
      BY Zenon, <1>1, <1>2, Parts DEF WritingBack, SameForward
    <2>4. Passing(x)'
      BY Zenon, <1>1, <1>2, Parts DEF Passing, SameForward
    <2>5. Holding(x)'
      BY Zenon, <1>1, <1>2, Parts DEF Holding, Holds, SameForward
    <2> QED BY Zenon, <2>1, <2>2, <2>3, <2>4, <2>5
  <1>5. NoInv'
    BY Zenon DEF NoInv, IInv, SameForward
  <1>6. DInv'
    <2> SUFFICES ASSUME WholeLines, Latest, NEW x \in Caches PROVE Copy(x)'
      BY Zenon DEF DInv, Latest, IInv
    <2>q. (cache'[x] = cache[x] /\ latest' = latest) \/ Copy(x)'
      BY Zenon
    <2>1. /\ net'.response[x] = net.response[x] /\ net'.request[x] = net.request[x]
          /\ Copy(x) /\ (Taken(x) => Taken(x)')
      BY Zenon, <1>2 DEF Latest
    <2> QED BY Zenon, <2>1, <2>q, Kept
  <1> QED BY Zenon, <1>3, <1>4, <1>5, <1>6 DEF IInv, LInv

-----------------------------------------------------------------------------
(* The processors and the caches.                                          *)

\* The sequencer takes a request of the processor.
LEMMA Request ==
    ASSUME IInv, NEW c \in Caches, NEW type \in {"LD", "ST"}, makeRequest(c, type)
    PROVE  IInv'
  <1>1. UNCHANGED <<cache, dir, dma, net, memory, fatal, latest>>
    BY Zenon DEF makeRequest
  <1>2. cpu' \in [Caches -> CPUType]
    BY Zenon DEF IInv, TInv, Types, makeRequest, CPUType
  <1>3. TInv'
    <2>1. Types'
      BY Zenon, <1>1, <1>2 DEF IInv, TInv, Types
    <2>2. Allocated' /\ OneInMemory'
      BY Zenon, <1>1, SameMemory DEF IInv, TInv, Allocated
    <2> QED BY Zenon, <2>1, <2>2 DEF TInv
  <1>4. \A x \in Caches : state(x)' = state(x) /\ SameForward(x)
    BY Zenon, <1>1, Parts, UnchangedForward DEF state
  <1>5. Id' = Id
    BY Zenon, <1>1 DEF Id, InMemory
  <1>6. Latest => MemoryLatest'
    BY Zenon, <1>1, SameMemoryLatest DEF Latest
  <1> QED BY Zenon, <1>1, <1>3, <1>4, <1>5, <1>6, Quiet

\* A line in I is dropped.
LEMMA Replacement ==
    ASSUME IInv, NEW c \in Caches, I_Replacement(c) PROVE IInv'
  <1>1. UNCHANGED <<cpu, dir, dma, net, memory, fatal, latest>>
    BY Zenon DEF I_Replacement
  <1>2. /\ cache' \in [Caches -> CacheType] /\ cache[c].state = "I"
        /\ cache'[c].state = "I"
        /\ \A x \in Caches : x # c => cache'[x] = cache[x]
    BY Zenon DEF IInv, TInv, Types, I_Replacement, CacheType
  <1>3. TInv'
    <2>1. Types'
      BY Zenon, <1>1, <1>2 DEF IInv, TInv, Types
    <2>2. Allocated' /\ OneInMemory'
      BY Zenon, <1>1, <1>2, SameMemory DEF IInv, TInv, Allocated
    <2> QED BY Zenon, <2>1, <2>2 DEF TInv
  <1>4. \A x \in Caches : state(x)' = state(x) /\ SameForward(x)
    BY Zenon, <1>1, <1>2, Parts, UnchangedForward DEF state
  <1>5. Id' = Id
    BY Zenon, <1>1 DEF Id, InMemory
  <1>6. Latest => MemoryLatest'
    BY Zenon, <1>1, SameMemoryLatest DEF Latest
  <1>7. Copy(c)'
    <2>1. state(c)' = "I" /\ ~Answered(c)'
      BY Zenon, <1>1, <1>2, Parts DEF Missing, Misses, Answered, state
    <2> QED BY Zenon, <2>1 DEF Copy
  <1>8. \A x \in Caches : (cache'[x] = cache[x] /\ latest' = latest) \/ Copy(x)'
    BY Zenon, <1>1, <1>2, <1>7
  <1> QED BY Zenon, <1>1, <1>3, <1>4, <1>5, <1>6, <1>8, Quiet

\* A hit, of a request that waited or that finds the line in the cache.
LEMMA HitCallback ==
    ASSUME TInv, NEW c \in Caches, NEW data \in DataBlock, hitCallback(c, data)
    PROVE  /\ cpu' \in [Caches -> CPUType] /\ cache' \in [Caches -> CacheType]
           /\ cache'[c].state = "M" /\ cache'[c].entry \in DataBlock
           /\ \A x \in Caches : x # c => cache'[x] = cache[x]
           /\ latest' \in DataBlock
           /\ data = latest => cache'[c].entry = latest'
  <1>1. cpu' \in [Caches -> CPUType]
    BY Zenon DEF TInv, Types, hitCallback, CPUType
  <1>2. PICK entry \in DataBlock :
           /\ cache' = [cache EXCEPT ![c] =
                          [state |-> "M", entry |-> entry, tbe |-> None]]
           /\ latest' \in DataBlock
           /\ data = latest => entry = latest'
    <2>1. latest \in DataBlock
      BY Zenon DEF TInv, Types
    <2>2. \A blk \in DataBlock : \A b \in Bytes, v \in Values :
             [blk EXCEPT ![b] = v] \in DataBlock
      BY Zenon DEF DataBlock
    <2> QED BY <2>1, <2>2 DEF hitCallback
  <1>3. cache \in [Caches -> CacheType]
    BY Zenon DEF TInv, Types
  <1>4. [state |-> "M", entry |-> entry, tbe |-> None] \in CacheType
    BY Zenon DEF CacheType, CacheStates
  <1>5. cache'[c] = [state |-> "M", entry |-> entry, tbe |-> None]
    BY Zenon, <1>2, <1>3
  <1>6. /\ cache' \in [Caches -> CacheType]
        /\ \A x \in Caches : x # c => cache'[x] = cache[x]
    BY Zenon, <1>2, <1>3, <1>4
  <1> QED BY Zenon, <1>1, <1>2, <1>5, <1>6

\* A load or a store hits in M.
LEMMA Hit ==
    ASSUME IInv, NEW c \in Caches, M_Load_Store(c) PROVE IInv'
  <1>1. UNCHANGED <<dir, dma, net, memory, fatal>> /\ cache[c].state = "M"
    BY Zenon DEF M_Load_Store
  <1>2. cache[c].entry \in DataBlock /\ hitCallback(c, cache[c].entry)
    BY Zenon, <1>1 DEF IInv, TInv, Allocated, M_Load_Store
  <1>3. /\ cpu' \in [Caches -> CPUType] /\ cache' \in [Caches -> CacheType]
        /\ cache'[c].state = "M" /\ cache'[c].entry \in DataBlock
        /\ \A x \in Caches : x # c => cache'[x] = cache[x]
        /\ latest' \in DataBlock
        /\ cache[c].entry = latest => cache'[c].entry = latest'
    BY Zenon, <1>2, HitCallback DEF IInv
  <1>4. TInv'
    <2>1. Types'
      BY Zenon, <1>1, <1>3 DEF IInv, TInv, Types
    <2>2. Allocated' /\ OneInMemory'
      BY Zenon, <1>1, <1>3, SameMemory DEF IInv, TInv, Allocated
    <2> QED BY Zenon, <2>1, <2>2 DEF TInv
  <1>5. \A x \in Caches : state(x)' = state(x) /\ SameForward(x)
    BY Zenon, <1>1, <1>3, Parts, UnchangedForward DEF state
  <1>6. Id' = Id
    BY Zenon, <1>1 DEF Id, InMemory
  <1>7. dir.state \in Lent /\ ~Answered(c) /\ \A x \in Caches : Holds(x) => x = c
    BY Zenon, <1>1, Parts DEF Holding, Holds, Missing, Misses, state
  <1>8. MemoryLatest'
    BY Zenon, <1>1, <1>7, LentMemory
  <1>9. ASSUME Latest, NEW x \in Caches PROVE Copy(x)'
    <2>1. CASE x = c
      <3>1. state(c)' = "M" /\ ~Answered(c)' /\ cache'[c].entry = latest'
        BY Zenon, <1>1, <1>3, <1>7, <1>9 DEF state, Answered, Latest, Copy
      <3> QED BY Zenon, <2>1, <3>1 DEF Copy
    <2>2. CASE x # c
      <3>1. /\ state(x)' = state(x) /\ (Answered(x)' <=> Answered(x))
            /\ (Taken(x)' <=> Taken(x))
        BY Zenon, <1>1, <1>5, <1>6 DEF Answered, Taken, BeingWritten, Sent
      <3>2. ~Holds(x)'
        BY Zenon, <1>7, <2>2, <3>1 DEF Holds
      <3> QED BY Zenon, <1>1, <1>3, <1>9, <2>2, <3>2, NotHolding DEF Latest
    <2> QED BY Zenon, <2>1, <2>2
  <1>10. Latest => \A x \in Caches : (cache'[x] = cache[x] /\ latest' = latest) \/ Copy(x)'
    BY Zenon, <1>9
  <1> QED BY Zenon, <1>1, <1>4, <1>5, <1>6, <1>8, <1>10, Quiet

\* What the line invariant says of the caches, in the next state.
LEMMA LineNext ==
    ASSUME \A x \in Caches : /\ Buffers(x)' /\ Missing(x)' /\ WritingBack(x)'
                             /\ Passing(x)' /\ Holding(x)'
    PROVE  LInv'
  BY Zenon DEF LInv

\* A miss asks the directory for the line.
LEMMA Miss ==
    ASSUME IInv, NEW c \in Caches, I_Load_Store(c) PROVE IInv'
  <1> USE DEF IInv, TInv
  <1> DEFINE m == [Type |-> "GETX", DataBlk |-> Clear]
             rq == Put(net.request, c, Append(net.request[c], m))
  <1>0. net \in NetType
    BY Zenon DEF Types
  <1>l. \A x \in Caches : /\ Buffers(x) /\ Missing(x) /\ WritingBack(x)
                          /\ Passing(x) /\ Holding(x)
    BY Zenon DEF LInv
  <1>1. state(c) = "I" /\ m \in RequestMsg /\ m.Type = "GETX"
    BY Zenon, ClearType DEF I_Load_Store, state, RequestMsg
  <1>2. net.request[c] = <<>>
    <2>1. ~Asking(c) /\ ~Putting(c)
      BY Zenon, <1>1, <1>l DEF Missing, WritingBack, Misses
    <2> QED BY Zenon, <1>0, <2>1, NetFields, NoRequest DEF Asking, Putting
  <1>3. UNCHANGED <<dir, dma, memory, fatal, latest>>
    BY Zenon DEF I_Load_Store
  <1>4. /\ cache' \in [Caches -> CacheType] /\ state(c)' \in Misses
        /\ \A x \in Caches : x # c => cache'[x] = cache[x]
    BY Zenon, ClearType DEF Types, I_Load_Store, CacheType, CacheStates, Misses, state
  <1>5. cpu' \in [Caches -> CPUType]
    BY Zenon DEF Types, I_Load_Store, CPUType
  <1>6. net' = NetOf(rq, net.forward, net.response, net.dmaRequest, net.dmaResponse)
    BY Zenon, <1>0 DEF I_Load_Store, NetType, NetOf, Put
  <1>e. rq = Put(net.request, c, Append(net.request[c], m))
    BY Zenon
  <1> HIDE DEF m, rq
  <1>7. /\ rq \in Requests
        /\ \A x \in Caches : x # c => rq[x] = net.request[x]
        /\ Len(rq[c]) <= 1
        /\ Only(rq[c], m.Type)
    BY Zenon, <1>0, <1>1, <1>2, <1>e, PutRequest
  <1>8. /\ net' \in NetType /\ net'.request = rq
        /\ net'.forward = net.forward /\ net'.response = net.response
    BY <1>0, <1>6, <1>7, NetFields, NetOfType
  <1>9. TInv'
    <2>1. Types'
      BY Zenon, <1>3, <1>4, <1>5, <1>8 DEF Types
    <2>2. Allocated'
      BY Zenon, <1>3, <1>4 DEF Allocated, Misses, state
    <2>3. OneInMemory'
      BY Zenon, <1>3 DEF OneInMemory, InMemory, Id
    <2> QED BY Zenon, <2>1, <2>2, <2>3
  <1>10. /\ Asking(c)' /\ ~Putting(c)'
         /\ \A x \in Caches :
              /\ x # c => /\ Asking(x)' = Asking(x) /\ Putting(x)' = Putting(x)
                          /\ state(x)' = state(x)
              /\ \A type : Sent(x, type)' = Sent(x, type)
              /\ \A o \in Caches : Waits(x, o)' = Waits(x, o)
              /\ Answered(x)' = Answered(x)
              /\ BeingWritten(x)' = BeingWritten(x) /\ Taken(x)' = Taken(x)
    BY Zenon, <1>1, <1>3, <1>4, <1>7, <1>8
    DEF Only, Asking, Putting, state, Sent, Waits, Answered, BeingWritten, Taken, Id,
        InMemory
  <1>11. OneOwner'
    BY Zenon, <1>3 DEF OneOwner
  <1>12. ASSUME NEW x \in Caches
         PROVE  /\ Buffers(x)' /\ Missing(x)' /\ WritingBack(x)'
                /\ Passing(x)' /\ Holding(x)'
    <2>1. Buffers(x)'
      BY Zenon, <1>7, <1>8, <1>l DEF Buffers
    <2>2. Missing(x)'
      BY Zenon, <1>1, <1>3, <1>4, <1>10, <1>l DEF Missing, Passing, Misses
    <2>3. WritingBack(x)'
      BY Zenon, <1>1, <1>3, <1>4, <1>10, <1>l DEF WritingBack
    <2>4. Passing(x)'
      BY <1>1, <1>3, <1>4, <1>10, <1>l DEF Passing
    <2>5. Holding(x)'
      BY <1>1, <1>3, <1>4, <1>10, <1>l DEF Holding, Holds, Misses
    <2> QED BY Zenon, <2>1, <2>2, <2>3, <2>4, <2>5
  <1>i. NoInv'
    BY Zenon, <1>10 DEF NoInv, IInv
  <1>v. DInv'
    <2> SUFFICES ASSUME WholeLines, Latest PROVE Latest'
      BY Zenon DEF DInv, IInv
    <2>1. ASSUME NEW x \in Caches PROVE Copy(x)'
      <3>1. CASE x = c
        <4>1. state(c)' \in Misses /\ ~Answered(c)' /\ ~Putting(c)'
          BY Zenon, <1>1, <1>4, <1>10, <1>l DEF Missing, Misses
        <4> QED BY Zenon, <3>1, <4>1 DEF Copy, Misses
      <3>2. CASE x # c
        BY Zenon, <1>3, <1>4, <1>7, <1>8, <1>10, <3>2, Kept DEF Latest
      <3> QED BY Zenon, <3>1, <3>2
    <2>2. MemoryLatest'
      BY Zenon, <1>3, SameMemoryLatest DEF Latest
    <2> QED BY Zenon, <2>1, <2>2 DEF Latest
  <1> QED BY Zenon, <1>9, <1>11, <1>12, <1>i, <1>v, LineNext

\* The data of a miss.
LEMMA Filled ==
    ASSUME IInv, NEW c \in Caches, Data(c) PROVE IInv'
  <1> DEFINE rs == Put(net.response, c, Tail(net.response[c]))
  <1>0. net \in NetType
    BY Zenon, Parts
  <1>1. /\ UNCHANGED <<dir, dma, memory, fatal>> /\ state(c) \in Misses
        /\ Answered(c) /\ hitCallback(c, Head(net.response[c]))
    BY Zenon DEF Data, state, Misses, Answered
  <1>2. net' = NetOf(net.request, net.forward, rs, net.dmaRequest, net.dmaResponse)
    BY Zenon, <1>0 DEF Data, NetType, NetOf, Put
  <1>e. rs = Put(net.response, c, Tail(net.response[c]))
    BY Zenon
  <1> HIDE DEF rs
  <1>3. /\ Head(net.response[c]) \in DataBlock
        /\ rs \in Responses /\ rs[c] = <<>> /\ Len(rs[c]) <= 1
        /\ \A x \in Caches : x # c => rs[x] = net.response[x]
    BY <1>0, <1>1, <1>e, Parts, GetResponse DEF Answered, Buffers
  <1>4. /\ net' \in NetType /\ net'.request = net.request
        /\ net'.forward = net.forward /\ net'.response = rs
    BY <1>0, <1>2, <1>3, NetFields, NetOfType
  <1>5. /\ cpu' \in [Caches -> CPUType] /\ cache' \in [Caches -> CacheType]
        /\ cache'[c].state = "M" /\ cache'[c].entry \in DataBlock
        /\ \A x \in Caches : x # c => cache'[x] = cache[x]
        /\ latest' \in DataBlock
        /\ Head(net.response[c]) = latest => cache'[c].entry = latest'
    BY Zenon, <1>1, <1>3, HitCallback DEF IInv
  <1>6. TInv'
    <2>1. Types'
      BY Zenon, <1>1, <1>4, <1>5 DEF IInv, TInv, Types
    <2>2. Allocated' /\ OneInMemory'
      BY Zenon, <1>1, <1>5, SameMemory DEF IInv, TInv, Allocated
    <2> QED BY Zenon, <2>1, <2>2 DEF TInv
  <1>7. /\ state(c)' = "M" /\ ~Answered(c)'
        /\ \A x \in Caches :
              /\ x # c => state(x)' = state(x) /\ Answered(x)' = Answered(x)
              /\ Asking(x)' = Asking(x) /\ Putting(x)' = Putting(x)
              /\ \A type : Sent(x, type)' = Sent(x, type)
              /\ \A o \in Caches : Waits(x, o)' = Waits(x, o)
              /\ BeingWritten(x)' = BeingWritten(x) /\ Taken(x)' = Taken(x)
    BY Zenon, <1>1, <1>3, <1>4, <1>5
    DEF Asking, Putting, state, Sent, Waits, Answered, BeingWritten, Taken, Id, InMemory
  <1>8. OneOwner'
    BY Zenon, <1>1 DEF OneOwner, IInv
  <1>9. ASSUME NEW x \in Caches
        PROVE  /\ Buffers(x)' /\ Missing(x)' /\ WritingBack(x)'
               /\ Passing(x)' /\ Holding(x)'
    <2>1. Buffers(x)'
      BY Zenon, <1>3, <1>4, Parts DEF Buffers
    <2>2. Missing(x)'
      BY Zenon, <1>1, <1>7, Parts DEF Missing
    <2>3. WritingBack(x)'
      BY Zenon, <1>1, <1>7, Parts DEF WritingBack, Misses
    <2>4. Passing(x)'
      BY <1>1, <1>7, Parts DEF Passing, Missing
    <2>5. Holding(x)'
      BY Zenon, <1>1, <1>7, Parts DEF Holding, Holds
    <2> QED BY Zenon, <2>1, <2>2, <2>3, <2>4, <2>5
  <1>i. NoInv'
    BY Zenon, <1>7 DEF NoInv, IInv
  <1>v. DInv'
    <2> SUFFICES ASSUME WholeLines, Latest PROVE Latest'
      BY Zenon DEF DInv, IInv
    <2>1. ASSUME NEW x \in Caches PROVE Copy(x)'
      <3>1. CASE x = c
        <4>1. cache'[c].entry = latest'
          BY Zenon, <1>1, <1>5 DEF Latest, Copy
        <4> QED BY Zenon, <1>7, <3>1, <4>1 DEF Copy
      <3>2. CASE x # c
        <4>1. Holds(c) /\ \A y \in Caches : Holds(y) => y = c
          BY Zenon, <1>1, Parts DEF Holds, Holding
        <4>2. ~Holds(x)'
          BY Zenon, <1>7, <3>2, <4>1 DEF Holds
        <4> QED BY Zenon, <1>4, <1>5, <3>2, <4>2, NotHolding DEF Latest
      <3> QED BY Zenon, <3>1, <3>2
    <2>2. MemoryLatest'
      <3>1. dir.state \in Lent
        BY Zenon, <1>1, Parts DEF Holds, Holding
      <3> QED BY Zenon, <1>1, <3>1, LentMemory
    <2> QED BY Zenon, <2>1, <2>2 DEF Latest
  <1> QED BY Zenon, <1>6, <1>8, <1>9, <1>i, <1>v, LineNext DEF IInv

\* A writeback begins, for a replacement or an invalidation.
LEMMA GivesUp ==
    ASSUME IInv, NEW c \in Caches, WriteBack(c) PROVE IInv'
  <1> DEFINE m == [Type |-> "PUTX", DataBlk |-> cache[c].entry]
             rq == Put(net.request, c, Append(net.request[c], m))
  <1>0. net \in NetType
    BY Zenon, Parts
  <1>1. /\ state(c) = "M" /\ cache[c].entry \in DataBlock
        /\ UNCHANGED <<cpu, dir, dma, memory, fatal, latest>>
    BY Zenon DEF WriteBack, state, IInv, TInv, Allocated
  <1>2. m \in RequestMsg /\ m.Type = "PUTX" /\ m.DataBlk = cache[c].entry
    BY Zenon, <1>1 DEF RequestMsg
  <1>3. net.request[c] = <<>>
    <2>1. ~Asking(c) /\ ~Putting(c)
      BY Zenon, <1>1, Parts DEF Missing, WritingBack, Misses
    <2> QED BY Zenon, <1>0, <2>1, NetFields, NoRequest DEF Asking, Putting
  <1>4. /\ cache' \in [Caches -> CacheType] /\ cache'[c].state = "MI"
        /\ cache'[c].tbe \in DataBlock /\ cache'[c].tbe = cache[c].entry
        /\ \A x \in Caches : x # c => cache'[x] = cache[x]
    BY Zenon, <1>1 DEF IInv, TInv, Types, WriteBack, CacheType, CacheStates
  <1>5. net' = NetOf(rq, net.forward, net.response, net.dmaRequest, net.dmaResponse)
    BY Zenon, <1>0 DEF WriteBack, NetType, NetOf, Put
  <1>e. rq = Put(net.request, c, Append(net.request[c], m))
    BY Zenon
  <1> HIDE DEF m, rq
  <1>6. /\ rq \in Requests
        /\ \A x \in Caches : x # c => rq[x] = net.request[x]
        /\ Len(rq[c]) <= 1 /\ Head(rq[c]) = m
        /\ Only(rq[c], m.Type)
    BY Zenon, <1>0, <1>2, <1>3, <1>e, PutRequest
  <1>7. /\ net' \in NetType /\ net'.request = rq
        /\ net'.forward = net.forward /\ net'.response = net.response
    BY <1>0, <1>5, <1>6, NetFields, NetOfType
  <1>8. TInv'
    <2>1. Types'
      BY Zenon, <1>1, <1>4, <1>7 DEF IInv, TInv, Types
    <2>2. Allocated' /\ OneInMemory'
      BY Zenon, <1>1, <1>4, SameMemory DEF IInv, TInv, Allocated
    <2> QED BY Zenon, <2>1, <2>2 DEF TInv
  <1>9. /\ Putting(c)' /\ ~Asking(c)' /\ state(c)' = "MI"
        /\ \A x \in Caches :
              /\ x # c => /\ Asking(x)' = Asking(x) /\ Putting(x)' = Putting(x)
                          /\ state(x)' = state(x)
              /\ \A type : Sent(x, type)' = Sent(x, type)
              /\ \A o \in Caches : Waits(x, o)' = Waits(x, o)
              /\ Answered(x)' = Answered(x)
              /\ BeingWritten(x)' = BeingWritten(x) /\ Taken(x)' = Taken(x)
    BY Zenon, <1>1, <1>2, <1>4, <1>6, <1>7
    DEF Only, Asking, Putting, state, Sent, Waits, Answered, BeingWritten, Taken, Id,
        InMemory
  <1>10. OneOwner'
    BY Zenon, <1>1 DEF OneOwner, IInv
  <1>t. ~Taken(c) /\ ~Sent(c, "WB_NACK")
    BY Zenon, <1>1, Parts DEF WritingBack, Taken
  <1>11. ASSUME NEW x \in Caches
         PROVE  /\ Buffers(x)' /\ Missing(x)' /\ WritingBack(x)'
                /\ Passing(x)' /\ Holding(x)'
    <2>1. Buffers(x)'
      BY Zenon, <1>6, <1>7, Parts DEF Buffers
    <2>2. Missing(x)'
      BY Zenon, <1>1, <1>9, Parts DEF Missing, Misses
    <2>3. WritingBack(x)'
      BY Zenon, <1>1, <1>9, <1>t, Parts DEF WritingBack, Taken
    <2>4. Passing(x)'
      BY <1>1, <1>9, <1>t, Parts DEF Passing, Misses
    <2>5. Holding(x)'
      BY Zenon, <1>1, <1>9, <1>t, Parts DEF Holding, Holds
    <2> QED BY Zenon, <2>1, <2>2, <2>3, <2>4, <2>5
  <1>i. NoInv'
    BY Zenon, <1>9 DEF NoInv, IInv
  <1>v. DInv'
    <2> SUFFICES ASSUME WholeLines, Latest PROVE Latest'
      BY Zenon DEF DInv, IInv
    <2>1. ASSUME NEW x \in Caches PROVE Copy(x)'
      <3>1. CASE x = c
        <4>1. cache[c].entry = latest /\ ~Answered(c)'
          BY Zenon, <1>1, <1>9, Parts DEF Latest, Copy, Missing, Misses
        <4>2. Head(net'.request[c]).DataBlk = cache'[c].tbe /\ cache'[c].tbe = latest'
          BY Zenon, <1>1, <1>2, <1>4, <1>6, <1>7, <4>1
        <4> QED BY Zenon, <1>9, <3>1, <4>1, <4>2 DEF Copy
      <3>2. CASE x # c
        BY Zenon, <1>1, <1>4, <1>6, <1>7, <1>9, <3>2, Kept DEF Latest
      <3> QED BY Zenon, <3>1, <3>2
    <2>2. MemoryLatest'
      BY Zenon, <1>1, SameMemoryLatest DEF Latest
    <2> QED BY Zenon, <2>1, <2>2 DEF Latest
  <1> QED BY Zenon, <1>8, <1>10, <1>11, <1>i, <1>v, LineNext DEF IInv


\* One that takes the head of the forwarded messages.
LEMMA Popped ==
    ASSUME IInv, NEW c \in Caches, NEW type, Forwarded(c, type),
           NEW fw, fw = Put(net.forward, c, Tail(net.forward[c]))
    PROVE  /\ Head(net.forward[c]) \in ForwardMsg /\ Head(net.forward[c]).Type = type
           /\ fw \in Forwards
           /\ \A x \in Caches : x # c => fw[x] = net.forward[x]
           /\ Extends(net.forward[c], fw[c], Head(net.forward[c]))
           /\ Once(fw[c], {"GETX"}) /\ Once(fw[c], {"WB_ACK", "WB_NACK"})
           /\ type = "GETX" => ~Has(fw[c], "GETX")
           /\ type \in {"WB_ACK", "WB_NACK"} =>
                 ~Has(fw[c], "WB_ACK") /\ ~Has(fw[c], "WB_NACK")
           /\ Sent(c, type)
  <1>1. /\ net.forward[c] # <<>> /\ Head(net.forward[c]).Type = type
        /\ net \in NetType /\ Buffers(c)
    BY Zenon, Parts DEF Forwarded
  <1>2. /\ Head(net.forward[c]) \in ForwardMsg /\ fw \in Forwards
        /\ \A x \in Caches : x # c => fw[x] = net.forward[x]
        /\ Extends(net.forward[c], fw[c], Head(net.forward[c]))
        /\ Once(fw[c], {"GETX"}) /\ Once(fw[c], {"WB_ACK", "WB_NACK"})
        /\ Head(net.forward[c]).Type = "GETX" => ~Has(fw[c], "GETX")
        /\ Head(net.forward[c]).Type \in {"WB_ACK", "WB_NACK"} =>
              ~Has(fw[c], "WB_ACK") /\ ~Has(fw[c], "WB_NACK")
    BY Zenon, <1>1, GetForward DEF Buffers
  <1>3. Sent(c, type)
    BY Zenon, <1>1, <1>2 DEF Extends, Sent
  <1> QED BY Zenon, <1>1, <1>2, <1>3

\* A message that is no GETX adds none.
LEMMA Others ==
    ASSUME NEW q, NEW r, NEW m, Extends(q, r, m), m.Type # "GETX"
    PROVE  /\ \A type : type # m.Type => (Has(r, type) <=> Has(q, type))
           /\ \A x : Asks(r, x) <=> Asks(q, x)
  BY Zenon DEF Extends

\* An invalidation that meets a writeback is dropped.
LEMMA DropsInvalidation ==
    ASSUME IInv, NEW c \in Caches, MI_Inv(c) \/ I_Inv(c) PROVE IInv'
  <1> DEFINE fw == Put(net.forward, c, Tail(net.forward[c]))
  <1>0. net \in NetType
    BY Zenon, Parts
  <1>1. UNCHANGED <<cache, cpu, dir, dma, memory, fatal, latest>>
        /\ Forwarded(c, "INV")
    BY Zenon DEF MI_Inv, I_Inv
  <1>2. net' = NetOf(net.request, fw, net.response, net.dmaRequest, net.dmaResponse)
    BY Zenon, <1>0 DEF MI_Inv, I_Inv, Pop, NetType, NetOf, Put
  <1>e. fw = Put(net.forward, c, Tail(net.forward[c]))
    BY Zenon
  <1> HIDE DEF fw
  <1>3. /\ Head(net.forward[c]).Type = "INV" /\ fw \in Forwards
        /\ \A x \in Caches : x # c => fw[x] = net.forward[x]
        /\ Extends(net.forward[c], fw[c], Head(net.forward[c]))
        /\ Once(fw[c], {"GETX"}) /\ Once(fw[c], {"WB_ACK", "WB_NACK"})
    BY <1>1, <1>e, Popped
  <1>4. /\ net' \in NetType /\ net'.request = net.request
        /\ net'.forward = fw /\ net'.response = net.response
    BY <1>0, <1>2, <1>3, NetFields, NetOfType
  <1>5. TInv'
    <2>1. Types'
      BY Zenon, <1>1, <1>4 DEF IInv, TInv, Types
    <2>2. Allocated' /\ OneInMemory'
      BY Zenon, <1>1, SameMemory DEF IInv, TInv, Allocated
    <2> QED BY Zenon, <2>1, <2>2 DEF TInv
  <1>6. SameForward(c)
    <2>1. /\ \A type : type # "INV" => (Has(fw[c], type) <=> Has(net.forward[c], type))
          /\ \A x : Asks(fw[c], x) <=> Asks(net.forward[c], x)
      BY <1>3, Others
    <2>2. Has(fw[c], "INV") => Has(net.forward[c], "INV")
      BY Zenon, <1>3 DEF Extends
    <2> QED BY Zenon, <1>3, <1>4, <2>1, <2>2 DEF SameForward, Sent, Waits
  <1>7. \A x \in Caches : state(x)' = state(x) /\ SameForward(x)
    BY Zenon, <1>1, <1>3, <1>4, <1>6, Parts, UnchangedForward DEF state
  <1>8. Id' = Id
    BY Zenon, <1>1 DEF Id, InMemory
  <1>9. Latest => MemoryLatest'
    BY Zenon, <1>1, SameMemoryLatest DEF Latest
  <1> QED BY Zenon, <1>1, <1>4, <1>5, <1>7, <1>8, <1>9, Quiet

\* The directory has taken a writeback, or refused it.
LEMMA Answers ==
    ASSUME IInv, NEW c \in Caches, MI_Writeback_Ack(c) \/ Writeback_Nack(c)
    PROVE  IInv'
  <1> DEFINE fw == Put(net.forward, c, Tail(net.forward[c]))
  <1>0. net \in NetType
    BY Zenon, Parts
  <1>1. /\ UNCHANGED <<cpu, dir, dma, memory, fatal, latest>>
        /\ \/ Forwarded(c, "WB_ACK") /\ state(c) = "MI"
           \/ Forwarded(c, "WB_NACK") /\ state(c) \in {"MI", "II"}
    BY Zenon DEF MI_Writeback_Ack, Writeback_Nack, MI_Writeback_Nack, II_Writeback_Nack, state
  <1>2. net' = NetOf(net.request, fw, net.response, net.dmaRequest, net.dmaResponse)
    BY Zenon, <1>0 DEF MI_Writeback_Ack, Writeback_Nack, MI_Writeback_Nack,
         II_Writeback_Nack, Pop, NetType, NetOf, Put
  <1>e. fw = Put(net.forward, c, Tail(net.forward[c]))
    BY Zenon
  <1> HIDE DEF fw
  <1>3. PICK type \in {"WB_ACK", "WB_NACK"} :
           /\ Head(net.forward[c]).Type = type /\ fw \in Forwards
           /\ Sent(c, type) /\ (type = "WB_ACK" => state(c) = "MI")
           /\ \A x \in Caches : x # c => fw[x] = net.forward[x]
           /\ Extends(net.forward[c], fw[c], Head(net.forward[c]))
           /\ Once(fw[c], {"GETX"}) /\ Once(fw[c], {"WB_ACK", "WB_NACK"})
           /\ ~Has(fw[c], "WB_ACK") /\ ~Has(fw[c], "WB_NACK")
           /\ Forwarded(c, type)
    <2>1. CASE Forwarded(c, "WB_ACK") /\ state(c) = "MI"
      BY Zenon, <1>e, <2>1, Popped
    <2>2. CASE Forwarded(c, "WB_NACK")
      BY <1>e, <2>2, Popped
    <2> QED BY Zenon, <1>1, <2>1, <2>2
  <1>4. /\ net' \in NetType /\ net'.request = net.request
        /\ net'.forward = fw /\ net'.response = net.response
    BY <1>0, <1>2, <1>3, NetFields, NetOfType
  <1>5. /\ cache' \in [Caches -> CacheType]
        /\ cache'[c].state = IF type = "WB_NACK" /\ state(c) = "MI" THEN "MII" ELSE "I"
        /\ cache'[c].state = "MII" => cache'[c].tbe = cache[c].tbe
        /\ \A x \in Caches : x # c => cache'[x] = cache[x]
    <2>1. cache \in [Caches -> CacheType]
      BY Zenon DEF IInv, TInv, Types
    <2>2. CASE type = "WB_ACK"
      <3>1. ~Writeback_Nack(c)
        BY Zenon, <1>3, <2>2 DEF Writeback_Nack, Forwarded
      <3> QED BY <2>1, <2>2, <3>1 DEF MI_Writeback_Ack, CacheType, CacheStates
    <2>3. CASE type = "WB_NACK"
      <3>1. ~MI_Writeback_Ack(c)
        BY Zenon, <1>3, <2>3 DEF MI_Writeback_Ack, Forwarded
      <3>2. /\ state(c) \in {"MI", "II"}
            /\ cache' = [cache EXCEPT ![c] =
                           IF @.state = "MI" THEN [@ EXCEPT !.state = "MII"]
                           ELSE [@ EXCEPT !.state = "I", !.tbe = None]]
        BY Zenon, <3>1 DEF Writeback_Nack, MI_Writeback_Nack, II_Writeback_Nack, state
      <3>3. CASE state(c) = "MI"
        <4>1. cache' = [cache EXCEPT ![c] = [cache[c] EXCEPT !.state = "MII"]]
          BY Zenon, <2>1, <3>2, <3>3 DEF state
        <4> QED BY Zenon, <2>1, <2>3, <3>3, <4>1 DEF CacheType, CacheStates
      <3>4. CASE state(c) = "II"
        <4>1. cache' = [cache EXCEPT ![c] = [cache[c] EXCEPT !.state = "I", !.tbe = None]]
          BY Zenon, <2>1, <3>2, <3>4 DEF state
        <4> QED BY Zenon, <2>1, <2>3, <3>4, <4>1 DEF CacheType, CacheStates
      <3> QED BY Zenon, <3>2, <3>3, <3>4
    <2> QED BY Zenon, <2>2, <2>3
  <1>6. TInv'
    <2>1. Types'
      BY Zenon, <1>1, <1>4, <1>5 DEF IInv, TInv, Types
    <2>2. Allocated' /\ OneInMemory'
      BY Zenon, <1>1, <1>5, SameMemory DEF IInv, TInv, Allocated, state
    <2> QED BY Zenon, <2>1, <2>2 DEF TInv
  <1>7. /\ ~Sent(c, "WB_ACK")' /\ ~Sent(c, "WB_NACK")'
        /\ type = "WB_NACK" => ~Sent(c, "WB_ACK")
        /\ Sent(c, "GETX")' <=> Sent(c, "GETX")
        /\ Sent(c, "INV")' <=> Sent(c, "INV")
        /\ \A r \in Caches : Waits(r, c)' <=> Waits(r, c)
    <2>1. /\ \A t : t # type => (Has(fw[c], t) <=> Has(net.forward[c], t))
          /\ \A x : Asks(fw[c], x) <=> Asks(net.forward[c], x)
      BY <1>3, Others
    <2>2. type = "WB_NACK" => ~Has(net.forward[c], "WB_ACK")
      BY Zenon, <1>3, <2>1
    <2>3. /\ Has(fw[c], "GETX") <=> Has(net.forward[c], "GETX")
          /\ Has(fw[c], "INV") <=> Has(net.forward[c], "INV")
      BY Zenon, <1>3, <2>1
    <2> QED BY Zenon, <1>3, <1>4, <2>1, <2>2, <2>3 DEF Sent, Waits
  <1>8. \A x \in Caches :
           /\ x # c => /\ state(x)' = state(x)
                       /\ \A t : Sent(x, t)' = Sent(x, t)
                       /\ \A r \in Caches : Waits(r, x)' = Waits(r, x)
           /\ Asking(x)' = Asking(x) /\ Putting(x)' = Putting(x)
           /\ Answered(x)' = Answered(x) /\ BeingWritten(x)' = BeingWritten(x)
    BY Zenon, <1>1, <1>3, <1>4, <1>5
    DEF Asking, Putting, state, Sent, Waits, Answered, BeingWritten, Id, InMemory
  <1>9. ~Putting(c) /\ ~BeingWritten(c) /\ ~Taken(c)' /\ c \notin dir.owner
    BY Zenon, <1>3, <1>7, <1>8, Parts DEF WritingBack, Taken, Passing
  <1>a. \A x \in Caches : x # c => Taken(x)' = Taken(x)
    BY Zenon, <1>8 DEF Taken
  <1>b. /\ state(c) \in {"MI", "II"} /\ (state(c) = "II" => type = "WB_NACK")
        /\ state(c)' = IF type = "WB_NACK" /\ state(c) = "MI" THEN "MII" ELSE "I"
    BY Zenon, <1>1, <1>3, <1>5 DEF state
  <1>c. \A x \in Caches : Holds(x)' = Holds(x)
    <2>1. Holds(c)' = Holds(c)
      BY Zenon, <1>3, <1>7, <1>8, <1>9, <1>b DEF Holds, Taken
    <2>2. \A x \in Caches : x # c => Holds(x)' = Holds(x)
      BY Zenon, <1>8, <1>a DEF Holds
    <2> QED BY Zenon, <2>1, <2>2
  <1>d. \A r, o \in Caches : Waits(r, o)' <=> Waits(r, o)
    BY Zenon, <1>7, <1>8
  <1>10. OneOwner'
    BY Zenon, <1>1 DEF OneOwner, IInv
  <1>11. ASSUME NEW x \in Caches
         PROVE  /\ Buffers(x)' /\ Missing(x)' /\ WritingBack(x)'
                /\ Passing(x)' /\ Holding(x)'
    <2>1. Buffers(x)'
      BY Zenon, <1>3, <1>4, Parts DEF Buffers
    <2>2. Missing(x)'
      BY Zenon, <1>1, <1>7, <1>8, <1>b, <1>d, Parts DEF Missing, Misses
    <2>3. WritingBack(x)'
      BY Zenon, <1>1, <1>7, <1>8, <1>9, <1>a, Parts DEF WritingBack
    <2>4. Passing(x)'
      <3>1. CASE x = c
        BY Zenon, <1>1, <1>3, <1>7, <1>9, <1>b, <1>d, <3>1, Parts DEF Passing, Taken, Misses
      <3>2. CASE x # c
        BY <1>1, <1>8, <1>a, <1>d, <3>2, Parts DEF Passing
      <3> QED BY Zenon, <3>1, <3>2
    <2>5. Holding(x)'
      BY Zenon, <1>1, <1>c, Parts DEF Holding
    <2> QED BY Zenon, <2>1, <2>2, <2>3, <2>4, <2>5
  <1>i. NoInv'
    BY Zenon, <1>7, <1>8 DEF NoInv, IInv
  <1>v. DInv'
    <2> SUFFICES ASSUME WholeLines, Latest PROVE Latest'
      BY Zenon DEF DInv, IInv
    <2>1. ASSUME NEW x \in Caches PROVE Copy(x)'
      <3>1. CASE x = c
        <4>1. ~Putting(c)' /\ ~Answered(c)'
          BY Zenon, <1>8, <1>9, <1>b, Parts DEF Missing, Misses
        <4>2. state(c)' = "MII" => cache'[c].tbe = latest'
          BY Zenon, <1>1, <1>5, <1>7, <1>9, <1>b DEF Latest, Copy, Taken, state
        <4> QED BY Zenon, <1>b, <3>1, <4>1, <4>2 DEF Copy
      <3>2. CASE x # c
        BY Zenon, <1>1, <1>4, <1>5, <1>8, <1>a, <3>2, Kept DEF Latest
      <3> QED BY Zenon, <3>1, <3>2
    <2>2. MemoryLatest'
      BY Zenon, <1>1, SameMemoryLatest DEF Latest
    <2> QED BY Zenon, <2>1, <2>2 DEF Latest
  <1> QED BY Zenon, <1>6, <1>10, <1>11, <1>i, <1>v, LineNext DEF IInv


\* A buffer that asks for data has a GETX.
LEMMA AsksHas == ASSUME NEW q, NEW x, Asks(q, x) PROVE Has(q, "GETX")
  BY Zenon DEF Asks, Has

\* The line goes to the cache that the forwarded request names.
LEMMA PassesOn ==
    ASSUME IInv, NEW c \in Caches, M_Fwd_GETX(c) \/ ee_sendDataFromTBE(c)
    PROVE IInv'
  <1>r. PICK r : r = Head(net.forward[c]).Requestor
    BY Zenon
  <1> DEFINE data == IF state(c) = "M" THEN cache[c].entry ELSE cache[c].tbe
             fw == Put(net.forward, c, Tail(net.forward[c]))
             rs == Put(net.response, r, Append(net.response[r], data))
  <1>0. net \in NetType
    BY Zenon, Parts
  <1>1. /\ UNCHANGED <<cpu, dir, dma, memory, fatal, latest>>
        /\ Forwarded(c, "GETX") /\ state(c) \in {"M", "MI", "MII"}
        /\ SendData(c, data)
    BY Zenon DEF M_Fwd_GETX, ee_sendDataFromTBE, MI_Fwd_GETX, MII_Fwd_GETX, state
  <1>2. /\ data \in DataBlock
        /\ Copy(c) /\ ~Taken(c) => data = latest
    BY Zenon, <1>1 DEF IInv, TInv, Allocated, state, Copy
  <1>3. net' = NetOf(net.request, fw, rs, net.dmaRequest, net.dmaResponse)
    BY Zenon, <1>0, <1>1, <1>r DEF SendData, NetType, NetOf, Put
  <1>e. /\ fw = Put(net.forward, c, Tail(net.forward[c]))
        /\ rs = Put(net.response, r, Append(net.response[r], data))
    BY Zenon
  <1> HIDE DEF fw, rs, data
  <1>4. /\ Head(net.forward[c]).Type = "GETX" /\ fw \in Forwards
        /\ \A x \in Caches : x # c => fw[x] = net.forward[x]
        /\ Extends(net.forward[c], fw[c], Head(net.forward[c]))
        /\ Once(fw[c], {"GETX"}) /\ Once(fw[c], {"WB_ACK", "WB_NACK"})
        /\ ~Has(fw[c], "GETX") /\ Sent(c, "GETX")
    BY Zenon, <1>1, <1>e, Popped
  <1>5. /\ \A x : ~Asks(fw[c], x)
        /\ \A x : Asks(net.forward[c], x) <=> x = r
        /\ \A t : t # "GETX" => (Has(fw[c], t) <=> Has(net.forward[c], t))
    <2>1. \A x : ~Asks(fw[c], x)
      BY Zenon, <1>4, AsksHas
    <2>2. /\ \A t : Has(net.forward[c], t) <=>
                     Has(fw[c], t) \/ Head(net.forward[c]).Type = t
          /\ \A x : Asks(net.forward[c], x) <=>
                     Asks(fw[c], x) \/ (/\ Head(net.forward[c]).Type = "GETX"
                                       /\ Head(net.forward[c]).Requestor = x)
      BY Zenon, <1>4 DEF Extends
    <2> QED BY Zenon, <1>4, <1>r, <2>1, <2>2
  <1>6. r \in Caches /\ Waits(r, c) /\ \A x \in Caches : Waits(x, c) => x = r
    BY Zenon, <1>4, <1>5, Parts DEF Waits, Passing
  <1>7. /\ state(r) \in Misses /\ ~Answered(r) /\ ~Asking(r) /\ r # c
        /\ ~(dir.state = "IM" /\ r \in dir.owner)
        /\ \A o \in Caches : Waits(r, o) => o = c
    BY Zenon, <1>1, <1>6, Parts DEF Missing, Misses
  <1>8. /\ rs \in Responses /\ rs[r] # <<>> /\ Len(rs[r]) <= 1
        /\ Head(rs[r]) = data
        /\ \A x \in Caches : x # r => rs[x] = net.response[x]
    BY <1>0, <1>2, <1>6, <1>7, <1>e, PutResponse DEF Answered
  <1>9. /\ net' \in NetType /\ net'.request = net.request
        /\ net'.forward = fw /\ net'.response = rs
    BY <1>0, <1>3, <1>4, <1>8, NetFields, NetOfType
  <1>10. /\ cache' \in [Caches -> CacheType]
         /\ cache'[c].state = IF state(c) = "MI" THEN "II" ELSE "I"
         /\ \A x \in Caches : x # c => cache'[x] = cache[x]
    <2>1. cache \in [Caches -> CacheType]
      BY Zenon DEF IInv, TInv, Types
    <2>2. CASE state(c) = "M"
      <3>1. cache' = [cache EXCEPT ![c].state = "I"]
        BY Zenon, <2>2 DEF M_Fwd_GETX, ee_sendDataFromTBE, MI_Fwd_GETX, MII_Fwd_GETX, state
      <3> QED BY Zenon, <2>1, <2>2, <3>1 DEF CacheType, CacheStates
    <2>3. CASE state(c) = "MI"
      <3>1. cache' = [cache EXCEPT ![c] = [cache[c] EXCEPT !.state = "II"]]
        BY Zenon, <2>1, <2>3 DEF M_Fwd_GETX, ee_sendDataFromTBE, MI_Fwd_GETX, MII_Fwd_GETX, state
      <3> QED BY Zenon, <2>1, <2>3, <3>1 DEF CacheType, CacheStates
    <2>4. CASE state(c) = "MII"
      <3>1. cache' = [cache EXCEPT ![c] = [cache[c] EXCEPT !.state = "I", !.tbe = None]]
        BY Zenon, <2>1, <2>4 DEF M_Fwd_GETX, ee_sendDataFromTBE, MI_Fwd_GETX, MII_Fwd_GETX, state
      <3> QED BY Zenon, <2>1, <2>4, <3>1 DEF CacheType, CacheStates
    <2> QED BY Zenon, <1>1, <2>2, <2>3, <2>4
  <1>11. TInv'
    <2>1. Types'
      BY Zenon, <1>1, <1>9, <1>10 DEF IInv, TInv, Types
    <2>2. Allocated' /\ OneInMemory'
      BY Zenon, <1>1, <1>10, SameMemory DEF IInv, TInv, Allocated, state
    <2> QED BY Zenon, <2>1, <2>2 DEF TInv
  <1>12. /\ Answered(r)' /\ ~Sent(c, "GETX")'
         /\ state(c)' = IF state(c) = "MI" THEN "II" ELSE "I"
         /\ \A x \in Caches : ~Waits(x, c)'
         /\ \A t : t # "GETX" => (Sent(c, t)' <=> Sent(c, t))
    <2>1. Answered(r)'
      BY Zenon, <1>8, <1>9 DEF Answered
    <2>2. /\ ~Sent(c, "GETX")' /\ \A x \in Caches : ~Waits(x, c)'
          /\ \A t : t # "GETX" => (Sent(c, t)' <=> Sent(c, t))
      BY Zenon, <1>4, <1>5, <1>9 DEF Sent, Waits
    <2>3. state(c)' = IF state(c) = "MI" THEN "II" ELSE "I"
      BY Zenon, <1>10 DEF state
    <2> QED BY Zenon, <2>1, <2>2, <2>3
  <1>13. \A x \in Caches :
            /\ x # c => /\ state(x)' = state(x)
                        /\ \A t : Sent(x, t)' <=> Sent(x, t)
                        /\ \A y \in Caches : Waits(y, x)' <=> Waits(y, x)
            /\ x # r => (Answered(x)' <=> Answered(x))
            /\ (Asking(x)' <=> Asking(x)) /\ (Putting(x)' <=> Putting(x))
            /\ BeingWritten(x)' <=> BeingWritten(x)
    BY Zenon, <1>1, <1>4, <1>8, <1>9, <1>10
    DEF Asking, Putting, state, Sent, Waits, Answered, BeingWritten, Id, InMemory
  <1>14. \A x \in Caches : Taken(x)' <=> Taken(x)
    BY Zenon, <1>12, <1>13 DEF Taken
  <1>15. ~Taken(c) /\ c \notin dir.owner /\ ~Sent(c, "WB_ACK") /\ ~Answered(c) /\ ~Asking(c)
    BY Zenon, <1>1, <1>4, Parts DEF Passing, Taken, Missing, Misses
  <1>16. /\ dir.state \in Lent /\ ~Holds(c)'
         /\ \A x \in Caches : x # r => ~Holds(x)'
    <2>1. Holds(c)
      BY Zenon, <1>1, <1>15 DEF Holds
    <2>2. dir.state \in Lent /\ \A x \in Caches : Holds(x) => x = c
      BY Zenon, <2>1, Parts DEF Holding
    <2>3. ~Holds(c)'
      BY Zenon, <1>7, <1>12, <1>13, <1>15 DEF Holds
    <2>4. \A x \in Caches : x # r /\ x # c => ~Holds(x)'
      BY Zenon, <1>13, <1>14, <2>2 DEF Holds
    <2> QED BY Zenon, <2>2, <2>3, <2>4
  <1>17. OneOwner'
    BY Zenon, <1>1 DEF OneOwner, IInv
  <1>18. ASSUME NEW x \in Caches
         PROVE  /\ Buffers(x)' /\ Missing(x)' /\ WritingBack(x)'
                /\ Passing(x)' /\ Holding(x)'
    <2>1. Buffers(x)'
      BY Zenon, <1>4, <1>8, <1>9, Parts DEF Buffers
    <2>2. Missing(x)'
      <3>1. CASE x = c
        BY <1>1, <1>6, <1>7, <1>12, <1>13, <1>15, <3>1, Parts DEF Missing, Misses
      <3>2. CASE x = r
        BY Zenon, <1>1, <1>7, <1>12, <1>13, <3>2 DEF Missing
      <3>3. CASE x # c /\ x # r
        BY <1>1, <1>12, <1>13, <3>3, Parts DEF Missing
      <3> QED BY Zenon, <3>1, <3>2, <3>3
    <2>3. WritingBack(x)'
      BY Zenon, <1>1, <1>12, <1>13, <1>14, <1>15, Parts DEF WritingBack, Taken
    <2>4. Passing(x)'
      <3>1. CASE x = c
        BY Zenon, <1>1, <1>12, <1>15, <3>1, Parts DEF Passing, Misses
      <3>2. CASE x # c
        BY Zenon, <1>1, <1>13, <1>14, <3>2, Parts DEF Passing
      <3> QED BY Zenon, <3>1, <3>2
    <2>5. Holding(x)'
      BY Zenon, <1>1, <1>16 DEF Holding
    <2> QED BY Zenon, <2>1, <2>2, <2>3, <2>4, <2>5
  <1>i. NoInv'
    BY Zenon, <1>12, <1>13 DEF NoInv, IInv
  <1>v. DInv'
    <2> SUFFICES ASSUME WholeLines, Latest PROVE Latest'
      BY Zenon DEF DInv, IInv
    <2>1. ASSUME NEW x \in Caches PROVE Copy(x)'
      <3>1. CASE x = r
        <4>1. Head(net'.response[r]) = latest'
          BY Zenon, <1>1, <1>2, <1>8, <1>9, <1>15 DEF Latest
        <4>2. state(r)' \in Misses
          BY Zenon, <1>6, <1>7, <1>13
        <4> QED BY Zenon, <3>1, <4>1, <4>2 DEF Copy, Misses
      <3>2. CASE x = c
        <4>1. ~Answered(c)' /\ state(c)' \in {"I", "II"}
          BY Zenon, <1>7, <1>12, <1>13, <1>15
        <4> QED BY Zenon, <3>2, <4>1 DEF Copy
      <3>3. CASE x # r /\ x # c
        BY Zenon, <1>1, <1>8, <1>9, <1>10, <1>14, <3>3, Kept DEF Latest
      <3> QED BY Zenon, <3>1, <3>2, <3>3
    <2>2. MemoryLatest'
      BY Zenon, <1>1, SameMemoryLatest DEF Latest
    <2> QED BY Zenon, <2>1, <2>2 DEF Latest
  <1> QED BY Zenon, <1>11, <1>17, <1>18, <1>i, <1>v, LineNext DEF IInv


-----------------------------------------------------------------------------
(* The directory and the requests of the caches.                           *)

\* The memory serves a request.
LEMMA Access ==
    ASSUME IInv, memoryAccess PROVE IInv' /\ Id' = Id
  <1> DEFINE m == Head(memory.toMemory)
             line == IF m.Type = "MEMORY_WB" THEN m.DataBlk ELSE memory.line
             a == [m EXCEPT !.DataBlk = line]
  <1>1. UNCHANGED <<cache, cpu, dir, dma, net, fatal, latest>>
    BY Zenon DEF memoryAccess
  <1>2. /\ memory \in MemoryType /\ memory.toMemory # <<>> /\ OneInMemory
    BY Zenon DEF IInv, TInv, Types, memoryAccess
  <1>3. /\ memory.toMemory \in Seq(MemoryMsg) /\ Len(memory.toMemory) = 1
        /\ memory.fromMemory = <<>> /\ dir.state \notin Lent \cup {"I"}
    <2>1. dir.state \notin Lent \cup {"I"}
      BY Zenon, <1>2 DEF OneInMemory
    <2> QED BY Zenon, <1>2, <2>1 DEF OneInMemory, MemoryType
  <1>4. m \in MemoryMsg /\ m = InMemory /\ Tail(memory.toMemory) = <<>>
    <2>1. Len(memory.toMemory) <= 1
      BY <1>3
    <2>2. Tail(memory.toMemory) = <<>>
      BY Zenon, <1>2, <1>3, <2>1, OneMessage
    <2> QED BY <1>2, <1>3, <2>2 DEF InMemory
  <1>5. memory' = [line |-> line, toMemory |-> <<>>, fromMemory |-> Append(<<>>, a)]
    BY Zenon, <1>3, <1>4 DEF memoryAccess
  <1> HIDE DEF m
  <1>d. /\ m.Type = "MEMORY_WB" => line = m.DataBlk
        /\ m.Type # "MEMORY_WB" => line = memory.line
    BY Zenon
  <1>6. line \in DataBlock
    BY Zenon, <1>2, <1>4 DEF MemoryType, MemoryMsg
  <1> HIDE DEF line
  <1>7. /\ a \in MemoryMsg /\ a.Type = m.Type /\ a.DataBlk = line
        /\ a.OriginalRequestorMachId = m.OriginalRequestorMachId
    BY Zenon, <1>4, <1>6 DEF MemoryMsg
  <1> HIDE DEF a
  <1>8. /\ Append(<<>>, a) \in Seq(MemoryMsg) /\ Append(<<>>, a) # <<>>
        /\ Len(Append(<<>>, a)) = 1 /\ Head(Append(<<>>, a)) = a
        /\ <<>> \in Seq(MemoryMsg)
    BY <1>7
  <1>9. /\ memory'.toMemory = <<>> /\ memory'.fromMemory = Append(<<>>, a)
        /\ memory' \in MemoryType /\ memory'.line = line
    BY Zenon, <1>5, <1>6, <1>8 DEF MemoryType
  <1>10. InMemory' = a /\ Id' = Id /\ InMemory'.Type = InMemory.Type
    BY Zenon, <1>4, <1>7, <1>8, <1>9 DEF InMemory, Id
  <1>11. TInv'
    <2>1. Types'
      BY Zenon, <1>1, <1>9 DEF IInv, TInv, Types
    <2>2. Allocated'
      BY Zenon, <1>1 DEF IInv, TInv, Allocated
    <2>3. OneInMemory'
      BY Zenon, <1>1, <1>2, <1>3, <1>8, <1>9, <1>10 DEF OneInMemory
    <2> QED BY Zenon, <2>1, <2>2, <2>3 DEF TInv
  <1>12. \A x \in Caches : state(x)' = state(x) /\ SameForward(x)
    BY Zenon, <1>1, Parts, UnchangedForward DEF state
  <1>13. Latest => MemoryLatest'
    <2> SUFFICES ASSUME MemoryLatest PROVE MemoryLatest'
      BY Zenon DEF Latest
    <2>1. CASE dir.state \in {"IM", "ID"}
      <3>1. m.Type # "MEMORY_WB"
        BY Zenon, <1>2, <1>4, <2>1 DEF OneInMemory, Lent, Writing
      <3>2. memory'.line = latest' /\ InMemory'.DataBlk = latest'
        BY Zenon, <1>1, <1>7, <1>9, <1>10, <1>d, <2>1, <3>1 DEF MemoryLatest
      <3> QED BY Zenon, <1>1, <2>1, <3>2 DEF MemoryLatest, Writing
    <2>2. CASE dir.state \in Writing \cup {"ID_W"}
      <3>1. m.Type = "MEMORY_WB" /\ m.DataBlk = latest
        BY Zenon, <1>2, <1>4, <2>2 DEF OneInMemory, Lent, Writing, MemoryLatest
      <3>2. memory'.line = latest' /\ memory'.toMemory = <<>>
        BY Zenon, <1>1, <1>9, <1>d, <3>1
      <3> QED BY Zenon, <1>1, <2>2, <3>2 DEF MemoryLatest, Writing
    <2>3. dir.state \in DirStates
      BY Zenon DEF IInv, TInv, Types, DirType
    <2> QED BY Zenon, <1>3, <2>1, <2>2, <2>3 DEF DirStates, Lent, Writing
  <1>14. IInv'
    BY Zenon, <1>1, <1>10, <1>11, <1>12, <1>13, Quiet
  <1> QED BY Zenon, <1>10, <1>14

\* A request of a cache at the directory.
LEMMA Arrives ==
    ASSUME IInv, NEW c \in Caches, NEW event, Requested(c, event),
           NEW rq, rq = Put(net.request, c, Tail(net.request[c]))
    PROVE  /\ Head(net.request[c]) \in RequestMsg
           /\ rq \in Requests /\ rq[c] = <<>> /\ Len(rq[c]) <= 1
           /\ \A x \in Caches : x # c => rq[x] = net.request[x]
           /\ event = "GETX" => Asking(c) /\ ~Putting(c)
           /\ event \in {"PUTX", "PUTX_NotOwner"} =>
                 /\ Putting(c) /\ ~Asking(c)
                 /\ event = "PUTX" <=> c \in dir.owner
  <1>1. net \in NetType /\ net.request[c] # <<>> /\ Len(net.request[c]) <= 1
    BY Zenon, Parts DEF Requested, Buffers
  <1>2. /\ Head(net.request[c]) \in RequestMsg
        /\ rq \in Requests /\ rq[c] = <<>>
        /\ \A x \in Caches : x # c => rq[x] = net.request[x]
        /\ Only(net.request[c], Head(net.request[c]).Type)
    BY Zenon, <1>1, GetRequest
  <1>3. Head(net.request[c]).Type \in {"GETX", "PUTX"}
    BY Zenon, <1>2 DEF RequestMsg
  <1>4. /\ event = "GETX" => Head(net.request[c]).Type = "GETX"
        /\ event \in {"PUTX", "PUTX_NotOwner"} =>
              /\ Head(net.request[c]).Type = "PUTX"
              /\ event = "PUTX" <=> c \in dir.owner
    BY Zenon, <1>3 DEF Requested, DirEvent
  <1>5. /\ event = "GETX" => Asking(c) /\ ~Putting(c)
        /\ event \in {"PUTX", "PUTX_NotOwner"} => Putting(c) /\ ~Asking(c)
    BY Zenon, <1>2, <1>4 DEF Only, Asking, Putting
  <1>6. Len(<<>>) <= 1
    OBVIOUS
  <1> QED BY Zenon, <1>2, <1>4, <1>5, <1>6

\* GETX in I: the directory reads the memory.
LEMMA FromIdle ==
    ASSUME IInv, NEW c \in Caches, I_GETX(c) PROVE IInv'
  <1> DEFINE rq == Put(net.request, c, Tail(net.request[c]))
  <1>0. net \in NetType
    BY Zenon, Parts
  <1>1. /\ UNCHANGED <<cache, cpu, dma, fatal, latest>> /\ Requested(c, "GETX")
        /\ dir.state = "I" /\ queueMemory("MEMORY_READ", c, Clear)
    BY Zenon DEF I_GETX, queueMemoryRead
  <1>2. net' = NetOf(rq, net.forward, net.response, net.dmaRequest, net.dmaResponse)
    BY Zenon, <1>0 DEF I_GETX, NetType, NetOf, Put
  <1>e. rq = Put(net.request, c, Tail(net.request[c]))
    BY Zenon
  <1> HIDE DEF rq
  <1>3. /\ rq \in Requests /\ rq[c] = <<>> /\ Len(rq[c]) <= 1
        /\ \A x \in Caches : x # c => rq[x] = net.request[x]
        /\ Asking(c) /\ ~Putting(c)
    BY <1>1, <1>e, Arrives
  <1>4. /\ net' \in NetType /\ net'.request = rq
        /\ net'.forward = net.forward /\ net'.response = net.response
    BY <1>0, <1>2, <1>3, NetFields, NetOfType
  <1>5. /\ memory' \in MemoryType
        /\ Len(memory'.toMemory) = 1 /\ memory'.fromMemory = <<>>
        /\ InMemory'.Type = "MEMORY_READ" /\ Id' = c
        /\ memory'.line = memory.line
    BY Zenon, <1>1, ClearType, QueueMemory DEF IInv
  <1>6. /\ dir' \in DirType /\ dir'.state = "IM" /\ dir'.owner = {c}
        /\ dir.owner = {}
    <2>1. dir \in DirType /\ dir.owner = {}
      BY Zenon, <1>1 DEF IInv, TInv, Types, OneOwner, Lent
    <2> QED BY Zenon, <2>1 DEF I_GETX, DirType, DirStates
  <1>7. TInv'
    <2>1. Types'
      BY Zenon, <1>1, <1>4, <1>5, <1>6 DEF IInv, TInv, Types
    <2>2. Allocated' /\ OneInMemory'
      BY Zenon, <1>1, <1>5, <1>6 DEF IInv, TInv, Allocated, OneInMemory, Lent, Writing
    <2> QED BY Zenon, <2>1, <2>2 DEF TInv
  <1>8. /\ ~Asking(c)' /\ ~Putting(c)'
        /\ \A x \in Caches :
              /\ x # c => (Asking(x)' <=> Asking(x)) /\ (Putting(x)' <=> Putting(x))
              /\ state(x)' = state(x)
              /\ \A type : Sent(x, type)' <=> Sent(x, type)
              /\ \A o \in Caches : Waits(x, o)' <=> Waits(x, o)
              /\ Answered(x)' <=> Answered(x)
              /\ ~BeingWritten(x)' /\ ~BeingWritten(x)
    BY Zenon, <1>1, <1>3, <1>4, <1>6, EmptyBuffer
    DEF Asking, Putting, state, Sent, Waits, Answered, BeingWritten, Writing
  <1>9. \A x \in Caches : (Taken(x)' <=> Taken(x)) /\ ~Holds(x)'
    <2>1. \A x \in Caches : ~Holds(x)
      BY Zenon, <1>1, Parts DEF Holding, Lent
    <2>2. \A x \in Caches : Taken(x)' <=> Taken(x)
      BY Zenon, <1>8 DEF Taken
    <2> QED BY Zenon, <1>8, <2>1, <2>2 DEF Holds
  <1>10. OneOwner'
    BY Zenon, <1>6 DEF OneOwner
  <1>11. ASSUME NEW x \in Caches
         PROVE  /\ Buffers(x)' /\ Missing(x)' /\ WritingBack(x)'
                /\ Passing(x)' /\ Holding(x)'
    <2>1. Buffers(x)'
      BY Zenon, <1>3, <1>4, Parts DEF Buffers
    <2>2. Missing(x)'
      BY Zenon, <1>3, <1>6, <1>8, Parts DEF Missing
    <2>3. WritingBack(x)'
      BY Zenon, <1>8, <1>9, Parts DEF WritingBack
    <2>4. Passing(x)'
      <3>1. CASE x = c
        <4>1. state(c) \in Misses /\ ~Sent(c, "GETX")
          BY Zenon, <1>3, Parts DEF Missing
        <4>2. ~Sent(c, "WB_ACK") /\ ~Sent(c, "WB_NACK")
          BY Zenon, <4>1, Parts DEF WritingBack, Misses
        <4> QED BY Zenon, <1>6, <1>8, <3>1, <4>1, <4>2 DEF Passing
      <3>2. CASE x # c
        BY <1>6, <1>8, <1>9, <3>2, Parts DEF Passing
      <3> QED BY Zenon, <3>1, <3>2
    <2>5. Holding(x)'
      BY Zenon, <1>9 DEF Holding
    <2> QED BY Zenon, <2>1, <2>2, <2>3, <2>4, <2>5
  <1>i. NoInv'
    BY Zenon, <1>8 DEF NoInv, IInv
  <1>v. DInv'
    <2> SUFFICES ASSUME WholeLines, Latest PROVE Latest'
      BY Zenon DEF DInv, IInv
    <2>1. ASSUME NEW x \in Caches PROVE Copy(x)'
      BY Zenon, <1>1, <1>3, <1>4, <1>8, <1>9, Kept DEF Latest
    <2>2. MemoryLatest'
      BY Zenon, <1>1, <1>5, <1>6 DEF Latest, MemoryLatest, Writing
    <2> QED BY Zenon, <2>1, <2>2 DEF Latest
  <1> QED BY Zenon, <1>7, <1>10, <1>11, <1>i, <1>v, LineNext DEF IInv


\* The data goes from the memory to the cache that asked.
LEMMA FromMemoryToCache ==
    ASSUME IInv, IM_Memory_Data PROVE IInv'
  <1>r. PICK r : r = Answer.OriginalRequestorMachId
    BY Zenon
  <1> DEFINE rs == Put(net.response, r, Append(net.response[r], Answer.DataBlk))
  <1>0. net \in NetType
    BY Zenon, Parts
  <1>1. /\ UNCHANGED <<cache, cpu, dma, fatal, latest>>
        /\ FromMemory("MEMORY_READ") /\ popMemQueue /\ dir.state = "IM"
    BY Zenon DEF IM_Memory_Data
  <1>2. net' = NetOf(net.request, net.forward, rs, net.dmaRequest, net.dmaResponse)
    BY Zenon, <1>0, <1>r DEF IM_Memory_Data, NetType, NetOf, Put
  <1>e. rs = Put(net.response, r, Append(net.response[r], Answer.DataBlk))
    BY Zenon
  <1> HIDE DEF rs
  <1>3. /\ memory' \in MemoryType /\ memory'.toMemory = <<>>
        /\ memory'.fromMemory = <<>> /\ Answer \in MemoryMsg /\ r = Id
        /\ Answer = InMemory /\ memory.fromMemory # <<>>
    BY Zenon, <1>1, <1>r, PopMemory DEF IInv
  <1>4. Answer.DataBlk \in DataBlock
    BY Zenon, <1>3 DEF MemoryMsg
  <1>5. r \in Caches /\ dir.owner = {r}
    BY Zenon, <1>1, <1>3 DEF IInv, TInv, OneInMemory, OneOwner, Lent
  <1>6. state(r) \in Misses /\ ~Answered(r) /\ ~Asking(r) /\ \A o \in Caches : ~Waits(r, o)
    BY Zenon, <1>1, <1>5, Parts DEF Missing
  <1>7. /\ rs \in Responses /\ rs[r] # <<>> /\ Len(rs[r]) <= 1
        /\ Head(rs[r]) = Answer.DataBlk
        /\ \A x \in Caches : x # r => rs[x] = net.response[x]
    BY <1>0, <1>4, <1>5, <1>6, <1>e, PutResponse DEF Answered
  <1>8. /\ net' \in NetType /\ net'.request = net.request
        /\ net'.forward = net.forward /\ net'.response = rs
    BY <1>0, <1>2, <1>7, NetFields, NetOfType
  <1>9. /\ dir' \in DirType /\ dir'.state = "M" /\ dir'.owner = dir.owner
    BY Zenon DEF IInv, TInv, Types, IM_Memory_Data, DirType, DirStates
  <1>10. TInv'
    <2>1. Types'
      BY Zenon, <1>1, <1>3, <1>8, <1>9 DEF IInv, TInv, Types
    <2>2. Allocated' /\ OneInMemory'
      BY Zenon, <1>1, <1>3, <1>9 DEF IInv, TInv, Allocated, OneInMemory, Lent
    <2> QED BY Zenon, <2>1, <2>2 DEF TInv
  <1>11. /\ Answered(r)'
         /\ \A x \in Caches :
              /\ x # r => (Answered(x)' <=> Answered(x))
              /\ (Asking(x)' <=> Asking(x)) /\ (Putting(x)' <=> Putting(x))
              /\ state(x)' = state(x)
              /\ \A type : Sent(x, type)' <=> Sent(x, type)
              /\ \A o \in Caches : Waits(x, o)' <=> Waits(x, o)
              /\ ~BeingWritten(x)' /\ ~BeingWritten(x)
    BY Zenon, <1>1, <1>7, <1>8, <1>9
    DEF Asking, Putting, state, Sent, Waits, Answered, BeingWritten, Writing
  <1>12. /\ \A x \in Caches : Taken(x)' <=> Taken(x)
         /\ \A x \in Caches : x # r => ~Holds(x)'
    <2>1. \A x \in Caches : ~Holds(x)
      BY Zenon, <1>1, Parts DEF Holding, Lent
    <2>2. \A x \in Caches : Taken(x)' <=> Taken(x)
      BY Zenon, <1>11 DEF Taken
    <2> QED BY Zenon, <1>11, <2>1, <2>2 DEF Holds
  <1>13. OneOwner'
    BY Zenon, <1>5, <1>9 DEF OneOwner, Lent
  <1>14. ASSUME NEW x \in Caches
         PROVE  /\ Buffers(x)' /\ Missing(x)' /\ WritingBack(x)'
                /\ Passing(x)' /\ Holding(x)'
    <2>1. Buffers(x)'
      BY Zenon, <1>7, <1>8, Parts DEF Buffers
    <2>2. Missing(x)'
      BY <1>6, <1>9, <1>11, Parts DEF Missing
    <2>3. WritingBack(x)'
      BY Zenon, <1>11, <1>12, Parts DEF WritingBack
    <2>4. Passing(x)'
      BY Zenon, <1>9, <1>11, <1>12, Parts DEF Passing
    <2>5. Holding(x)'
      BY Zenon, <1>9, <1>12 DEF Holding, Lent
    <2> QED BY Zenon, <2>1, <2>2, <2>3, <2>4, <2>5
  <1>i. NoInv'
    BY Zenon, <1>11 DEF NoInv, IInv
  <1>v. DInv'
    <2> SUFFICES ASSUME WholeLines, Latest PROVE Latest'
      BY Zenon DEF DInv, IInv
    <2>1. ASSUME NEW x \in Caches PROVE Copy(x)'
      <3>1. CASE x = r
        <4>1. Head(net'.response[r]) = latest'
          BY Zenon, <1>1, <1>3, <1>7, <1>8 DEF Latest, MemoryLatest
        <4>2. state(r)' \in Misses
          BY Zenon, <1>5, <1>6, <1>11
        <4> QED BY Zenon, <3>1, <4>1, <4>2 DEF Copy, Misses
      <3>2. CASE x # r
        BY Zenon, <1>1, <1>7, <1>8, <1>12, <3>2, Kept DEF Latest
      <3> QED BY Zenon, <3>1, <3>2
    <2>2. MemoryLatest'
      BY Zenon, <1>9, LentMemory DEF Lent
    <2> QED BY Zenon, <2>1, <2>2 DEF Latest
  <1> QED BY Zenon, <1>10, <1>13, <1>14, <1>i, <1>v, LineNext DEF IInv

\* The owner gets a message.
LEMMA ToOwner ==
    ASSUME IInv, NEW o \in Caches, dir.owner = {o}, NEW m \in ForwardMsg,
           NEW fw, fw = [x \in Caches |-> IF x \in dir.owner
                                         THEN Append(net.forward[x], m)
                                         ELSE net.forward[x]]
    PROVE  /\ fw \in Forwards /\ Extends(fw[o], net.forward[o], m)
           /\ \A x \in Caches : x # o => fw[x] = net.forward[x]
  <1>1. net \in NetType
    BY Zenon, Parts
  <1>2. fw = Put(net.forward, o, Append(net.forward[o], m))
    BY Zenon, <1>1 DEF NetType, Forwards, Put
  <1> QED BY Zenon, <1>1, <1>2, AppendForward

\* GETX in M: the directory forwards the request to the owner.
LEMMA FromOwner ==
    ASSUME IInv, NEW c \in Caches, M_GETX(c) PROVE IInv'
  <1> DEFINE m == [Type |-> "GETX", Requestor |-> c]
             rq == Put(net.request, c, Tail(net.request[c]))
             fw == [x \in Caches |-> IF x \in dir.owner
                                     THEN Append(net.forward[x], m)
                                     ELSE net.forward[x]]
  <1>0. net \in NetType
    BY Zenon, Parts
  <1>1. /\ UNCHANGED <<cache, cpu, dma, memory, fatal, latest>> /\ Requested(c, "GETX")
        /\ dir.state = "M"
    BY Zenon DEF M_GETX
  <1>2. net' = NetOf(rq, fw, net.response, net.dmaRequest, net.dmaResponse)
    BY Zenon, <1>0 DEF M_GETX, NetType, NetOf, Put
  <1>e. /\ rq = Put(net.request, c, Tail(net.request[c]))
        /\ fw = [x \in Caches |-> IF x \in dir.owner
                                   THEN Append(net.forward[x], m)
                                   ELSE net.forward[x]]
    BY Zenon
  <1>m. m \in ForwardMsg /\ m.Type = "GETX" /\ m.Requestor = c
    BY Zenon DEF ForwardMsg
  <1> HIDE DEF rq, fw, m
  <1>3. /\ rq \in Requests /\ rq[c] = <<>> /\ Len(rq[c]) <= 1
        /\ \A x \in Caches : x # c => rq[x] = net.request[x]
        /\ Asking(c) /\ ~Putting(c)
    BY Zenon, <1>1, <1>e, Arrives
  <1>4. PICK o \in Caches : dir.owner = {o}
    BY Zenon, <1>1 DEF IInv, OneOwner, Lent
  <1>5. /\ fw \in Forwards /\ Extends(fw[o], net.forward[o], m)
        /\ \A x \in Caches : x # o => fw[x] = net.forward[x]
    BY Zenon, <1>e, <1>4, <1>m, ToOwner
  <1>6. /\ net' \in NetType /\ net'.request = rq
        /\ net'.forward = fw /\ net'.response = net.response
    BY <1>0, <1>2, <1>3, <1>5, NetFields, NetOfType
  <1>7. /\ dir' \in DirType /\ dir'.state = "M" /\ dir'.owner = {c}
        /\ dir'.tbe = dir.tbe
    <2>1. dir \in DirType
      BY Zenon DEF IInv, TInv, Types
    <2> QED BY Zenon, <1>1, <2>1 DEF M_GETX, DirType
  <1>8. TInv'
    <2>1. Types'
      BY Zenon, <1>1, <1>6, <1>7 DEF IInv, TInv, Types
    <2>2. Allocated' /\ OneInMemory'
      BY Zenon, <1>1, <1>7 DEF IInv, TInv, Allocated, OneInMemory, Lent
    <2> QED BY Zenon, <2>1, <2>2 DEF TInv
  <1>9. /\ state(c) \in Misses /\ ~Answered(c) /\ ~Sent(c, "GETX") /\ c # o
        /\ \A x \in Caches : ~Waits(c, x)
    BY Zenon, <1>3, <1>4, Parts DEF Missing
  <1>a. ~Sent(c, "WB_ACK") /\ ~Sent(c, "WB_NACK")
    BY Zenon, <1>9, Parts DEF WritingBack, Misses
  <1>b. /\ ~Sent(o, "GETX") /\ ~Sent(o, "WB_ACK") /\ ~Asking(o)
        /\ state(o) \in Misses \cup {"M", "MI"}
        /\ \A x \in Caches : ~Waits(x, o)
    <2>1. /\ ~Sent(o, "GETX") /\ ~Sent(o, "WB_ACK") /\ ~Asking(o)
          /\ state(o) \in Misses \cup {"M", "MI"}
      BY Zenon, <1>4, Parts DEF Passing, Missing
    <2> QED BY Zenon, <2>1, AsksHas DEF Waits, Sent
  <1>10. /\ Sent(o, "GETX")'
         /\ \A t : t # "GETX" => (Sent(o, t)' <=> Sent(o, t))
         /\ \A x \in Caches : Waits(x, o)' <=> x = c
         /\ Once(fw[o], {"GETX"}) /\ Once(fw[o], {"WB_ACK", "WB_NACK"})
    <2>1. /\ \A t : Has(fw[o], t) <=> Has(net.forward[o], t) \/ t = "GETX"
          /\ \A x : Asks(fw[o], x) <=> Asks(net.forward[o], x) \/ x = c
      BY Zenon, <1>5, <1>m DEF Extends
    <2>2. Once(fw[o], {"GETX"}) /\ Once(fw[o], {"WB_ACK", "WB_NACK"})
      <3>1. Once(net.forward[o], {"GETX"}) /\ Once(net.forward[o], {"WB_ACK", "WB_NACK"})
        BY Zenon, Parts DEF Buffers
      <3>2. \A t \in {"GETX"} : ~Has(net.forward[o], t)
        BY Zenon, <1>b DEF Sent
      <3>3. m.Type \notin {"WB_ACK", "WB_NACK"}
        BY Zenon, <1>m
      <3> QED BY Zenon, <1>5, <3>1, <3>2, <3>3 DEF Extends
    <2> QED BY Zenon, <1>6, <1>b, <2>1, <2>2 DEF Sent, Waits
  <1>11. /\ ~Asking(c)' /\ ~Putting(c)'
         /\ \A x \in Caches :
              /\ x # c => (Asking(x)' <=> Asking(x)) /\ (Putting(x)' <=> Putting(x))
              /\ state(x)' = state(x) /\ (Answered(x)' <=> Answered(x))
              /\ x # o => /\ \A type : Sent(x, type)' <=> Sent(x, type)
                          /\ \A r \in Caches : Waits(r, x)' <=> Waits(r, x)
              /\ ~BeingWritten(x)' /\ ~BeingWritten(x)
    BY Zenon, <1>1, <1>3, <1>5, <1>6, <1>7, EmptyBuffer
    DEF Asking, Putting, state, Sent, Waits, Answered, BeingWritten, Writing
  <1>12. \A x \in Caches : (Taken(x)' <=> Taken(x)) /\ (Holds(x)' <=> Holds(x))
    <2>1. \A x \in Caches : Taken(x)' <=> Taken(x)
      BY Zenon, <1>10, <1>11 DEF Taken
    <2> QED BY Zenon, <1>11, <2>1 DEF Holds
  <1>13. OneOwner'
    BY Zenon, <1>7 DEF OneOwner, Lent
  <1>14. ASSUME NEW x \in Caches
         PROVE  /\ Buffers(x)' /\ Missing(x)' /\ WritingBack(x)'
                /\ Passing(x)' /\ Holding(x)'
    <2>1. Buffers(x)'
      BY Zenon, <1>3, <1>5, <1>6, <1>10, Parts DEF Buffers
    <2>2. Missing(x)'
      <3>1. CASE x = c
        BY Zenon, <1>7, <1>9, <1>10, <1>11, <3>1 DEF Missing
      <3>2. CASE x # c
        BY <1>4, <1>7, <1>9, <1>b, <1>10, <1>11, <3>2, Parts DEF Missing
      <3> QED BY Zenon, <3>1, <3>2
    <2>3. WritingBack(x)'
      <3>1. /\ (Sent(x, "WB_ACK")' <=> Sent(x, "WB_ACK"))
            /\ (Sent(x, "WB_NACK")' <=> Sent(x, "WB_NACK"))
        BY Zenon, <1>10, <1>11
      <3> QED BY Zenon, <1>11, <1>12, <3>1, Parts DEF WritingBack
    <2>4. Passing(x)'
      <3>1. CASE x = c
        BY Zenon, <1>7, <1>9, <1>a, <1>11, <3>1 DEF Passing
      <3>2. CASE x = o
        BY Zenon, <1>7, <1>9, <1>b, <1>10, <1>11, <1>12, <3>2 DEF Passing, Taken
      <3>3. CASE x # c /\ x # o
        BY <1>4, <1>7, <1>11, <1>12, <3>3, Parts DEF Passing
      <3> QED BY Zenon, <3>1, <3>2, <3>3
    <2>5. Holding(x)'
      BY Zenon, <1>1, <1>7, <1>12, Parts DEF Holding
    <2> QED BY Zenon, <2>1, <2>2, <2>3, <2>4, <2>5
  <1>i. NoInv'
    BY Zenon, <1>10, <1>11 DEF NoInv, IInv
  <1>v. DInv'
    <2> SUFFICES ASSUME WholeLines, Latest PROVE Latest'
      BY Zenon DEF DInv, IInv
    <2>1. ASSUME NEW x \in Caches PROVE Copy(x)'
      BY Zenon, <1>1, <1>3, <1>6, <1>11, <1>12, Kept DEF Latest
    <2>2. MemoryLatest'
      BY Zenon, <1>7, LentMemory DEF Lent
    <2> QED BY Zenon, <2>1, <2>2 DEF Latest
  <1> QED BY Zenon, <1>8, <1>13, <1>14, <1>i, <1>v, LineNext DEF IInv


\* The directory takes the line that its owner writes back.
LEMMA Accepts ==
    ASSUME IInv, TInv', NEW c \in Caches, Requested(c, "PUTX"),
           dir.state \in Lent, UNCHANGED cache,
           NEW rq, rq = Put(net.request, c, Tail(net.request[c])),
           net'.request = rq, net'.forward = net.forward, net'.response = net.response,
           dir'.state \in Writing, dir'.owner = {}, Id' = c,
           WholeLines /\ Latest => MemoryLatest'
    PROVE  IInv'
  <1>1. /\ rq[c] = <<>> /\ Len(rq[c]) <= 1
        /\ \A x \in Caches : x # c => rq[x] = net.request[x]
        /\ Putting(c) /\ ~Asking(c) /\ c \in dir.owner
    BY Zenon, Arrives
  <1>2. /\ state(c) = "MI" /\ ~Taken(c) /\ ~Sent(c, "GETX") /\ ~Sent(c, "WB_ACK")
        /\ ~Sent(c, "WB_NACK") /\ ~Answered(c)
    BY Zenon, <1>1, Parts DEF WritingBack, Passing, Missing, Misses
  <1>3. dir.owner = {c}
    BY Zenon, <1>1 DEF IInv, OneOwner
  <1>4. dir'.state \notin Lent \cup {"IM"} /\ dir.state \notin Writing
    BY Zenon DEF Lent, Writing
  <1>5. /\ ~Asking(c)' /\ ~Putting(c)' /\ BeingWritten(c)'
        /\ \A x \in Caches :
              /\ x # c => /\ (Asking(x)' <=> Asking(x)) /\ (Putting(x)' <=> Putting(x))
                          /\ ~BeingWritten(x)'
              /\ state(x)' = state(x) /\ (Answered(x)' <=> Answered(x))
              /\ \A type : Sent(x, type)' <=> Sent(x, type)
              /\ \A r \in Caches : Waits(r, x)' <=> Waits(r, x)
              /\ ~BeingWritten(x)
    BY Zenon, <1>1, <1>4, EmptyBuffer
    DEF Asking, Putting, state, Sent, Waits, Answered, BeingWritten
  <1>6. \A x \in Caches : x # c => (Taken(x)' <=> Taken(x))
    BY Zenon, <1>5 DEF Taken
  <1>7. \A x \in Caches : ~Holds(x)'
    <2>1. Holds(c)
      BY Zenon, <1>2 DEF Holds
    <2>2. \A x \in Caches : Holds(x) => x = c
      BY Zenon, <2>1, Parts DEF Holding
    <2>3. ~Holds(c)'
      BY Zenon, <1>2, <1>5 DEF Holds, Taken
    <2> QED BY Zenon, <1>5, <1>6, <2>2, <2>3 DEF Holds
  <1>8. OneOwner'
    BY Zenon, <1>4 DEF OneOwner
  <1>9. ASSUME NEW x \in Caches
        PROVE  /\ Buffers(x)' /\ Missing(x)' /\ WritingBack(x)'
               /\ Passing(x)' /\ Holding(x)'
    <2>1. Buffers(x)'
      BY Zenon, <1>1, Parts DEF Buffers
    <2>2. Missing(x)'
      BY Zenon, <1>4, <1>5, Parts DEF Missing
    <2>3. WritingBack(x)'
      <3>1. CASE x = c
        BY Zenon, <1>2, <1>5, <3>1 DEF WritingBack
      <3>2. CASE x # c
        BY Zenon, <1>5, <1>6, <3>2, Parts DEF WritingBack
      <3> QED BY Zenon, <3>1, <3>2
    <2>4. Passing(x)'
      <3>1. CASE x = c
        BY Zenon, <1>2, <1>5, <3>1 DEF Passing, Misses
      <3>2. CASE x # c
        BY <1>3, <1>5, <1>6, <3>2, Parts DEF Passing
      <3> QED BY Zenon, <3>1, <3>2
    <2>5. Holding(x)'
      BY Zenon, <1>7 DEF Holding
    <2> QED BY Zenon, <2>1, <2>2, <2>3, <2>4, <2>5
  <1>i. NoInv'
    BY Zenon, <1>5 DEF NoInv, IInv
  <1>v. DInv'
    <2> SUFFICES ASSUME WholeLines, Latest PROVE Latest'
      BY Zenon DEF DInv, IInv
    <2>1. ASSUME NEW x \in Caches PROVE Copy(x)'
      BY Zenon, <1>1, <1>5, <1>7, NotHolding DEF Latest
    <2>2. MemoryLatest'
      BY Zenon
    <2> QED BY Zenon, <2>1, <2>2 DEF Latest
  <1> QED BY Zenon, <1>8, <1>9, <1>i, <1>v, LineNext DEF IInv

\* What the owner writes back is the latest data.
LEMMA WritesLatest ==
    ASSUME IInv, Latest, NEW c \in Caches, Requested(c, "PUTX")
    PROVE  Head(net.request[c]).DataBlk = latest
  <1>1. Putting(c) /\ c \in dir.owner
    BY Zenon, Arrives
  <1>2. state(c) = "MI" /\ ~Taken(c)
    BY Zenon, <1>1, Parts DEF WritingBack, Passing, Misses
  <1> QED BY Zenon, <1>1, <1>2 DEF Latest, Copy

\* The memory is to write the latest data.
LEMMA ToWrite ==
    ASSUME dir'.state \in Writing \cup {"ID_W"}, memory'.toMemory # <<>>,
           InMemory'.DataBlk = latest'
    PROVE  MemoryLatest'
  BY Zenon DEF MemoryLatest, Writing

\* PUTX in M: the owner gives the line back.
LEMMA Replaced ==
    ASSUME IInv, NEW c \in Caches, M_PUTX(c) PROVE IInv'
  <1> DEFINE rq == Put(net.request, c, Tail(net.request[c]))
             data == Head(net.request[c]).DataBlk
             tbe == [DataBlk |-> data, Offset |-> 0, Len |-> BlockSize,
                     DmaRequestor |-> None]
  <1>0. net \in NetType
    BY Zenon, Parts
  <1>1. /\ UNCHANGED <<cache, cpu, dma, fatal, latest>> /\ Requested(c, "PUTX")
        /\ dir.state = "M" /\ queueMemory("MEMORY_WB", c, data)
        /\ dir' = [state |-> "MI", owner |-> {}, tbe |-> tbe]
    BY Zenon DEF M_PUTX, queueMemoryWrite
  <1>2. net' = NetOf(rq, net.forward, net.response, net.dmaRequest, net.dmaResponse)
    BY Zenon, <1>0 DEF M_PUTX, NetType, NetOf, Put
  <1>e. rq = Put(net.request, c, Tail(net.request[c]))
    BY Zenon
  <1> HIDE DEF rq
  <1>3. Head(net.request[c]) \in RequestMsg /\ rq \in Requests
    BY Zenon, <1>1, <1>e, Arrives
  <1>4. data \in DataBlock
    BY Zenon, <1>3 DEF RequestMsg
  <1> HIDE DEF data
  <1>5. tbe \in DirTBE
    BY <1>4, MIAssumption DEF DirTBE, Bytes
  <1> HIDE DEF tbe
  <1>6. /\ net' \in NetType /\ net'.request = rq
        /\ net'.forward = net.forward /\ net'.response = net.response
    BY <1>0, <1>2, <1>3, NetFields, NetOfType
  <1>7. /\ memory' \in MemoryType
        /\ Len(memory'.toMemory) = 1 /\ memory'.fromMemory = <<>>
        /\ InMemory'.Type = "MEMORY_WB" /\ Id' = c
        /\ memory'.toMemory # <<>> /\ InMemory'.DataBlk = data
    BY Zenon, <1>1, <1>4, QueueMemory DEF IInv, Lent
  <1>8. /\ dir' \in DirType /\ dir'.state = "MI" /\ dir'.owner = {}
    BY Zenon, <1>1, <1>5 DEF DirType, DirStates
  <1>9. TInv'
    <2>1. Types'
      BY Zenon, <1>1, <1>6, <1>7, <1>8 DEF IInv, TInv, Types
    <2>2. Allocated' /\ OneInMemory'
      BY Zenon, <1>1, <1>7, <1>8 DEF IInv, TInv, Allocated, OneInMemory, Lent, Writing
    <2> QED BY Zenon, <2>1, <2>2 DEF TInv
  <1>10. dir.state \in Lent /\ dir'.state \in Writing
    BY Zenon, <1>1, <1>8 DEF Lent, Writing
  <1>11. Latest => MemoryLatest'
    BY Zenon, <1>1, <1>7, <1>10, WritesLatest, ToWrite DEF data
  <1> QED BY Zenon, <1>1, <1>6, <1>7, <1>8, <1>9, <1>10, <1>11, <1>e, Accepts


\* PUTX of a cache that is no longer the owner: the directory refuses it.
LEMMA Refused ==
    ASSUME IInv, NEW c \in Caches, PUTX_NotOwner(c) PROVE IInv'
  <1> DEFINE m == [Type |-> "WB_NACK", Requestor |-> c]
             rq == Put(net.request, c, Tail(net.request[c]))
             fw == Put(net.forward, c, Append(net.forward[c], m))
  <1>0. net \in NetType
    BY Zenon, Parts
  <1>1. /\ UNCHANGED <<cache, cpu, dir, dma, memory, fatal, latest>>
        /\ Requested(c, "PUTX_NotOwner") /\ dir.state \in {"M", "I"}
    BY Zenon DEF PUTX_NotOwner
  <1>2. net' = NetOf(rq, fw, net.response, net.dmaRequest, net.dmaResponse)
    BY Zenon, <1>0 DEF PUTX_NotOwner, NetType, NetOf, Put
  <1>e. /\ rq = Put(net.request, c, Tail(net.request[c]))
        /\ fw = Put(net.forward, c, Append(net.forward[c], m))
    BY Zenon
  <1>m. m \in ForwardMsg /\ m.Type = "WB_NACK"
    BY Zenon DEF ForwardMsg
  <1> HIDE DEF rq, fw, m
  <1>3. /\ rq \in Requests /\ rq[c] = <<>> /\ Len(rq[c]) <= 1
        /\ \A x \in Caches : x # c => rq[x] = net.request[x]
        /\ Putting(c) /\ ~Asking(c) /\ c \notin dir.owner
    BY <1>1, <1>e, Arrives
  <1>4. /\ fw \in Forwards /\ Extends(fw[c], net.forward[c], m)
        /\ \A x \in Caches : x # c => fw[x] = net.forward[x]
    BY Zenon, <1>0, <1>e, <1>m, AppendForward
  <1>5. /\ net' \in NetType /\ net'.request = rq
        /\ net'.forward = fw /\ net'.response = net.response
    BY <1>0, <1>2, <1>3, <1>4, NetFields, NetOfType
  <1>6. TInv'
    <2>1. Types'
      BY Zenon, <1>1, <1>5 DEF IInv, TInv, Types
    <2>2. Allocated' /\ OneInMemory'
      BY Zenon, <1>1, SameMemory DEF IInv, TInv, Allocated
    <2> QED BY Zenon, <2>1, <2>2 DEF TInv
  <1>7. /\ state(c) \in {"MI", "II"} /\ ~Taken(c) /\ ~Sent(c, "WB_ACK")
        /\ ~Sent(c, "WB_NACK")
    BY Zenon, <1>3, Parts DEF WritingBack, Taken
  <1>8. /\ \A t : t # "WB_NACK" => (Sent(c, t)' <=> Sent(c, t))
        /\ \A x \in Caches : Waits(x, c)' <=> Waits(x, c)
        /\ Once(fw[c], {"GETX"}) /\ Once(fw[c], {"WB_ACK", "WB_NACK"})
    <2>1. /\ \A t : t # "WB_NACK" => (Has(fw[c], t) <=> Has(net.forward[c], t))
          /\ \A x : Asks(fw[c], x) <=> Asks(net.forward[c], x)
      BY <1>4, <1>m, Others
    <2>2. Once(fw[c], {"GETX"}) /\ Once(fw[c], {"WB_ACK", "WB_NACK"})
      <3>1. Once(net.forward[c], {"GETX"}) /\ Once(net.forward[c], {"WB_ACK", "WB_NACK"})
        BY Zenon, Parts DEF Buffers
      <3>2. \A t \in {"WB_ACK", "WB_NACK"} : ~Has(net.forward[c], t)
        BY Zenon, <1>7 DEF Sent
      <3>3. m.Type \notin {"GETX"}
        BY Zenon, <1>m
      <3> QED BY Zenon, <1>4, <3>1, <3>2, <3>3 DEF Extends
    <2> QED BY Zenon, <1>5, <2>1, <2>2 DEF Sent, Waits
  <1>9. /\ ~Asking(c)' /\ ~Putting(c)'
        /\ \A x \in Caches :
              /\ x # c => /\ (Asking(x)' <=> Asking(x)) /\ (Putting(x)' <=> Putting(x))
                          /\ \A type : Sent(x, type)' <=> Sent(x, type)
                          /\ \A r \in Caches : Waits(r, x)' <=> Waits(r, x)
              /\ state(x)' = state(x) /\ (Answered(x)' <=> Answered(x))
              /\ ~BeingWritten(x)' /\ ~BeingWritten(x)
    BY Zenon, <1>1, <1>3, <1>4, <1>5, EmptyBuffer
    DEF Asking, Putting, state, Sent, Waits, Answered, BeingWritten, Writing
  <1>10. \A x \in Caches : (Taken(x)' <=> Taken(x)) /\ (Holds(x)' <=> Holds(x))
    <2>1. \A x \in Caches : Taken(x)' <=> Taken(x)
      BY Zenon, <1>8, <1>9 DEF Taken
    <2> QED BY Zenon, <1>9, <2>1 DEF Holds
  <1>11. \A x \in Caches : /\ \A r \in Caches : Waits(r, x)' <=> Waits(r, x)
                           /\ Sent(x, "GETX")' <=> Sent(x, "GETX")
                           /\ Sent(x, "WB_ACK")' <=> Sent(x, "WB_ACK")
                           /\ Sent(x, "INV")' <=> Sent(x, "INV")
    BY Zenon, <1>8, <1>9
  <1>12. OneOwner'
    BY Zenon, <1>1 DEF OneOwner, IInv
  <1>13. ASSUME NEW x \in Caches
         PROVE  /\ Buffers(x)' /\ Missing(x)' /\ WritingBack(x)'
                /\ Passing(x)' /\ Holding(x)'
    <2>1. Buffers(x)'
      BY Zenon, <1>3, <1>4, <1>5, <1>8, Parts DEF Buffers
    <2>2. Missing(x)'
      BY Zenon, <1>1, <1>9, <1>11, Parts DEF Missing
    <2>3. WritingBack(x)'
      BY Zenon, <1>7, <1>9, <1>10, <1>11, Parts DEF WritingBack
    <2>4. Passing(x)'
      <3>1. CASE x = c
        BY Zenon, <1>1, <1>3, <1>9, <1>10, <1>11, <3>1, Parts DEF Passing
      <3>2. CASE x # c
        BY Zenon, <1>1, <1>9, <1>10, <1>11, <3>2, Parts DEF Passing
      <3> QED BY Zenon, <3>1, <3>2
    <2>5. Holding(x)'
      BY Zenon, <1>1, <1>10, Parts DEF Holding
    <2> QED BY Zenon, <2>1, <2>2, <2>3, <2>4, <2>5
  <1>i. NoInv'
    BY Zenon, <1>11 DEF NoInv, IInv
  <1>v. DInv'
    <2> SUFFICES ASSUME WholeLines, Latest PROVE Latest'
      BY Zenon DEF DInv, IInv
    <2>1. ASSUME NEW x \in Caches PROVE Copy(x)'
      BY Zenon, <1>1, <1>3, <1>5, <1>9, <1>10, Kept DEF Latest
    <2>2. MemoryLatest'
      BY Zenon, <1>1, SameMemoryLatest DEF Latest
    <2> QED BY Zenon, <2>1, <2>2 DEF Latest
  <1> QED BY Zenon, <1>6, <1>12, <1>13, <1>i, <1>v, LineNext DEF IInv

\* The line is in memory, and the cache that wrote it back gets to know.  The
\* acknowledgement may overtake a message sent before it.
LEMMA Acknowledged ==
    ASSUME IInv, NEW n \in NetType, n.request = net.request, n.forward = net.forward,
           n.response = net.response, dir.state \in Writing, FromMemory("MEMORY_WB"),
           popMemQueue, sendWriteBackAck(n), UNCHANGED <<cache, cpu, dma, fatal, latest>>,
           dir' = [dir EXCEPT !.state = "I", !.tbe = None]
    PROVE  IInv'
  <1>c. PICK c : c = Answer.OriginalRequestorMachId
    BY Zenon
  <1> DEFINE m == [Type |-> "WB_ACK", Requestor |-> c]
             q == net.forward[c]
  <1>0. net \in NetType
    BY Zenon, Parts
  <1>1. /\ memory' \in MemoryType /\ memory'.toMemory = <<>>
        /\ memory'.fromMemory = <<>> /\ Answer \in MemoryMsg /\ c = Id
        /\ memory.toMemory = <<>> /\ memory'.line = memory.line
    BY Zenon, <1>c, PopMemory DEF IInv
  <1>2. c \in Caches /\ BeingWritten(c) /\ \A x \in Caches : BeingWritten(x) => x = c
    BY Zenon, <1>1 DEF IInv, TInv, OneInMemory, BeingWritten, Writing, Lent
  <1>m. m \in ForwardMsg /\ m.Type = "WB_ACK"
    BY Zenon, <1>2 DEF ForwardMsg
  <1>3. q \in Seq(ForwardMsg)
    BY Zenon, <1>0, <1>2, NetFields
  <1>4. PICK k \in {Len(q), Len(q) + 1} \ {0} :
           net' = [n EXCEPT !.forward[c] = InsertAt(@, k, m)]
    BY Zenon, <1>c DEF sendWriteBackAck
  <1> DEFINE s == InsertAt(q, k, m)
             fw == Put(net.forward, c, s)
  <1>5. net' = NetOf(net.request, fw, net.response, n.dmaRequest, n.dmaResponse)
    BY Zenon, <1>4 DEF NetType, NetOf, Put
  <1>e. fw = Put(net.forward, c, s)
    BY Zenon
  <1>6. s \in Seq(ForwardMsg) /\ Extends(s, q, m)
    <2>1. Len(q) \in Nat
      BY <1>3
    <2>2. k \in 1 .. Len(q) + 1
      BY <2>1
    <2> HIDE DEF q, m
    <2> QED BY Zenon, <1>3, <1>m, <2>2, InsertExtends
  <1> HIDE DEF fw, s, m
  <1>7. /\ fw \in Forwards /\ Extends(fw[c], net.forward[c], m)
        /\ \A x \in Caches : x # c => fw[x] = net.forward[x]
    <2>1. /\ fw \in Forwards /\ fw[c] = s
          /\ \A x \in Caches : x # c => fw[x] = net.forward[x]
      BY Zenon, <1>0, <1>2, <1>6, <1>e, NetFields DEF Forwards, Put
    <2> QED BY Zenon, <1>6, <2>1
  <1> HIDE DEF q
  <1>8. /\ net' \in NetType /\ net'.request = net.request
        /\ net'.forward = fw /\ net'.response = net.response
    <2>1. n.dmaRequest \in DMARequests /\ n.dmaResponse \in DMAResponses
      BY Zenon DEF NetType
    <2> QED BY <1>0, <1>5, <1>7, <2>1, NetFields, NetOfType
  <1>9. /\ dir' \in DirType /\ dir'.state = "I" /\ dir'.owner = dir.owner /\ dir.owner = {}
    <2>1. dir \in DirType /\ dir.owner = {}
      BY Zenon DEF IInv, TInv, Types, OneOwner, Lent, Writing
    <2> QED BY Zenon, <2>1 DEF DirType, DirStates
  <1>10. TInv'
    <2>1. Types'
      BY Zenon, <1>1, <1>8, <1>9 DEF IInv, TInv, Types
    <2>2. Allocated' /\ OneInMemory'
      BY Zenon, <1>1, <1>9 DEF IInv, TInv, Allocated, OneInMemory
    <2> QED BY Zenon, <2>1, <2>2 DEF TInv
  <1>11. /\ state(c) = "MI" /\ ~Sent(c, "WB_ACK") /\ ~Sent(c, "WB_NACK")
         /\ Taken(c) /\ ~Sent(c, "GETX") /\ ~Putting(c)
    BY Zenon, <1>2, Parts DEF WritingBack, Passing, Taken
  <1>12. /\ Sent(c, "WB_ACK")' /\ \A t : t # "WB_ACK" => (Sent(c, t)' <=> Sent(c, t))
         /\ \A x \in Caches : Waits(x, c)' <=> Waits(x, c)
         /\ Once(fw[c], {"GETX"}) /\ Once(fw[c], {"WB_ACK", "WB_NACK"})
    <2>1. /\ \A t : t # "WB_ACK" => (Has(fw[c], t) <=> Has(net.forward[c], t))
          /\ \A x : Asks(fw[c], x) <=> Asks(net.forward[c], x)
      BY <1>7, <1>m, Others
    <2>2. Once(fw[c], {"GETX"}) /\ Once(fw[c], {"WB_ACK", "WB_NACK"})
      <3>1. Once(net.forward[c], {"GETX"}) /\ Once(net.forward[c], {"WB_ACK", "WB_NACK"})
        BY Zenon, <1>2, Parts DEF Buffers
      <3>2. \A t \in {"WB_ACK", "WB_NACK"} : ~Has(net.forward[c], t)
        BY Zenon, <1>11 DEF Sent
      <3>3. m.Type \notin {"GETX"}
        BY Zenon, <1>m
      <3> QED BY Zenon, <1>7, <3>1, <3>2, <3>3 DEF Extends
    <2>3. Has(fw[c], "WB_ACK")
      BY Zenon, <1>7, <1>m DEF Extends
    <2> QED BY Zenon, <1>8, <2>1, <2>2, <2>3 DEF Sent, Waits
  <1>13. \A x \in Caches :
            /\ x # c => /\ \A type : Sent(x, type)' <=> Sent(x, type)
                        /\ \A r \in Caches : Waits(r, x)' <=> Waits(r, x)
            /\ (Asking(x)' <=> Asking(x)) /\ (Putting(x)' <=> Putting(x))
            /\ state(x)' = state(x) /\ (Answered(x)' <=> Answered(x))
            /\ ~BeingWritten(x)'
    BY Zenon, <1>7, <1>8, <1>9
    DEF Asking, Putting, state, Sent, Waits, Answered, BeingWritten, Writing
  <1>14. \A x \in Caches : (Taken(x)' <=> Taken(x)) /\ ~Holds(x)'
    <2>1. \A x \in Caches : Taken(x)' <=> Taken(x)
      BY Zenon, <1>2, <1>11, <1>12, <1>13 DEF Taken
    <2>2. \A x \in Caches : ~Holds(x)
      BY Zenon, Parts DEF Holding, Lent, Writing
    <2> QED BY Zenon, <1>13, <2>1, <2>2 DEF Holds
  <1>15. \A x \in Caches : /\ \A r \in Caches : Waits(r, x)' <=> Waits(r, x)
                           /\ Sent(x, "GETX")' <=> Sent(x, "GETX")
                           /\ Sent(x, "WB_NACK")' <=> Sent(x, "WB_NACK")
                           /\ Sent(x, "INV")' <=> Sent(x, "INV")
    BY Zenon, <1>12, <1>13
  <1>16. OneOwner'
    BY Zenon, <1>9 DEF OneOwner, Lent
  <1>17. ASSUME NEW x \in Caches
         PROVE  /\ Buffers(x)' /\ Missing(x)' /\ WritingBack(x)'
                /\ Passing(x)' /\ Holding(x)'
    <2>1. Buffers(x)'
      BY Zenon, <1>7, <1>8, <1>12, Parts DEF Buffers
    <2>2. Missing(x)'
      BY Zenon, <1>9, <1>13, <1>15, Parts DEF Missing
    <2>3. WritingBack(x)'
      BY Zenon, <1>11, <1>13, <1>14, <1>15, Parts DEF WritingBack
    <2>4. Passing(x)'
      BY <1>9, <1>13, <1>14, <1>15, Parts DEF Passing
    <2>5. Holding(x)'
      BY Zenon, <1>14 DEF Holding
    <2> QED BY Zenon, <2>1, <2>2, <2>3, <2>4, <2>5
  <1>i. NoInv'
    BY Zenon, <1>15 DEF NoInv, IInv
  <1>v. DInv'
    <2> SUFFICES ASSUME WholeLines, Latest PROVE Latest'
      BY Zenon DEF DInv, IInv
    <2>1. ASSUME NEW x \in Caches PROVE Copy(x)'
      BY Zenon, <1>8, <1>14, Kept DEF Latest
    <2>2. MemoryLatest'
      BY Zenon, <1>1, <1>9 DEF Latest, MemoryLatest, Writing
    <2> QED BY Zenon, <2>1, <2>2 DEF Latest
  <1> QED BY Zenon, <1>10, <1>16, <1>17, <1>i, <1>v, LineNext DEF IInv

\* The writeback is acknowledged.
LEMMA AckToCache ==
    ASSUME IInv, MI_Memory_Ack PROVE IInv'
  <1>1. dir.state \in Writing
    BY Zenon DEF MI_Memory_Ack, Writing
  <1> QED BY Zenon, <1>1, Parts, Acknowledged DEF MI_Memory_Ack


-----------------------------------------------------------------------------
(* The directory and DMA.                                                  *)

\* A device's request and the answer to it are put into their buffers and taken.
LEMMA DMABuffers ==
    ASSUME net \in NetType, NEW d \in DMAs
    PROVE  /\ \A m \in DMARequestMsg :
                 Put(net.dmaRequest, d, Append(net.dmaRequest[d], m)) \in DMARequests
           /\ net.dmaRequest[d] # <<>> =>
                 /\ Put(net.dmaRequest, d, Tail(net.dmaRequest[d])) \in DMARequests
                 /\ Head(net.dmaRequest[d]) \in DMARequestMsg
           /\ \A m \in DMAResponseMsg :
                 Put(net.dmaResponse, d, Append(net.dmaResponse[d], m)) \in DMAResponses
           /\ net.dmaResponse[d] # <<>> =>
                 Put(net.dmaResponse, d, Tail(net.dmaResponse[d])) \in DMAResponses
  <1>1. /\ net.dmaRequest \in DMARequests /\ net.dmaResponse \in DMAResponses
        /\ net.dmaRequest[d] \in Seq(DMARequestMsg)
        /\ net.dmaResponse[d] \in Seq(DMAResponseMsg)
    BY Zenon, NetFields
  <1>2. \A f \in DMARequests : \A s \in Seq(DMARequestMsg) : Put(f, d, s) \in DMARequests
    BY Zenon DEF DMARequests, Put
  <1>3. \A f \in DMAResponses : \A s \in Seq(DMAResponseMsg) : Put(f, d, s) \in DMAResponses
    BY Zenon DEF DMAResponses, Put
  <1>4. \A m \in DMARequestMsg : Append(net.dmaRequest[d], m) \in Seq(DMARequestMsg)
    BY <1>1
  <1>5. net.dmaRequest[d] # <<>> => /\ Tail(net.dmaRequest[d]) \in Seq(DMARequestMsg)
                                    /\ Head(net.dmaRequest[d]) \in DMARequestMsg
    BY <1>1
  <1>6. \A m \in DMAResponseMsg : Append(net.dmaResponse[d], m) \in Seq(DMAResponseMsg)
    BY <1>1
  <1>7. net.dmaResponse[d] # <<>> => Tail(net.dmaResponse[d]) \in Seq(DMAResponseMsg)
    BY <1>1
  <1> QED BY Zenon, <1>1, <1>2, <1>3, <1>4, <1>5, <1>6, <1>7

\* What is left behind the bytes of a write may be anything, a block it is.
LEMMA WritePartial ==
    ASSUME NEW id \in Caches \cup DMAs, NEW block \in DataBlock, NEW size \in 1 .. BlockSize,
           TInv, dir.state \in Lent \cup {"I"}, queueMemoryWritePartial(id, block, size)
    PROVE  /\ memory' \in MemoryType
           /\ Len(memory'.toMemory) = 1 /\ memory'.fromMemory = <<>>
           /\ memory'.toMemory # <<>> /\ memory'.line = memory.line
           /\ InMemory'.Type = "MEMORY_WB" /\ Id' = id
           /\ BlockSize = 1 => InMemory'.DataBlk = block
  <1>1. PICK behind \in [size .. BlockSize - 1 -> Values] :
           queueMemory("MEMORY_WB", id,
                       [b \in Bytes |-> IF b < size THEN block[b] ELSE behind[b]])
    BY Zenon DEF queueMemoryWritePartial
  <1> DEFINE data == [b \in Bytes |-> IF b < size THEN block[b] ELSE behind[b]]
  <1>2. data \in DataBlock
    <2>1. ASSUME NEW b \in Bytes PROVE (IF b < size THEN block[b] ELSE behind[b]) \in Values
      <3>1. block[b] \in Values
        BY Zenon DEF DataBlock
      <3>2. ~(b < size) => b \in size .. BlockSize - 1
        BY MIAssumption DEF Bytes
      <3> QED BY Zenon, <3>1, <3>2
    <2> QED BY Zenon, <2>1 DEF DataBlock
  <1>3. queueMemory("MEMORY_WB", id, data)
    BY Zenon, <1>1
  <1>4. BlockSize = 1 => data = block
    <2> SUFFICES ASSUME BlockSize = 1 PROVE data = block
      BY Zenon
    <2>1. \A b \in Bytes : b < size
      BY DEF Bytes
    <2> QED BY Zenon, <2>1 DEF DataBlock
  <1> HIDE DEF data
  <1> QED BY Zenon, <1>2, <1>3, <1>4, QueueMemory

\* A partial write yields a line.
LEMMA WrittenType ==
    ASSUME NEW m, m \in DMARequestMsg \/ m \in DirTBE, latest \in DataBlock
    PROVE  Written(m) \in DataBlock
  <1>1. m.DataBlk \in DataBlock
    BY Zenon DEF DMARequestMsg, DirTBE
  <1> QED BY Zenon, <1>1 DEF Written, DataBlock

\* A line of one byte is written as a whole.
LEMMA WholeWrite ==
    ASSUME NEW m, m \in DMARequestMsg \/ m \in DirTBE, BlockSize = 1
    PROVE  Written(m) = m.DataBlk
  <1>1. m.DataBlk \in DataBlock /\ m.Offset \in Bytes /\ m.Len \in 1 .. BlockSize
    BY Zenon DEF DMARequestMsg, DirTBE
  <1>2. \A b \in Bytes : b \in m.Offset .. m.Offset + m.Len - 1
    BY <1>1 DEF Bytes
  <1> QED BY Zenon, <1>1, <1>2 DEF Written, DataBlock

\* A step that leaves the caches and their messages alone.
LEMMA DirectoryQuiet ==
    ASSUME IInv, UNCHANGED <<cache, cpu, dma, fatal>>, latest' \in DataBlock,
           net' \in NetType, net'.request = net.request, net'.forward = net.forward,
           net'.response = net.response, memory' \in MemoryType, OneInMemory',
           dir' \in DirType, dir'.owner = dir.owner,
           dir.state \in {"I", "ID", "ID_W"}, dir'.state \in {"I", "ID", "ID_W"},
           dir'.state # "I" => dir'.tbe \in DirTBE /\ dir'.tbe.DmaRequestor \in DMAs,
           WholeLines /\ Latest => MemoryLatest'
    PROVE  IInv'
  <1>1. TInv'
    <2>1. Types'
      BY Zenon DEF IInv, TInv, Types
    <2>2. Allocated'
      BY Zenon DEF IInv, TInv, Allocated
    <2> QED BY Zenon, <2>1, <2>2 DEF TInv
  <1>2. \A x \in Caches : state(x)' = state(x) /\ SameForward(x)
    BY Zenon, Parts, UnchangedForward DEF state
  <1>3. /\ dir.state \notin Lent /\ dir.state \notin Writing /\ dir.state # "IM"
        /\ dir'.state \notin Lent /\ dir'.state \notin Writing /\ dir'.state # "IM"
    BY Zenon DEF Lent, Writing
  <1>4. ASSUME Latest, NEW x \in Caches PROVE Copy(x)'
    <2>1. ~Holds(x)
      BY Zenon, <1>3, Parts DEF Holding
    <2>2. /\ state(x)' = state(x) /\ (Answered(x)' <=> Answered(x))
          /\ (Taken(x)' <=> Taken(x))
      BY Zenon, <1>2, <1>3 DEF Answered, Taken, BeingWritten, Sent
    <2>3. ~Holds(x)'
      BY Zenon, <2>1, <2>2 DEF Holds
    <2> QED BY Zenon, <1>4, <2>3, NotHolding DEF Latest
  <1> QED BY Zenon, <1>1, <1>2, <1>3, <1>4, Quiet

\* A DMA read in I goes to the memory.
LEMMA DMAReadIdle ==
    ASSUME IInv, NEW d \in DMAs, I_DMA_READ(d) PROVE IInv'
  <1> DEFINE dq == Put(net.dmaRequest, d, Tail(net.dmaRequest[d]))
             tbe == [DataBlk |-> Clear, Offset |-> 0, Len |-> BlockSize, DmaRequestor |-> d]
  <1>0. net \in NetType /\ dir \in DirType
    BY Zenon, Parts DEF IInv, TInv, Types
  <1>1. /\ UNCHANGED <<cache, cpu, dma, fatal, latest>> /\ dir.state = "I"
        /\ net.dmaRequest[d] # <<>> /\ queueMemory("MEMORY_READ", d, Clear)
        /\ dir' = [dir EXCEPT !.state = "ID", !.tbe = tbe]
    BY Zenon DEF I_DMA_READ, DMARequested, queueMemoryRead
  <1>2. net' = NetOf(net.request, net.forward, net.response, dq, net.dmaResponse)
    BY Zenon, <1>0 DEF I_DMA_READ, NetType, NetOf, Put
  <1>3. dq \in DMARequests
    BY Zenon, <1>0, <1>1, DMABuffers
  <1>4. tbe \in DirTBE /\ tbe.DmaRequestor \in DMAs
    BY ClearType, MIAssumption DEF DirTBE, Bytes
  <1> HIDE DEF dq, tbe
  <1>5. /\ net' \in NetType /\ net'.request = net.request
        /\ net'.forward = net.forward /\ net'.response = net.response
    BY <1>0, <1>2, <1>3, NetFields, NetOfType
  <1>6. /\ memory' \in MemoryType
        /\ Len(memory'.toMemory) = 1 /\ memory'.fromMemory = <<>>
        /\ InMemory'.Type = "MEMORY_READ" /\ memory'.line = memory.line
    BY Zenon, <1>1, ClearType, QueueMemory DEF IInv
  <1>7. dir' \in DirType /\ dir'.state = "ID" /\ dir'.owner = dir.owner /\ dir'.tbe = tbe
    BY Zenon, <1>0, <1>1, <1>4 DEF DirType, DirStates
  <1>8. OneInMemory' /\ latest' \in DataBlock
    BY Zenon, <1>1, <1>6, <1>7 DEF IInv, TInv, Types, OneInMemory, Lent, Writing
  <1>9. Latest => MemoryLatest'
    BY Zenon, <1>1, <1>6, <1>7 DEF Latest, MemoryLatest, Writing
  <1> QED BY Zenon, <1>1, <1>4, <1>5, <1>6, <1>7, <1>8, <1>9, DirectoryQuiet

\* A DMA write in I goes to the memory.
LEMMA DMAWriteIdle ==
    ASSUME IInv, NEW d \in DMAs, I_DMA_WRITE(d) PROVE IInv'
  <1> DEFINE m == Head(net.dmaRequest[d])
             dq == Put(net.dmaRequest, d, Tail(net.dmaRequest[d]))
             tbe == [DataBlk |-> m.DataBlk, Offset |-> m.Offset, Len |-> m.Len,
                     DmaRequestor |-> d]
  <1>0. net \in NetType /\ dir \in DirType /\ latest \in DataBlock
    BY Zenon, Parts DEF IInv, TInv, Types
  <1>1. /\ UNCHANGED <<cache, cpu, dma, fatal>> /\ dir.state = "I"
        /\ net.dmaRequest[d] # <<>> /\ queueMemoryWritePartial(d, m.DataBlk, m.Len)
        /\ dir' = [dir EXCEPT !.state = "ID_W", !.tbe = tbe]
        /\ latest' = Written(m)
    BY Zenon DEF I_DMA_WRITE, DMARequested
  <1>2. net' = NetOf(net.request, net.forward, net.response, dq, net.dmaResponse)
    BY Zenon, <1>0 DEF I_DMA_WRITE, NetType, NetOf, Put
  <1>3. dq \in DMARequests /\ m \in DMARequestMsg
    BY Zenon, <1>0, <1>1, DMABuffers
  <1> HIDE DEF m
  <1>4. m.DataBlk \in DataBlock /\ m.Offset \in Bytes /\ m.Len \in 1 .. BlockSize
    BY Zenon, <1>3 DEF DMARequestMsg
  <1>5. tbe \in DirTBE /\ tbe.DmaRequestor \in DMAs
    BY Zenon, <1>4 DEF DirTBE
  <1> HIDE DEF dq, tbe
  <1>6. /\ net' \in NetType /\ net'.request = net.request
        /\ net'.forward = net.forward /\ net'.response = net.response
    BY <1>0, <1>2, <1>3, NetFields, NetOfType
  <1>7. /\ memory' \in MemoryType
        /\ Len(memory'.toMemory) = 1 /\ memory'.fromMemory = <<>>
        /\ InMemory'.Type = "MEMORY_WB" /\ memory'.toMemory # <<>>
        /\ BlockSize = 1 => InMemory'.DataBlk = m.DataBlk
    BY Zenon, <1>1, <1>4, WritePartial DEF IInv
  <1>8. dir' \in DirType /\ dir'.state = "ID_W" /\ dir'.owner = dir.owner /\ dir'.tbe = tbe
    BY Zenon, <1>0, <1>1, <1>5 DEF DirType, DirStates
  <1>9. latest' \in DataBlock
    BY Zenon, <1>0, <1>1, <1>3, WrittenType
  <1>10. OneInMemory'
    BY Zenon, <1>7, <1>8 DEF OneInMemory, Lent, Writing
  <1>11. WholeLines => MemoryLatest'
    <2> SUFFICES ASSUME WholeLines PROVE MemoryLatest'
      BY Zenon
    <2>1. BlockSize = 1
      BY Zenon DEF WholeLines
    <2>2. InMemory'.DataBlk = latest'
      BY Zenon, <1>1, <1>3, <1>7, <2>1, WholeWrite
    <2> QED BY Zenon, <1>7, <1>8, <2>2, ToWrite
  <1> QED BY Zenon, <1>1, <1>5, <1>6, <1>7, <1>8, <1>9, <1>10, <1>11, DirectoryQuiet


\* The DMA controller is answered, and the directory is idle again.
LEMMA DMAAnswered ==
    ASSUME IInv, ID_Memory_Data \/ ID_W_Memory_Ack PROVE IInv'
  <1> DEFINE d == dir.tbe.DmaRequestor
             m == IF dir.state = "ID" THEN [Type |-> "DATA", DataBlk |-> Answer.DataBlk]
                  ELSE DMAAck
             dr == Put(net.dmaResponse, d, Append(net.dmaResponse[d], m))
  <1>0. net \in NetType /\ dir \in DirType
    BY Zenon, Parts DEF IInv, TInv, Types
  <1>1. /\ UNCHANGED <<cache, cpu, dma, fatal, latest>> /\ dir.state \in {"ID", "ID_W"}
        /\ dir' = [dir EXCEPT !.state = "I", !.tbe = None] /\ popMemQueue
        /\ \E type : FromMemory(type)
    BY Zenon DEF ID_Memory_Data, ID_W_Memory_Ack
  <1>2. net' = NetOf(net.request, net.forward, net.response, net.dmaRequest, dr)
    BY Zenon, <1>0 DEF ID_Memory_Data, ID_W_Memory_Ack, NetType, NetOf, Put
  <1>3. d \in DMAs
    BY Zenon, <1>1 DEF IInv, TInv, Allocated
  <1>4. /\ memory' \in MemoryType /\ memory'.toMemory = <<>>
        /\ memory'.fromMemory = <<>> /\ Answer \in MemoryMsg
        /\ memory.toMemory = <<>> /\ memory'.line = memory.line
    BY Zenon, <1>1, PopMemory DEF IInv
  <1>5. m \in DMAResponseMsg
    BY Zenon, <1>4, ClearType DEF DMAResponseMsg, MemoryMsg, DMAAck
  <1> HIDE DEF d, m
  <1>6. dr \in DMAResponses
    BY Zenon, <1>0, <1>3, <1>5, DMABuffers
  <1> HIDE DEF dr
  <1>7. /\ net' \in NetType /\ net'.request = net.request
        /\ net'.forward = net.forward /\ net'.response = net.response
    BY <1>0, <1>2, <1>6, NetFields, NetOfType
  <1>8. dir' \in DirType /\ dir'.state = "I" /\ dir'.owner = dir.owner
    BY Zenon, <1>0, <1>1 DEF DirType, DirStates
  <1>9. OneInMemory' /\ latest' \in DataBlock
    BY Zenon, <1>1, <1>4, <1>8 DEF IInv, TInv, Types, OneInMemory
  <1>10. Latest => MemoryLatest'
    BY Zenon, <1>1, <1>4, <1>8 DEF Latest, MemoryLatest, Writing
  <1> QED BY Zenon, <1>1, <1>4, <1>7, <1>8, <1>9, <1>10, DirectoryQuiet

\* A cache has the line: it is told to give it up.
LEMMA DMALent ==
    ASSUME IInv, NEW d \in DMAs, M_DMA(d) PROVE IInv'
  <1> DEFINE r == Head(net.dmaRequest[d])
             m == [Type |-> "INV", Requestor |-> None]
             dq == Put(net.dmaRequest, d, Tail(net.dmaRequest[d]))
             fw == [x \in Caches |-> IF x \in dir.owner
                                     THEN Append(net.forward[x], m)
                                     ELSE net.forward[x]]
             tbe == [DataBlk |-> r.DataBlk, Offset |-> r.Offset, Len |-> r.Len,
                     DmaRequestor |-> d]
  <1>0. net \in NetType /\ dir \in DirType
    BY Zenon, Parts DEF IInv, TInv, Types
  <1>1. /\ UNCHANGED <<cache, cpu, dma, memory, fatal, latest>> /\ dir.state = "M"
        /\ net.dmaRequest[d] # <<>>
        /\ dir' = [dir EXCEPT !.state = IF r.Type = "READ" THEN "M_DRD" ELSE "M_DWR",
                              !.tbe = tbe]
    BY Zenon DEF M_DMA
  <1>2. net' = NetOf(net.request, fw, net.response, dq, net.dmaResponse)
    BY Zenon, <1>0 DEF M_DMA, NetType, NetOf, Put
  <1>e. fw = [x \in Caches |-> IF x \in dir.owner
                               THEN Append(net.forward[x], m)
                               ELSE net.forward[x]]
    BY Zenon
  <1>m. m \in ForwardMsg /\ m.Type = "INV"
    BY Zenon DEF ForwardMsg
  <1>3. dq \in DMARequests /\ r \in DMARequestMsg
    BY Zenon, <1>0, <1>1, DMABuffers
  <1> HIDE DEF r, m, fw
  <1>4. tbe \in DirTBE /\ tbe.DmaRequestor \in DMAs
    BY Zenon, <1>3 DEF DirTBE, DMARequestMsg
  <1> HIDE DEF dq, tbe
  <1>5. PICK o \in Caches : dir.owner = {o}
    BY Zenon, <1>1 DEF IInv, OneOwner, Lent
  <1>6. /\ fw \in Forwards /\ Extends(fw[o], net.forward[o], m)
        /\ \A x \in Caches : x # o => fw[x] = net.forward[x]
    BY Zenon, <1>e, <1>5, <1>m, ToOwner
  <1>7. /\ net' \in NetType /\ net'.request = net.request
        /\ net'.forward = fw /\ net'.response = net.response
    BY <1>0, <1>2, <1>3, <1>6, NetFields, NetOfType
  <1>8. /\ dir' \in DirType /\ dir'.state \in {"M_DRD", "M_DWR"}
        /\ dir'.owner = dir.owner /\ dir'.tbe = tbe
    BY Zenon, <1>0, <1>1, <1>4 DEF DirType, DirStates
  <1>9. TInv'
    <2>1. Types'
      BY Zenon, <1>1, <1>7, <1>8 DEF IInv, TInv, Types
    <2>2. Allocated' /\ OneInMemory'
      BY Zenon, <1>1, <1>4, <1>8 DEF IInv, TInv, Allocated, OneInMemory, Lent
    <2> QED BY Zenon, <2>1, <2>2 DEF TInv
  <1>10. SameForward(o)
    <2>1. /\ \A t : t # "INV" => (Has(fw[o], t) <=> Has(net.forward[o], t))
          /\ \A x : Asks(fw[o], x) <=> Asks(net.forward[o], x)
      BY <1>6, <1>m, Others
    <2>2. Once(fw[o], {"GETX"}) /\ Once(fw[o], {"WB_ACK", "WB_NACK"})
      <3>1. Once(net.forward[o], {"GETX"}) /\ Once(net.forward[o], {"WB_ACK", "WB_NACK"})
        BY Zenon, Parts DEF Buffers
      <3>2. m.Type \notin {"GETX"} /\ m.Type \notin {"WB_ACK", "WB_NACK"}
        BY Zenon, <1>m
      <3> QED BY Zenon, <1>6, <3>1, <3>2 DEF Extends
    <2> QED BY Zenon, <1>7, <2>1, <2>2 DEF SameForward, Sent, Waits
  <1>11. \A x \in Caches : state(x)' = state(x) /\ SameForward(x)
    BY Zenon, <1>1, <1>6, <1>7, <1>10, Parts, UnchangedForward DEF state
  <1>12. /\ dir.state \in Lent /\ dir.state \notin Writing /\ dir.state # "IM"
         /\ dir'.state \in Lent /\ dir'.state \notin Writing /\ dir'.state # "IM"
    BY Zenon, <1>1, <1>8 DEF Lent, Writing
  <1>13. MemoryLatest'
    BY Zenon, <1>12, LentMemory
  <1> QED BY Zenon, <1>1, <1>7, <1>8, <1>9, <1>11, <1>12, <1>13, Quiet

\* It has: the line goes to the device and to memory.
LEMMA DMARead ==
    ASSUME IInv, NEW c \in Caches, M_DRD_PUTX(c) PROVE IInv'
  <1> DEFINE rq == Put(net.request, c, Tail(net.request[c]))
             data == Head(net.request[c]).DataBlk
             d == dir.tbe.DmaRequestor
             m == [Type |-> "DATA", DataBlk |-> data]
             dr == Put(net.dmaResponse, d, Append(net.dmaResponse[d], m))
  <1>0. net \in NetType /\ dir \in DirType
    BY Zenon, Parts DEF IInv, TInv, Types
  <1>1. /\ UNCHANGED <<cache, cpu, dma, fatal, latest>> /\ Requested(c, "PUTX")
        /\ dir.state = "M_DRD" /\ queueMemory("MEMORY_WB", c, data)
        /\ dir' = [dir EXCEPT !.state = "M_DRDI", !.owner = {}]
    BY Zenon DEF M_DRD_PUTX, queueMemoryWrite
  <1>2. net' = NetOf(rq, net.forward, net.response, net.dmaRequest, dr)
    BY Zenon, <1>0 DEF M_DRD_PUTX, NetType, NetOf, Put
  <1>e. rq = Put(net.request, c, Tail(net.request[c]))
    BY Zenon
  <1> HIDE DEF rq
  <1>3. Head(net.request[c]) \in RequestMsg /\ rq \in Requests
    BY Zenon, <1>1, <1>e, Arrives
  <1>4. data \in DataBlock
    BY Zenon, <1>3 DEF RequestMsg
  <1> HIDE DEF data
  <1>5. d \in DMAs /\ dir.tbe \in DirTBE
    BY Zenon, <1>1 DEF IInv, TInv, Allocated
  <1>6. m \in DMAResponseMsg
    BY Zenon, <1>4 DEF DMAResponseMsg
  <1>t. d = dir.tbe.DmaRequestor
    BY Zenon
  <1> HIDE DEF d, m
  <1>7. dr \in DMAResponses
    BY Zenon, <1>0, <1>5, <1>6, DMABuffers
  <1> HIDE DEF dr
  <1>8. /\ net' \in NetType /\ net'.request = rq
        /\ net'.forward = net.forward /\ net'.response = net.response
    BY <1>0, <1>2, <1>3, <1>7, NetFields, NetOfType
  <1>9. /\ memory' \in MemoryType
        /\ Len(memory'.toMemory) = 1 /\ memory'.fromMemory = <<>>
        /\ InMemory'.Type = "MEMORY_WB" /\ Id' = c
        /\ memory'.toMemory # <<>> /\ InMemory'.DataBlk = data
    BY Zenon, <1>1, <1>4, QueueMemory DEF IInv, Lent
  <1>10. dir' \in DirType /\ dir'.state = "M_DRDI" /\ dir'.owner = {} /\ dir'.tbe = dir.tbe
    BY Zenon, <1>0, <1>1 DEF DirType, DirStates
  <1>11. TInv'
    <2>1. Types'
      BY Zenon, <1>1, <1>8, <1>9, <1>10 DEF IInv, TInv, Types
    <2>2. Allocated' /\ OneInMemory'
      BY Zenon, <1>1, <1>5, <1>t, <1>9, <1>10 DEF IInv, TInv, Allocated, OneInMemory, Lent, Writing
    <2> QED BY Zenon, <2>1, <2>2 DEF TInv
  <1>12. dir.state \in Lent /\ dir'.state \in Writing
    BY Zenon, <1>1, <1>10 DEF Lent, Writing
  <1>13. Latest => MemoryLatest'
    BY Zenon, <1>1, <1>9, <1>12, WritesLatest, ToWrite DEF data
  <1> QED BY Zenon, <1>1, <1>8, <1>9, <1>10, <1>11, <1>12, <1>13, <1>e, Accepts


\* Or what the device writes goes to memory.
LEMMA DMAWrite ==
    ASSUME IInv, NEW c \in Caches, M_DWR_PUTX(c) PROVE IInv'
  <1> DEFINE rq == Put(net.request, c, Tail(net.request[c]))
  <1>0. net \in NetType /\ dir \in DirType /\ latest \in DataBlock
    BY Zenon, Parts DEF IInv, TInv, Types
  <1>1. /\ UNCHANGED <<cache, cpu, dma, fatal>> /\ Requested(c, "PUTX")
        /\ dir.state = "M_DWR"
        /\ queueMemoryWritePartial(c, dir.tbe.DataBlk, dir.tbe.Len)
        /\ dir' = [dir EXCEPT !.state = "M_DWRI", !.owner = {}]
        /\ latest' = Written(dir.tbe)
    BY Zenon DEF M_DWR_PUTX
  <1>2. net' = NetOf(rq, net.forward, net.response, net.dmaRequest, net.dmaResponse)
    BY Zenon, <1>0 DEF M_DWR_PUTX, NetType, NetOf, Put
  <1>e. rq = Put(net.request, c, Tail(net.request[c]))
    BY Zenon
  <1> HIDE DEF rq
  <1>3. rq \in Requests
    BY Zenon, <1>1, <1>e, Arrives
  <1>4. dir.tbe \in DirTBE /\ dir.tbe.DmaRequestor \in DMAs
    BY Zenon, <1>1 DEF IInv, TInv, Allocated
  <1>5. dir.tbe.DataBlk \in DataBlock /\ dir.tbe.Len \in 1 .. BlockSize
    BY Zenon, <1>4 DEF DirTBE
  <1>6. /\ net' \in NetType /\ net'.request = rq
        /\ net'.forward = net.forward /\ net'.response = net.response
    BY <1>0, <1>2, <1>3, NetFields, NetOfType
  <1>7. /\ memory' \in MemoryType
        /\ Len(memory'.toMemory) = 1 /\ memory'.fromMemory = <<>>
        /\ InMemory'.Type = "MEMORY_WB" /\ Id' = c /\ memory'.toMemory # <<>>
        /\ BlockSize = 1 => InMemory'.DataBlk = dir.tbe.DataBlk
    BY Zenon, <1>1, <1>5, WritePartial DEF IInv, Lent
  <1>8. dir' \in DirType /\ dir'.state = "M_DWRI" /\ dir'.owner = {} /\ dir'.tbe = dir.tbe
    BY Zenon, <1>0, <1>1 DEF DirType, DirStates
  <1>9. latest' \in DataBlock
    BY Zenon, <1>0, <1>1, <1>4, WrittenType
  <1>10. TInv'
    <2>1. Types'
      BY Zenon, <1>1, <1>6, <1>7, <1>8, <1>9 DEF IInv, TInv, Types
    <2>2. Allocated' /\ OneInMemory'
      BY Zenon, <1>1, <1>4, <1>7, <1>8 DEF IInv, TInv, Allocated, OneInMemory, Lent, Writing
    <2> QED BY Zenon, <2>1, <2>2 DEF TInv
  <1>11. dir.state \in Lent /\ dir'.state \in Writing
    BY Zenon, <1>1, <1>8 DEF Lent, Writing
  <1>12. WholeLines => MemoryLatest'
    <2> SUFFICES ASSUME WholeLines PROVE MemoryLatest'
      BY Zenon
    <2>1. BlockSize = 1
      BY Zenon, <1>4 DEF WholeLines
    <2>2. InMemory'.DataBlk = latest'
      BY Zenon, <1>1, <1>4, <1>7, <2>1, WholeWrite
    <2> QED BY Zenon, <1>7, <1>11, <2>2, ToWrite
  <1> QED BY Zenon, <1>1, <1>6, <1>7, <1>8, <1>10, <1>11, <1>12, <1>e, Accepts

\* The DMA write after a writeback is done.
LEMMA DMAWritten ==
    ASSUME IInv, M_DWRI_Memory_Ack PROVE IInv'
  <1> DEFINE d == dir.tbe.DmaRequestor
             dr == Put(net.dmaResponse, d, Append(net.dmaResponse[d], DMAAck))
             n == NetOf(net.request, net.forward, net.response, net.dmaRequest, dr)
  <1>0. net \in NetType
    BY Zenon, Parts
  <1>1. /\ UNCHANGED <<cache, cpu, dma, fatal, latest>> /\ dir.state = "M_DWRI"
        /\ FromMemory("MEMORY_WB") /\ popMemQueue
        /\ dir' = [dir EXCEPT !.state = "I", !.tbe = None]
    BY Zenon DEF M_DWRI_Memory_Ack
  <1>2. sendWriteBackAck(n)
    <2>1. PICK a : a = [net EXCEPT !.dmaResponse[d] = Append(@, DMAAck)]
      BY Zenon
    <2>2. a = n
      BY Zenon, <1>0, <2>1 DEF NetType, NetOf, Put
    <2>3. sendWriteBackAck(a)
      BY Zenon, <2>1 DEF M_DWRI_Memory_Ack
    <2> QED BY Zenon, <2>2, <2>3
  <1>3. d \in DMAs /\ DMAAck \in DMAResponseMsg
    BY Zenon, <1>1, ClearType DEF IInv, TInv, Allocated, DMAAck, DMAResponseMsg
  <1> HIDE DEF d
  <1>4. dr \in DMAResponses
    BY Zenon, <1>0, <1>3, DMABuffers
  <1> HIDE DEF dr
  <1>5. /\ n \in NetType /\ n.request = net.request /\ n.forward = net.forward
        /\ n.response = net.response
    BY <1>0, <1>4, NetFields, NetOfType
  <1> HIDE DEF n
  <1>6. dir.state \in Writing
    BY Zenon, <1>1 DEF Writing
  <1> QED BY Zenon, <1>1, <1>2, <1>5, <1>6, Acknowledged

-----------------------------------------------------------------------------
(* The DMA controllers, and the end of a simulation.                       *)

\* The DMA controllers themselves move no line.
LEMMA DMASteps ==
    ASSUME IInv, NEW d \in DMAs, makeDMARequest(d) \/ DMAStep(d) PROVE IInv'
  <1>0. /\ net \in NetType /\ dma \in [DMAs -> DMAType]
    BY Zenon, Parts DEF IInv, TInv, Types
  <1>1. UNCHANGED <<cache, cpu, dir, memory, fatal, latest>>
    BY Zenon DEF makeDMARequest, DMAStep, READY_Request, BUSY_Response
  <1>2. /\ dma' \in [DMAs -> DMAType] /\ net' \in NetType
        /\ net'.request = net.request /\ net'.forward = net.forward
        /\ net'.response = net.response
    <2>1. CASE makeDMARequest(d)
      <3>1. PICK offset \in Bytes, v \in Values, write \in BOOLEAN :
               \E len \in 1 .. BlockSize - offset :
                  dma' = [dma EXCEPT
                    ![d].busy = TRUE,
                    ![d].queue = Append(@,
                       [Type |-> IF write THEN "WRITE" ELSE "READ",
                        Offset |-> offset, Len |-> len,
                        DataBlk |-> [b \in Bytes |->
                           IF write /\ b \in offset .. offset + len - 1
                           THEN v ELSE 0]])]
        BY Zenon, <2>1 DEF makeDMARequest
      <3>2. PICK len \in 1 .. BlockSize - offset :
               dma' = [dma EXCEPT
                 ![d].busy = TRUE,
                 ![d].queue = Append(@,
                    [Type |-> IF write THEN "WRITE" ELSE "READ",
                     Offset |-> offset, Len |-> len,
                     DataBlk |-> [b \in Bytes |->
                        IF write /\ b \in offset .. offset + len - 1
                        THEN v ELSE 0]])]
        BY Zenon, <3>1
      <3> DEFINE blk == [b \in Bytes |-> IF write /\ b \in offset .. offset + len - 1
                                        THEN v ELSE 0]
                 type == IF write THEN "WRITE" ELSE "READ"
                 m == [Type |-> type, Offset |-> offset, Len |-> len, DataBlk |-> blk]
      <3>3. dma' = [dma EXCEPT ![d].busy = TRUE, ![d].queue = Append(@, m)]
        BY Zenon, <3>2
      <3>4. blk \in DataBlock /\ type \in {"READ", "WRITE"}
        BY Zenon, MIAssumption DEF DataBlock
      <3>5. len \in 1 .. BlockSize
        BY MIAssumption DEF Bytes
      <3> HIDE DEF blk, type
      <3>6. m \in DMARequestMsg
        BY Zenon, <3>4, <3>5 DEF DMARequestMsg
      <3> HIDE DEF m
      <3>7. dma[d].queue \in Seq(DMARequestMsg) /\ dma[d] \in DMAType
        BY Zenon, <1>0 DEF DMAType
      <3>8. Append(dma[d].queue, m) \in Seq(DMARequestMsg)
        BY <3>6, <3>7
      <3>9. dma' \in [DMAs -> DMAType]
        BY Zenon, <1>0, <3>3, <3>8 DEF DMAType
      <3> QED BY Zenon, <1>0, <2>1, <3>9 DEF makeDMARequest
    <2>2. CASE READY_Request(d)
      <3> DEFINE m == Head(dma[d].queue)
                 type == IF m.Type = "READ" THEN "BUSY_RD" ELSE "BUSY_WR"
                 dq == Put(net.dmaRequest, d, Append(net.dmaRequest[d], m))
      <3>1. dma[d].queue \in Seq(DMARequestMsg) /\ dma[d].queue # <<>>
        BY Zenon, <1>0, <2>2 DEF DMAType, READY_Request
      <3>2. m \in DMARequestMsg /\ Tail(dma[d].queue) \in Seq(DMARequestMsg)
        BY <3>1
      <3>3. net' = NetOf(net.request, net.forward, net.response, dq, net.dmaResponse)
        BY Zenon, <1>0, <2>2 DEF READY_Request, NetType, NetOf, Put
      <3>4. dma' = [dma EXCEPT ![d].state = type, ![d].queue = Tail(@)]
        BY Zenon, <2>2 DEF READY_Request
      <3> HIDE DEF m
      <3>5. dq \in DMARequests
        BY Zenon, <1>0, <3>2, DMABuffers
      <3>6. type \in DMAStates
        BY Zenon DEF DMAStates
      <3> HIDE DEF dq, type
      <3>7. dma' \in [DMAs -> DMAType]
        BY Zenon, <1>0, <3>2, <3>4, <3>6 DEF DMAType
      <3> QED BY <1>0, <3>3, <3>5, <3>7, NetFields, NetOfType
    <2>3. CASE BUSY_Response(d)
      <3> DEFINE dr == Put(net.dmaResponse, d, Tail(net.dmaResponse[d]))
      <3>1. net.dmaResponse[d] # <<>>
        BY Zenon, <2>3 DEF BUSY_Response
      <3>2. net' = NetOf(net.request, net.forward, net.response, net.dmaRequest, dr)
        BY Zenon, <1>0, <2>3 DEF BUSY_Response, NetType, NetOf, Put
      <3>3. dr \in DMAResponses
        BY Zenon, <1>0, <3>1, DMABuffers
      <3> HIDE DEF dr
      <3>4. dma' \in [DMAs -> DMAType]
        BY Zenon, <1>0, <2>3 DEF BUSY_Response, DMAType, DMAStates
      <3> QED BY <1>0, <3>2, <3>3, <3>4, NetFields, NetOfType
    <2> QED BY Zenon, <2>1, <2>2, <2>3 DEF DMAStep
  <1>3. TInv'
    <2>1. Types'
      BY Zenon, <1>1, <1>2 DEF IInv, TInv, Types
    <2>2. Allocated' /\ OneInMemory'
      BY Zenon, <1>1, SameMemory DEF IInv, TInv, Allocated
    <2> QED BY Zenon, <2>1, <2>2 DEF TInv
  <1>4. \A x \in Caches : state(x)' = state(x) /\ SameForward(x)
    BY Zenon, <1>1, <1>2, Parts, UnchangedForward DEF state
  <1>5. Id' = Id
    BY Zenon, <1>1 DEF Id, InMemory
  <1>6. Latest => MemoryLatest'
    BY Zenon, <1>1, SameMemoryLatest DEF Latest
  <1> QED BY Zenon, <1>1, <1>2, <1>3, <1>4, <1>5, <1>6, Quiet

\* A step of which only the failed transition is left.
LEMMA NothingElse ==
    ASSUME IInv, UNCHANGED <<cache, cpu, dir, dma, net, memory, latest>>, fatal' \in BOOLEAN
    PROVE  IInv'
  <1>1. TInv'
    <2>1. Types'
      BY Zenon DEF IInv, TInv, Types
    <2>2. Allocated' /\ OneInMemory'
      BY Zenon, SameMemory DEF IInv, TInv, Allocated
    <2> QED BY Zenon, <2>1, <2>2 DEF TInv
  <1>2. \A x \in Caches : state(x)' = state(x) /\ SameForward(x)
    BY Zenon, Parts, UnchangedForward DEF state
  <1>3. Id' = Id
    BY Zenon DEF Id, InMemory
  <1>4. Latest => MemoryLatest'
    BY Zenon, SameMemoryLatest DEF Latest
  <1> QED BY Zenon, <1>1, <1>2, <1>3, <1>4, Quiet

-----------------------------------------------------------------------------
(* The theorems.                                                           *)

\* Every step of the protocol preserves the invariant.
LEMMA NextIInv == IInv /\ [Next]_vars => IInv'
  <1> SUFFICES ASSUME IInv, [Next]_vars PROVE IInv'
    BY Zenon
  <1>1. ASSUME NEW c \in Caches, NEW type \in {"LD", "ST"}, makeRequest(c, type)
        PROVE  IInv'
    BY Zenon, <1>1, Request
  <1>2. ASSUME NEW c \in Caches, CacheStep(c) PROVE IInv'
    <2>1. M_Inv(c) => WriteBack(c)
      BY Zenon DEF M_Inv
    <2> QED BY Zenon, <1>2, <2>1, Hit, Miss, Filled, PassesOn, GivesUp, DropsInvalidation, Answers
            DEF CacheStep
  <1>3. ASSUME NEW c \in Caches, I_Replacement(c) \/ M_Replacement(c) PROVE IInv'
    BY Zenon, <1>3, Replacement, GivesUp DEF M_Replacement
  <1>4. ASSUME NEW c \in Caches, DirRequest(c) PROVE IInv'
    BY Zenon, <1>4, FromIdle, FromOwner, Replaced, Refused, DMARead, DMAWrite DEF DirRequest
  <1>5. ASSUME NEW d \in DMAs, makeDMARequest(d) \/ DMAStep(d) PROVE IInv'
    BY Zenon, <1>5, DMASteps
  <1>6. ASSUME NEW d \in DMAs, DirDMA(d) PROVE IInv'
    BY Zenon, <1>6, DMAReadIdle, DMAWriteIdle, DMALent DEF DirDMA
  <1>7. ASSUME DirMemory PROVE IInv'
    BY Zenon, <1>7, FromMemoryToCache, AckToCache, DMAAnswered, DMAWritten DEF DirMemory
  <1>8. ASSUME memoryAccess PROVE IInv'
    BY Zenon, <1>8, Access
  <1>9. ASSUME InvalidTransition PROVE IInv'
    <2>1. UNCHANGED <<cache, cpu, dir, dma, net, memory, latest>> /\ fatal' \in BOOLEAN
      BY Zenon, <1>9 DEF InvalidTransition
    <2> QED BY Zenon, <2>1, NothingElse
  <1>10. ASSUME UNCHANGED vars PROVE IInv'
    <2>1. UNCHANGED <<cache, cpu, dir, dma, net, memory, latest>> /\ fatal' \in BOOLEAN
      BY Zenon, <1>10 DEF vars, IInv, TInv, Types
    <2> QED BY Zenon, <2>1, NothingElse
  <1> QED BY Zenon, <1>1, <1>2, <1>3, <1>4, <1>5, <1>6, <1>7, <1>8, <1>9, <1>10 DEF Next

\* The inductive invariant: every buffer holds what the states of its two ends
\* say, so the line, or the request or the writeback that will move it, is in
\* one place (the transitions of the three MI_example controllers).
THEOREM MIInvariance == Spec => []IInv
  BY InitIInv, NextIInv, PTL DEF Spec

\* A range is that of the sequence.
LEMMA RangeOf ==
    ASSUME NEW S, NEW q \in Seq(S) PROVE Range(q) = {q[i] : i \in 1 .. Len(q)}
  <1>1. DOMAIN q = 1 .. Len(q)
    OBVIOUS
  <1> QED BY Zenon, <1>1 DEF Range

\* With any number of caches and devices, when one cache can write the line no
\* other has it, none is on its way to one and the memory is idle.
THEOREM AlwaysSingleWriter == Spec => []SingleWriter
  <1>1. IInv => SingleWriter
    <2> SUFFICES ASSUME IInv, NEW c \in Caches, state(c) = "M"
                 PROVE  /\ \A x \in Caches \ {c} : cache[x].state # "M"
                        /\ \A x \in Caches : net.response[x] = <<>>
                        /\ memory.toMemory = <<>> /\ memory.fromMemory = <<>>
      BY Zenon DEF SingleWriter, state
    <2>1. Holds(c) /\ ~Answered(c)
      BY Zenon, Parts DEF Holds, Missing, Misses
    <2>2. dir.state \in Lent /\ \A x \in Caches : Holds(x) => x = c
      BY Zenon, <2>1, Parts DEF Holding
    <2>3. \A x \in Caches \ {c} : state(x) # "M" /\ ~Answered(x)
      BY Zenon, <2>2 DEF Holds
    <2>4. memory.toMemory = <<>> /\ memory.fromMemory = <<>>
      BY Zenon, <2>2 DEF IInv, TInv, OneInMemory
    <2> QED BY Zenon, <2>1, <2>3, <2>4 DEF state, Answered
  <1> QED BY <1>1, MIInvariance, PTL

-----------------------------------------------------------------------------
(* The data.  A DMA write of a part of a line leaves the rest of the line to   *)
(* chance (queueMemoryWritePartial), so devices write whole lines here.       *)

\* The elements of a buffer are messages.
LEMMA RangeIn ==
    ASSUME NEW S, NEW q \in Seq(S) PROVE \A e \in Range(q) : e \in S
  <1>1. \A i \in 1 .. Len(q) : q[i] \in S
    OBVIOUS
  <1> QED BY <1>1, RangeOf

\* The types of the proof are the types of the model.
LEMMA TypesOK == Types => TypeOK
  <1> SUFFICES ASSUME Types PROVE TypeOK
    BY Zenon
  <1>1. /\ cache \in [Caches -> CacheType] /\ cpu \in [Caches -> CPUType]
        /\ dir \in DirType /\ dma \in [DMAs -> DMAType] /\ net \in NetType
        /\ memory \in MemoryType /\ fatal \in BOOLEAN /\ latest \in DataBlock
    BY Zenon DEF Types
  <1>2. /\ dir.state \in DirStates /\ dir.owner \subseteq Caches
        /\ dir.tbe \in DirTBE \cup {None}
    BY Zenon, <1>1 DEF DirType
  <1>3. ASSUME NEW d \in DMAs
        PROVE  /\ dma[d].state \in DMAStates /\ dma[d].busy \in BOOLEAN
               /\ \A m \in Range(dma[d].queue) : m \in DMARequestMsg
               /\ Range(net.dmaRequest[d]) \subseteq DMARequestMsg
               /\ Range(net.dmaResponse[d]) \subseteq DMAResponseMsg
    <2>1. dma[d] \in DMAType
      BY Zenon, <1>1
    <2>2. /\ dma[d].state \in DMAStates /\ dma[d].busy \in BOOLEAN
          /\ dma[d].queue \in Seq(DMARequestMsg)
      BY Zenon, <2>1 DEF DMAType
    <2>3. /\ net.dmaRequest[d] \in Seq(DMARequestMsg)
          /\ net.dmaResponse[d] \in Seq(DMAResponseMsg)
      BY Zenon, <1>1, NetFields
    <2> QED BY Zenon, <2>2, <2>3, RangeIn
  <1>4. ASSUME NEW c \in Caches
        PROVE  /\ Range(net.request[c]) \subseteq RequestMsg
               /\ Range(net.forward[c]) \subseteq ForwardMsg
               /\ Range(net.response[c]) \subseteq DataBlock
    <2>1. /\ net.request[c] \in Seq(RequestMsg) /\ net.forward[c] \in Seq(ForwardMsg)
          /\ net.response[c] \in Seq(DataBlock)
      BY Zenon, <1>1, NetFields
    <2> QED BY Zenon, <2>1, RangeIn
  <1>5. /\ memory.line \in DataBlock
        /\ Range(memory.toMemory) \subseteq MemoryMsg
        /\ Range(memory.fromMemory) \subseteq MemoryMsg
    <2>1. /\ memory.line \in DataBlock /\ memory.toMemory \in Seq(MemoryMsg)
          /\ memory.fromMemory \in Seq(MemoryMsg)
      BY Zenon, <1>1 DEF MemoryType
    <2> QED BY Zenon, <2>1, RangeIn
  <1> QED BY Zenon, <1>1, <1>2, <1>3, <1>4, <1>5 DEF TypeOK, CacheType, CPUType

\* What a load returns, data under way to a cache, the TBE of an owner that writes
\* back and the memory in I are what the last write left.
LEMMA LatestCopies == ASSUME IInv, Latest PROVE LatestData
  <1>1. ASSUME NEW c \in Caches PROVE \A blk \in Range(net.response[c]) : blk = latest
    <2> DEFINE q == net.response[c]
    <2>1. q \in Seq(DataBlock) /\ Len(q) <= 1
      BY Zenon, Parts, NetFields DEF Buffers
    <2>2. q # <<>> => Head(q) = latest
      BY Zenon DEF Latest, Copy, Answered
    <2> HIDE DEF q
    <2>3. \A i \in 1 .. Len(q) : q[i] = latest
      BY <2>1, <2>2
    <2> QED BY Zenon, <2>1, <2>3, RangeOf DEF q
  <1>2. ASSUME NEW c \in dir.owner, cache[c].state \in {"MI", "MII"}
        PROVE  cache[c].tbe = latest
    <2>1. c \in Caches
      BY Zenon DEF IInv, TInv, Types, DirType
    <2>2. dir.state \notin Writing
      BY Zenon DEF IInv, OneOwner, Lent, Writing
    <2>3. ~Taken(c)
      BY Zenon, <2>1, <2>2, Parts DEF Passing, Taken, BeingWritten
    <2> QED BY Zenon, <1>2, <2>1, <2>3 DEF Latest, Copy, state
  <1> QED BY Zenon, <1>1, <1>2 DEF LatestData, Latest, Copy, MemoryLatest, state

\* The step condition of DMAReadsLatest.
ReadsLatest ==
    \A d \in DMAs :
       Len(net'.dmaResponse[d]) > Len(net.dmaResponse[d]) =>
          LET q == net'.dmaResponse[d]
              m == q[Len(q)]
          IN  m.Type = "DATA" => m.DataBlk = latest

\* A step that answers no DMA controller reads nothing.
LEMMA NoAnswer == ASSUME IInv, net'.dmaResponse = net.dmaResponse PROVE ReadsLatest
  <1>1. \A d \in DMAs : net.dmaResponse[d] \in Seq(DMAResponseMsg)
    BY Zenon, Parts, NetFields
  <1>2. \A d \in DMAs : Len(net.dmaResponse[d]) \in Nat
    BY <1>1
  <1>3. \A d \in DMAs : ~(Len(net.dmaResponse[d]) > Len(net.dmaResponse[d]))
    BY <1>2
  <1> QED BY Zenon, <1>3 DEF ReadsLatest

\* A device gets the answer m.
LEMMA AnAnswer ==
    ASSUME IInv, NEW d \in DMAs, NEW m \in DMAResponseMsg,
           m.Type = "DATA" => m.DataBlk = latest,
           net'.dmaResponse = Put(net.dmaResponse, d, Append(net.dmaResponse[d], m))
    PROVE  ReadsLatest
  <1> DEFINE q(x) == net.dmaResponse[x]
  <1>1. \A x \in DMAs : q(x) \in Seq(DMAResponseMsg)
    BY Zenon, Parts, NetFields
  <1>2. /\ net'.dmaResponse[d] = Append(q(d), m)
        /\ \A x \in DMAs : x # d => net'.dmaResponse[x] = q(x)
    <2>1. net.dmaResponse \in [DMAs -> Seq(DMAResponseMsg)]
      BY Zenon, Parts, NetFields DEF DMAResponses
    <2> QED BY Zenon, <2>1 DEF Put
  <1> HIDE DEF q
  <1>3. Append(q(d), m)[Len(Append(q(d), m))] = m
    BY <1>1
  <1>4. \A x \in DMAs : Len(q(x)) \in Nat
    BY <1>1
  <1>5. \A x \in DMAs : ~(Len(q(x)) > Len(q(x)))
    BY <1>4
  <1> QED BY Zenon, <1>2, <1>3, <1>5 DEF ReadsLatest, q

\* What is taken from a buffer is not an answer.
LEMMA AnswerTaken ==
    ASSUME IInv, NEW d \in DMAs, BUSY_Response(d) PROVE ReadsLatest
  <1> DEFINE q(x) == net.dmaResponse[x]
  <1>1. \A x \in DMAs : q(x) \in Seq(DMAResponseMsg)
    BY Zenon, Parts, NetFields
  <1>2. /\ net'.dmaResponse[d] = Tail(q(d)) /\ q(d) # <<>>
        /\ \A x \in DMAs : x # d => net'.dmaResponse[x] = q(x)
    <2>1. net \in NetType
      BY Zenon, Parts
    <2> QED BY Zenon, <2>1 DEF BUSY_Response, NetType, DMAResponses
  <1> HIDE DEF q
  <1>3. \A x \in DMAs : ~(Len(q(x)) > Len(q(x)))
    <2>1. \A x \in DMAs : Len(q(x)) \in Nat
      BY <1>1
    <2> QED BY <2>1
  <1>4. ~(Len(Tail(q(d))) > Len(q(d)))
    <2>1. Len(Tail(q(d))) = Len(q(d)) - 1 /\ Len(q(d)) \in Nat
      BY <1>1, <1>2
    <2> QED BY <2>1
  <1> QED BY Zenon, <1>2, <1>3, <1>4 DEF ReadsLatest, q

\* Every step that answers a DMA read sends the latest data.
LEMMA AnswersLatest ==
    ASSUME WholeLines, IInv, [Next]_vars PROVE ReadsLatest
  <1>0. net \in NetType
    BY Zenon, Parts
  <1>d. Latest
    BY Zenon DEF IInv, DInv
  <1>1. ASSUME NEW c \in Caches, NEW type \in {"LD", "ST"}, makeRequest(c, type)
        PROVE  ReadsLatest
    BY Zenon, <1>1, NoAnswer DEF makeRequest
  <1>2. ASSUME NEW c \in Caches, CacheStep(c) \/ I_Replacement(c) \/ M_Replacement(c)
        PROVE  ReadsLatest
    <2>1. ASSUME M_Load_Store(c) \/ I_Load_Store(c) \/ Data(c) PROVE ReadsLatest
      BY Zenon, <1>0, <2>1, NoAnswer DEF M_Load_Store, I_Load_Store, Data, NetType
    <2>2. ASSUME M_Fwd_GETX(c) \/ ee_sendDataFromTBE(c) PROVE ReadsLatest
      BY Zenon, <1>0, <2>2, NoAnswer DEF M_Fwd_GETX, ee_sendDataFromTBE, SendData, NetType
    <2>3. ASSUME WriteBack(c) \/ MI_Inv(c) \/ I_Inv(c) \/ I_Replacement(c) PROVE ReadsLatest
      BY Zenon, <1>0, <2>3, NoAnswer DEF WriteBack, MI_Inv, I_Inv, I_Replacement, Pop, NetType
    <2>4. ASSUME MI_Writeback_Ack(c) \/ Writeback_Nack(c) PROVE ReadsLatest
      BY Zenon, <1>0, <2>4, NoAnswer DEF MI_Writeback_Ack, Writeback_Nack, Pop, NetType
    <2> QED BY Zenon, <1>2, <2>1, <2>2, <2>3, <2>4 DEF CacheStep, M_Replacement, M_Inv
  <1>3. ASSUME NEW c \in Caches, DirRequest(c) PROVE ReadsLatest
    <2>1. ASSUME I_GETX(c) \/ M_PUTX(c) \/ M_DWR_PUTX(c) PROVE ReadsLatest
      BY Zenon, <1>0, <2>1, NoAnswer DEF I_GETX, M_PUTX, M_DWR_PUTX, NetType
    <2>2. ASSUME M_GETX(c) \/ PUTX_NotOwner(c) PROVE ReadsLatest
      BY Zenon, <1>0, <2>2, NoAnswer DEF M_GETX, PUTX_NotOwner, NetType
    <2>3. ASSUME M_DRD_PUTX(c) PROVE ReadsLatest
      <3> DEFINE data == Head(net.request[c]).DataBlk
                 d == dir.tbe.DmaRequestor
                 m == [Type |-> "DATA", DataBlk |-> data]
      <3>1. Requested(c, "PUTX") /\ dir.state = "M_DRD"
        BY Zenon, <2>3 DEF M_DRD_PUTX
      <3>2. net'.dmaResponse = Put(net.dmaResponse, d, Append(net.dmaResponse[d], m))
        BY Zenon, <1>0, <2>3 DEF M_DRD_PUTX, NetType, Put
      <3>3. d \in DMAs
        BY Zenon, <3>1 DEF IInv, TInv, Allocated
      <3>4. data = latest
        BY Zenon, <1>d, <3>1, WritesLatest
      <3>5. m \in DMAResponseMsg /\ m.DataBlk = latest
        BY Zenon, <3>4 DEF DMAResponseMsg, IInv, TInv, Types
      <3> HIDE DEF d, m
      <3> QED BY Zenon, <3>2, <3>3, <3>5, AnAnswer
    <2> QED BY Zenon, <1>3, <2>1, <2>2, <2>3 DEF DirRequest
  <1>4. ASSUME NEW d \in DMAs, makeDMARequest(d) \/ DMAStep(d) PROVE ReadsLatest
    <2>1. ASSUME makeDMARequest(d) \/ READY_Request(d) PROVE ReadsLatest
      BY Zenon, <1>0, <2>1, NoAnswer DEF makeDMARequest, READY_Request, NetType
    <2> QED BY Zenon, <1>4, <2>1, AnswerTaken DEF DMAStep
  <1>5. ASSUME NEW d \in DMAs, DirDMA(d) PROVE ReadsLatest
    BY Zenon, <1>0, <1>5, NoAnswer DEF DirDMA, I_DMA_READ, I_DMA_WRITE, M_DMA, NetType
  <1>6. ASSUME DirMemory PROVE ReadsLatest
    <2>1. ASSUME IM_Memory_Data \/ MI_Memory_Ack PROVE ReadsLatest
      BY Zenon, <1>0, <2>1, NoAnswer DEF IM_Memory_Data, MI_Memory_Ack, sendWriteBackAck, NetType
    <2>2. ASSUME ID_Memory_Data PROVE ReadsLatest
      <3> DEFINE d == dir.tbe.DmaRequestor
                 m == [Type |-> "DATA", DataBlk |-> Answer.DataBlk]
      <3>1. /\ FromMemory("MEMORY_READ") /\ dir.state = "ID" /\ popMemQueue
        BY Zenon, <2>2 DEF ID_Memory_Data
      <3>2. net'.dmaResponse = Put(net.dmaResponse, d, Append(net.dmaResponse[d], m))
        BY Zenon, <1>0, <2>2 DEF ID_Memory_Data, NetType, Put
      <3>3. d \in DMAs
        BY Zenon, <3>1 DEF IInv, TInv, Allocated
      <3>4. Answer = InMemory /\ memory.fromMemory # <<>>
        BY Zenon, <3>1, PopMemory DEF IInv
      <3>5. Answer.DataBlk = latest
        BY Zenon, <1>d, <3>1, <3>4 DEF Latest, MemoryLatest
      <3>6. m \in DMAResponseMsg /\ m.DataBlk = latest
        BY Zenon, <3>5 DEF DMAResponseMsg, IInv, TInv, Types
      <3> HIDE DEF d, m
      <3> QED BY Zenon, <3>2, <3>3, <3>6, AnAnswer
    <2>3. ASSUME ID_W_Memory_Ack \/ M_DWRI_Memory_Ack PROVE ReadsLatest
      <3> DEFINE d == dir.tbe.DmaRequestor
      <3>1. net'.dmaResponse = Put(net.dmaResponse, d, Append(net.dmaResponse[d], DMAAck))
        BY Zenon, <1>0, <2>3 DEF ID_W_Memory_Ack, M_DWRI_Memory_Ack, sendWriteBackAck, NetType, Put
      <3>2. d \in DMAs
        BY Zenon, <2>3 DEF IInv, TInv, Allocated, ID_W_Memory_Ack, M_DWRI_Memory_Ack
      <3>3. DMAAck \in DMAResponseMsg /\ DMAAck.Type # "DATA"
        BY Zenon, ClearType DEF DMAAck, DMAResponseMsg
      <3> HIDE DEF d
      <3> QED BY Zenon, <3>1, <3>2, <3>3, AnAnswer
    <2> QED BY Zenon, <1>6, <2>1, <2>2, <2>3 DEF DirMemory
  <1>7. ASSUME memoryAccess \/ InvalidTransition \/ UNCHANGED vars PROVE ReadsLatest
    BY Zenon, <1>7, NoAnswer DEF memoryAccess, InvalidTransition, vars
  <1> QED BY Zenon, <1>1, <1>2, <1>3, <1>4, <1>5, <1>6, <1>7 DEF Next

\* A device that reads is sent what the last write left, out of memory or out of the
\* writeback of the cache that had the line (ID_Memory_Data, M_DRD_PUTX).
THEOREM AlwaysDMAReadsLatest == ASSUME WholeLines PROVE Spec => DMAReadsLatest
  <1>1. IInv /\ [Next]_vars => [ReadsLatest]_vars
    BY Zenon, AnswersLatest
  <1> QED BY <1>1, MIInvariance, PTL DEF Spec, DMAReadsLatest, ReadsLatest

-----------------------------------------------------------------------------
(* Events without a transition.                                            *)

\* Without DMA, every event has a transition in the state that meets it.
LEMMA HasTransition == ASSUME IInv, DMAs = {} PROVE ~InvalidTransition
  <1>1. ASSUME NEW c \in Caches, NEW e \in CacheEvents(c)
        PROVE  <<cache[c].state, e>> \in CacheTable
    <2>0. cache[c].state \in CacheStates
      BY Zenon DEF IInv, TInv, Types, CacheType
    <2>1. CASE e \in HeadType(net.forward[c])
      <3> DEFINE q == net.forward[c]
      <3>1. q # <<>> /\ e = Head(q).Type /\ q \in Seq(ForwardMsg)
        BY Zenon, <2>1, Parts, NetFields DEF HeadType
      <3>2. Has(q, e) /\ e \in {"GETX", "WB_ACK", "WB_NACK", "INV"}
        <4> HIDE DEF q
        <4>1. 1 \in 1 .. Len(q) /\ q[1] = Head(q) /\ Head(q) \in ForwardMsg
          BY <3>1
        <4>2. Has(q, e)
          BY Zenon, <3>1, <4>1 DEF Has
        <4> QED BY Zenon, <3>1, <4>1, <4>2 DEF ForwardMsg
      <3>3. Sent(c, e)
        BY Zenon, <3>2 DEF Sent
      <3>4. e # "INV"
        BY Zenon, <3>3 DEF IInv, NoInv
      <3>5. /\ e = "GETX" => state(c) \in {"IS", "IM", "M", "MI", "MII"}
            /\ e = "WB_ACK" => state(c) = "MI"
            /\ e = "WB_NACK" => state(c) \in {"MI", "II"}
        BY Zenon, <3>3, Parts DEF Passing, WritingBack, Misses
      <3> QED BY Zenon, <3>2, <3>4, <3>5 DEF CacheTable, state
    <2>2. CASE e = "DATA" /\ net.response[c] # <<>>
      <3>1. state(c) \in {"IS", "IM"}
        BY Zenon, <2>2, Parts DEF Missing, Answered, Misses
      <3> QED BY Zenon, <2>2, <3>1 DEF CacheTable, state
    <2>3. CASE e \in {"Load_Store", "Replacement"}
      BY Zenon, <2>0, <2>3 DEF CacheTable, CacheStates
    <2> QED BY Zenon, <2>1, <2>2, <2>3 DEF CacheEvents
  <1>2. dir.state \in {"I", "M", "IM", "MI"}
    BY Zenon DEF IInv, TInv, Types, Allocated, DirType, DirStates
  <1>3. ASSUME NEW e \in DirEvents PROVE <<dir.state, e>> \in DirTable
    <2>1. CASE e \in {DirEvent(c) : c \in {x \in Caches : net.request[x] # <<>>}}
      <3>1. PICK c \in Caches : net.request[c] # <<>> /\ e = DirEvent(c)
        BY Zenon, <2>1
      <3>2. Head(net.request[c]).Type \in {"GETX", "PUTX"}
        <4>1. net.request[c] \in Seq(RequestMsg)
          BY Zenon, Parts, NetFields
        <4>2. Head(net.request[c]) \in RequestMsg
          BY <3>1, <4>1
        <4> QED BY Zenon, <4>2 DEF RequestMsg
      <3>3. \/ e = "GETX" \/ e = "PUTX_NotOwner"
            \/ e = "PUTX" /\ c \in dir.owner
        BY Zenon, <3>1, <3>2 DEF DirEvent
      <3>4. e = "PUTX" => dir.state \in {"M", "IM"}
        BY Zenon, <1>2, <3>3 DEF IInv, OneOwner, Lent
      <3> QED BY Zenon, <1>2, <3>3, <3>4 DEF DirTable, DirStates
    <2>2. CASE e \in HeadType(memory.fromMemory)
      <3>1. memory.fromMemory # <<>> /\ e = Head(memory.fromMemory).Type
        BY Zenon, <2>2 DEF HeadType
      <3>2. /\ dir.state \notin Lent \cup {"I"} /\ memory.toMemory = <<>>
            /\ InMemory.Type = IF dir.state \in {"IM", "ID"} THEN "MEMORY_READ"
                               ELSE "MEMORY_WB"
        <4>1. OneInMemory /\ dir.state \notin Lent \cup {"I"}
          BY Zenon, <3>1 DEF IInv, TInv, OneInMemory
        <4> QED BY Zenon, <3>1, <4>1 DEF OneInMemory
      <3>3. InMemory.Type = e
        BY Zenon, <3>1, <3>2 DEF InMemory
      <3> QED BY Zenon, <1>2, <3>2, <3>3 DEF DirTable, Lent
    <2>3. e \notin UNION {HeadType(net.dmaRequest[d]) : d \in DMAs}
      BY Zenon
    <2> QED BY Zenon, <2>1, <2>2, <2>3 DEF DirEvents
  <1> QED BY Zenon, <1>1, <1>3 DEF InvalidTransition

\* Only such an event sets fatal.
LEMMA OnlyInvalid == [Next]_vars /\ ~InvalidTransition => UNCHANGED fatal
  <1> SUFFICES ASSUME [Next]_vars, ~InvalidTransition PROVE UNCHANGED fatal
    BY Zenon
  <1>1. ASSUME NEW c \in Caches, NEW type \in {"LD", "ST"}, makeRequest(c, type)
        PROVE  UNCHANGED fatal
    BY Zenon, <1>1 DEF makeRequest
  <1>2. ASSUME NEW c \in Caches, CacheStep(c) PROVE UNCHANGED fatal
    BY Zenon, <1>2 DEF CacheStep, M_Load_Store, I_Load_Store, Data, M_Fwd_GETX,
         ee_sendDataFromTBE, M_Inv, MI_Inv, I_Inv, MI_Writeback_Ack, Writeback_Nack, WriteBack
  <1>3. ASSUME NEW c \in Caches, I_Replacement(c) \/ M_Replacement(c)
        PROVE  UNCHANGED fatal
    BY Zenon, <1>3 DEF I_Replacement, M_Replacement, WriteBack
  <1>4. ASSUME NEW c \in Caches, DirRequest(c) PROVE UNCHANGED fatal
    BY Zenon, <1>4 DEF DirRequest, I_GETX, M_GETX, M_PUTX, PUTX_NotOwner, M_DRD_PUTX, M_DWR_PUTX
  <1>5. ASSUME NEW d \in DMAs, makeDMARequest(d) \/ DMAStep(d) \/ DirDMA(d)
        PROVE  UNCHANGED fatal
    BY Zenon, <1>5 DEF makeDMARequest, DMAStep, READY_Request, BUSY_Response, DirDMA, I_DMA_READ,
         I_DMA_WRITE, M_DMA
  <1>6. ASSUME DirMemory \/ memoryAccess PROVE UNCHANGED fatal
    BY Zenon, <1>6 DEF DirMemory, IM_Memory_Data, MI_Memory_Ack, ID_Memory_Data, ID_W_Memory_Ack,
         M_DWRI_Memory_Ack, memoryAccess
  <1>7. ASSUME UNCHANGED vars PROVE UNCHANGED fatal
    BY Zenon, <1>7 DEF vars
  <1> QED BY Zenon, <1>1, <1>2, <1>3, <1>4, <1>5, <1>6, <1>7 DEF Next

\* In a system without DMA no controller ever meets an event that its state has no
\* transition for, with any number of caches: "Invalid transition" is never the end
\* of a simulation.  With DMA it can be (the run mi_invalid_putx).
THEOREM NeverInvalidTransition == ASSUME DMAs = {} PROVE Spec => []NoInvalidTransition
  <1>1. Init => NoInvalidTransition
    BY Zenon DEF Init, NoInvalidTransition
  <1>2. IInv /\ NoInvalidTransition /\ [Next]_vars => NoInvalidTransition'
    BY Zenon, HasTransition, OnlyInvalid DEF NoInvalidTransition
  <1> QED BY <1>1, <1>2, MIInvariance, PTL DEF Spec

-----------------------------------------------------------------------------
(* Coherence.                                                              *)

INSTANCE FiniteSetTheorems

\* The directory's Owner is who has or gets the line, in M, and in I nobody has
\* it; a cache that is not the owner any more has been told to pass it on.
THEOREM AlwaysOwnerAccurate == Spec => []OwnerAccurate
  <1>1. IInv => OwnerAccurate
    <2> SUFFICES ASSUME IInv PROVE OwnerAccurate
      BY Zenon
    <2>1. dir.state = "M" => Cardinality(dir.owner) = 1
      <3>1. ASSUME dir.state = "M" PROVE \E c \in Caches : dir.owner = {c}
        BY Zenon, <3>1 DEF IInv, OneOwner, Lent
      <3> QED BY Zenon, <3>1, FS_Singleton
    <2>2. dir.state = "I" => /\ dir.owner = {}
                             /\ \A c \in Caches : /\ cache[c].state # "M"
                                                  /\ net.response[c] = <<>>
      <3> SUFFICES ASSUME dir.state = "I"
                   PROVE  /\ dir.owner = {}
                          /\ \A c \in Caches : /\ cache[c].state # "M"
                                               /\ net.response[c] = <<>>
        BY Zenon
      <3>1. dir.owner = {} /\ dir.state \notin Lent
        BY Zenon DEF IInv, OneOwner, Lent
      <3>2. \A c \in Caches : ~Holds(c)
        BY Zenon, <3>1, Parts DEF Holding
      <3> QED BY Zenon, <3>1, <3>2 DEF Holds, Answered, state
    <2>3. ASSUME NEW c \in Caches, cache[c].state = "M", c \notin dir.owner
          PROVE  \E m \in Range(net.forward[c]) : m.Type = "GETX"
      <3>1. Sent(c, "GETX")
        BY Zenon, <2>3, Parts DEF Passing, Missing, Misses, state
      <3>2. net.forward[c] \in Seq(ForwardMsg)
        BY Zenon, Parts, NetFields
      <3>3. Range(net.forward[c]) = {net.forward[c][i] : i \in 1 .. Len(net.forward[c])}
        BY Zenon, <3>2, RangeOf
      <3> QED BY Zenon, <3>1, <3>3 DEF Sent, Has
    <2> QED BY Zenon, <2>1, <2>2, <2>3 DEF OwnerAccurate
  <1> QED BY <1>1, MIInvariance, PTL

\* The line stays coherent with any number of caches: one writer, known to the
\* directory, and what anybody will use is what the last write left, whatever is
\* replaced, forwarded, refused or written by devices at the same time.
THEOREM AlwaysCoherent == ASSUME WholeLines PROVE Spec => []Coherent
  <1>1. IInv => TypeOK /\ LatestData
    BY Zenon, TypesOK, LatestCopies DEF IInv, TInv, DInv
  <1> QED BY <1>1, MIInvariance, AlwaysSingleWriter, AlwaysOwnerAccurate, PTL DEF Coherent

-----------------------------------------------------------------------------
(* The length of the forward buffers.                                      *)

One(P) == IF P THEN 1 ELSE 0

\* The directory is waiting for the line of c, or writing it.
Due(c) == \/ dir.state \in {"M_DRD", "M_DWR"} /\ c \in dir.owner
          \/ BeingWritten(c)

\* The buffer has one invalidation that came too late, one more while the line is
\* due, the request, and the answer to the writeback, behind which at most one
\* message is left.
Fits(q, due) ==
    /\ Len(q) <= 1 + One(due) + One(Has(q, "GETX")) + One(Has(q, "WB_NACK"))
                   + 2 * One(Has(q, "WB_ACK"))
    /\ \A i \in 1 .. Len(q) : q[i].Type = "WB_ACK" => Len(q) - 1 <= i

FInv == \A c \in Caches : Fits(net.forward[c], Due(c))

\* A buffer that fits does when the line becomes due.
LEMMA DueFits ==
    ASSUME NEW S, NEW q \in Seq(S), NEW due \in BOOLEAN, NEW more \in BOOLEAN,
           Fits(q, due), due => more
    PROVE  Fits(q, more)
  BY DEF Fits, One

\* dequeue() leaves a buffer that fits.
LEMMA TailFits ==
    ASSUME NEW q \in Seq(ForwardMsg), q # <<>>, NEW due \in BOOLEAN, Fits(q, due),
           Once(q, {"GETX"}), Once(q, {"WB_ACK", "WB_NACK"})
    PROVE  Fits(Tail(q), due)
  <1> DEFINE r == Tail(q)
             m == Head(q)
             n == Len(r)
  <1>1. /\ r \in Seq(ForwardMsg) /\ n \in Nat /\ Len(q) = n + 1 /\ q[1] = m
        /\ \A i \in 1 .. n : r[i] = q[i + 1]
    OBVIOUS
  <1>2. /\ m \in ForwardMsg
        /\ \A type : Has(q, type) <=> Has(r, type) \/ m.Type = type
        /\ m.Type = "GETX" => ~Has(r, "GETX")
        /\ m.Type \in {"WB_ACK", "WB_NACK"} => ~Has(r, "WB_ACK") /\ ~Has(r, "WB_NACK")
    BY Zenon, TailShrinks DEF Extends
  <1> HIDE DEF r, m, n
  <1>3. \A i \in 1 .. n : r[i].Type = "WB_ACK" => n - 1 <= i
    <2> SUFFICES ASSUME NEW i \in 1 .. n, r[i].Type = "WB_ACK" PROVE n - 1 <= i
      BY Zenon
    <2>1. i + 1 \in 1 .. Len(q) /\ q[i + 1].Type = "WB_ACK"
      BY <1>1
    <2>2. Len(q) - 1 <= i + 1
      BY Zenon, <2>1 DEF Fits
    <2> QED BY <1>1, <2>2
  <1>4. n <= 1 + One(due) + One(Has(r, "GETX")) + One(Has(r, "WB_NACK"))
              + 2 * One(Has(r, "WB_ACK"))
    <2>1. n + 1 <= 1 + One(due) + One(Has(q, "GETX")) + One(Has(q, "WB_NACK"))
                     + 2 * One(Has(q, "WB_ACK"))
      BY Zenon, <1>1 DEF Fits
    <2>2. CASE m.Type = "WB_ACK"
      <3>1. n <= 1
        BY <1>1, <2>2 DEF Fits
      <3> QED BY <1>1, <3>1 DEF One
    <2>3. CASE m.Type = "GETX"
      <3>1. /\ Has(q, "GETX") /\ ~Has(r, "GETX")
            /\ Has(q, "WB_NACK") <=> Has(r, "WB_NACK")
            /\ Has(q, "WB_ACK") <=> Has(r, "WB_ACK")
        BY Zenon, <1>2, <2>3
      <3> QED BY <1>1, <2>1, <3>1 DEF One
    <2>4. CASE m.Type = "WB_NACK"
      BY <1>1, <1>2, <2>1, <2>4 DEF One
    <2>5. CASE m.Type = "INV"
      BY <1>1, <1>2, <2>1, <2>5 DEF One
    <2> QED BY Zenon, <1>2, <2>2, <2>3, <2>4, <2>5 DEF ForwardMsg
  <1> QED BY Zenon, <1>3, <1>4 DEF Fits, r, n

\* enqueue() of a message that there is room for, with no acknowledgement there.
LEMMA AppendFits ==
    ASSUME NEW q \in Seq(ForwardMsg), NEW m \in ForwardMsg, m.Type # "WB_ACK",
           NEW due \in BOOLEAN, NEW more \in BOOLEAN, Fits(q, due), due => more,
           ~Has(q, "WB_ACK"), ~Has(q, m.Type) \/ m.Type = "INV",
           m.Type = "INV" => ~due /\ more
    PROVE  Fits(Append(q, m), more)
  <1> DEFINE r == Append(q, m)
             n == Len(q)
  <1>1. n \in Nat /\ Len(r) = n + 1
    OBVIOUS
  <1>2. \A type : Has(r, type) <=> Has(q, type) \/ m.Type = type
    BY Zenon, AppendExtends DEF Extends
  <1>3. n <= 1 + One(due) + One(Has(q, "GETX")) + One(Has(q, "WB_NACK"))
              + 2 * One(Has(q, "WB_ACK"))
    BY Zenon DEF Fits
  <1> HIDE DEF r, n
  <1>4. ~Has(r, "WB_ACK")
    BY Zenon, <1>2
  <1>5. \A i \in 1 .. Len(r) : r[i].Type = "WB_ACK" => Len(r) - 1 <= i
    BY Zenon, <1>4 DEF Has
  <1>6. m.Type \in {"GETX", "WB_NACK", "INV"}
    BY Zenon DEF ForwardMsg
  <1>7. Len(r) <= 1 + One(more) + One(Has(r, "GETX")) + One(Has(r, "WB_NACK"))
                   + 2 * One(Has(r, "WB_ACK"))
    <2>1. CASE m.Type = "GETX"
      BY <1>1, <1>2, <1>3, <2>1 DEF One
    <2>2. CASE m.Type = "WB_NACK"
      BY <1>1, <1>2, <1>3, <2>2 DEF One
    <2>3. CASE m.Type = "INV"
      BY <1>1, <1>2, <1>3, <2>3 DEF One
    <2> QED BY Zenon, <1>6, <2>1, <2>2, <2>3
  <1> QED BY Zenon, <1>5, <1>7 DEF Fits, r

\* The acknowledgement, in front of the last message or behind it.
LEMMA InsertFits ==
    ASSUME NEW q \in Seq(ForwardMsg), NEW m \in ForwardMsg, m.Type = "WB_ACK",
           NEW due \in BOOLEAN, Fits(q, due), ~Has(q, "WB_ACK"),
           NEW k \in {Len(q), Len(q) + 1} \ {0}
    PROVE  Fits(InsertAt(q, k, m), FALSE)
  <1> DEFINE r == InsertAt(q, k, m)
             n == Len(q)
             front == SubSeq(q, 1, k - 1)
             back == SubSeq(q, k, n)
  <1>0. n \in Nat /\ k \in 1 .. n + 1 /\ k >= n
    OBVIOUS
  <1>1. /\ front \in Seq(ForwardMsg) /\ Len(front) = k - 1
        /\ \A i \in 1 .. k - 1 : front[i] = q[i]
    BY <1>0
  <1>2. /\ back \in Seq(ForwardMsg) /\ Len(back) = n - k + 1
    BY <1>0
  <1>3. \A type : Has(r, type) <=> Has(q, type) \/ m.Type = type
    BY Zenon, <1>0, InsertExtends DEF Extends
  <1>e. r = front \o <<m>> \o back
    BY Zenon DEF InsertAt
  <1>l. /\ n <= 1 + One(due) + One(Has(q, "GETX")) + One(Has(q, "WB_NACK"))
                 + 2 * One(Has(q, "WB_ACK"))
        /\ \A i \in 1 .. n : q[i].Type # "WB_ACK"
    BY Zenon DEF Fits, Has
  <1> HIDE DEF r, n, front, back
  <1>4. /\ front \o <<m>> \in Seq(ForwardMsg) /\ Len(front \o <<m>>) = k
        /\ \A i \in 1 .. k - 1 : (front \o <<m>>)[i] = front[i]
    BY <1>0, <1>1
  <1>5. /\ Len(r) = n + 1
        /\ \A i \in 1 .. k : r[i] = (front \o <<m>>)[i]
    BY <1>0, <1>2, <1>4, <1>e
  <1>6. \A i \in 1 .. k - 1 : r[i] = q[i]
    BY <1>0, <1>1, <1>4, <1>5
  <1>7. \A i \in 1 .. Len(r) : r[i].Type = "WB_ACK" => Len(r) - 1 <= i
    <2> SUFFICES ASSUME NEW i \in 1 .. Len(r), r[i].Type = "WB_ACK", i < k PROVE FALSE
      BY <1>0, <1>5
    <2>1. i \in 1 .. k - 1 /\ i \in 1 .. n
      BY <1>0
    <2> QED BY Zenon, <1>6, <1>l, <2>1
  <1>8. Len(r) <= 1 + One(FALSE) + One(Has(r, "GETX")) + One(Has(r, "WB_NACK"))
                   + 2 * One(Has(r, "WB_ACK"))
    <2>1. /\ Has(q, "GETX") <=> Has(r, "GETX")
          /\ Has(q, "WB_NACK") <=> Has(r, "WB_NACK")
          /\ Has(r, "WB_ACK")
      BY Zenon, <1>3
    <2> QED BY <1>0, <1>5, <1>l, <2>1 DEF One
  <1> QED BY Zenon, <1>7, <1>8 DEF Fits, r

\* Every buffer fits when the controllers start.
LEMMA InitFInv == Init => FInv
  <1> SUFFICES ASSUME Init PROVE FInv
    BY Zenon
  <1> SUFFICES ASSUME NEW c \in Caches PROVE Fits(net.forward[c], Due(c))
    BY Zenon DEF FInv
  <1>1. net.forward[c] = <<>>
    BY Zenon DEF Init
  <1> QED BY <1>1 DEF Fits, One

\* The line is due or not.
LEMMA DueType == \A c : Due(c) \in BOOLEAN /\ Due(c)' \in BOOLEAN
  BY Zenon DEF Due, BeingWritten

\* A step that leaves the buffers alone, and has no line due less.
LEMMA SameFits ==
    ASSUME IInv, FInv, net'.forward = net.forward,
           \A x \in Caches : Due(x) => Due(x)'
    PROVE  FInv'
  BY Zenon, Parts, NetFields, DueType, DueFits DEF FInv

\* A step of a controller that leaves the directory and the memory alone as well.
LEMMA IdleFits ==
    ASSUME IInv, FInv, net'.forward = net.forward, UNCHANGED <<dir, memory>>
    PROVE  FInv'
  <1>1. \A x \in Caches : Due(x) => Due(x)'
    BY Zenon DEF Due, BeingWritten, Id, InMemory
  <1> QED BY Zenon, <1>1, SameFits

\* A cache controller takes a forwarded message.
LEMMA PoppedFits ==
    ASSUME IInv, FInv, NEW c \in Caches, net.forward[c] # <<>>,
           net'.forward = Put(net.forward, c, Tail(net.forward[c])),
           UNCHANGED <<dir, memory>>
    PROVE  FInv'
  <1>1. \A x \in Caches : Due(x)' <=> Due(x)
    BY Zenon DEF Due, BeingWritten, Id, InMemory
  <1>2. /\ net'.forward[c] = Tail(net.forward[c])
        /\ \A x \in Caches : x # c => net'.forward[x] = net.forward[x]
    BY Zenon, Parts, NetFields DEF Put, Forwards
  <1> SUFFICES ASSUME NEW x \in Caches PROVE Fits(net'.forward[x], Due(x)')
    BY Zenon DEF FInv
  <1>3. net.forward[x] \in Seq(ForwardMsg) /\ Fits(net.forward[x], Due(x))
    BY Zenon, Parts, NetFields DEF FInv
  <1>4. Once(net.forward[x], {"GETX"}) /\ Once(net.forward[x], {"WB_ACK", "WB_NACK"})
    BY Zenon, Parts DEF Buffers
  <1>5. Fits(net'.forward[x], Due(x))
    BY Zenon, <1>2, <1>3, <1>4, DueType, TailFits
  <1>6. net'.forward[x] \in Seq(ForwardMsg)
    BY Zenon, <1>2, <1>3, TailShrinks
  <1> QED BY Zenon, <1>1, <1>5, <1>6, DueType, DueFits

\* The directory sends the owner a message that there is room for.
LEMMA OwnerFits ==
    ASSUME IInv, FInv, dir.state = "M", NEW m \in ForwardMsg,
           net'.forward = [x \in Caches |-> IF x \in dir.owner
                                            THEN Append(net.forward[x], m)
                                            ELSE net.forward[x]],
           m.Type \in {"GETX", "INV"},
           m.Type = "INV" => dir'.state \in {"M_DRD", "M_DWR"} /\ dir'.owner = dir.owner
    PROVE  FInv'
  <1> SUFFICES ASSUME NEW x \in Caches PROVE Fits(net'.forward[x], Due(x)')
    BY Zenon DEF FInv
  <1>1. net.forward[x] \in Seq(ForwardMsg) /\ Fits(net.forward[x], Due(x)) /\ ~Due(x)
    BY Zenon, Parts, NetFields DEF FInv, Due, BeingWritten, Writing
  <1>2. CASE x \notin dir.owner
    <2>1. net'.forward[x] = net.forward[x]
      BY Zenon, <1>2
    <2> QED BY Zenon, <1>1, <2>1, DueType, DueFits
  <1>3. CASE x \in dir.owner
    <2>1. net'.forward[x] = Append(net.forward[x], m)
      BY Zenon, <1>3
    <2>2. ~Has(net.forward[x], "WB_ACK") /\ ~Has(net.forward[x], "GETX")
      BY Zenon, <1>3, Parts DEF Passing, Sent
    <2>3. m.Type = "INV" => Due(x)'
      BY Zenon, <1>3 DEF Due
    <2>4. m.Type # "WB_ACK" /\ (~Has(net.forward[x], m.Type) \/ m.Type = "INV")
      BY Zenon, <2>2
    <2> QED BY Zenon, <1>1, <2>1, <2>2, <2>3, <2>4, DueType, AppendFits
  <1> QED BY Zenon, <1>2, <1>3

\* It refuses a writeback.
LEMMA RefusedFits ==
    ASSUME IInv, FInv, NEW c \in Caches, PUTX_NotOwner(c) PROVE FInv'
  <1> DEFINE m == [Type |-> "WB_NACK", Requestor |-> c]
  <1>0. net \in NetType
    BY Zenon, Parts
  <1>1. /\ UNCHANGED <<dir, memory>> /\ Requested(c, "PUTX_NotOwner")
        /\ net'.forward = Put(net.forward, c, Append(net.forward[c], m))
    BY Zenon, <1>0 DEF PUTX_NotOwner, NetType, Put
  <1>m. m \in ForwardMsg /\ m.Type = "WB_NACK"
    BY Zenon DEF ForwardMsg
  <1> HIDE DEF m
  <1>2. Putting(c)
    BY Zenon, <1>1, Arrives
  <1>3. ~Has(net.forward[c], "WB_ACK") /\ ~Has(net.forward[c], "WB_NACK")
    BY Zenon, <1>2, Parts DEF WritingBack, Taken, Sent
  <1>4. /\ net'.forward[c] = Append(net.forward[c], m)
        /\ \A x \in Caches : x # c => net'.forward[x] = net.forward[x]
    BY Zenon, <1>0, <1>1, NetFields DEF Put, Forwards
  <1>5. \A x \in Caches : Due(x) => Due(x)'
    BY Zenon, <1>1 DEF Due, BeingWritten, Id, InMemory
  <1> SUFFICES ASSUME NEW x \in Caches PROVE Fits(net'.forward[x], Due(x)')
    BY Zenon DEF FInv
  <1>6. net.forward[x] \in Seq(ForwardMsg) /\ Fits(net.forward[x], Due(x))
    BY Zenon, <1>0, NetFields DEF FInv
  <1>7. CASE x # c
    BY Zenon, <1>4, <1>5, <1>6, <1>7, DueType, DueFits
  <1>8. CASE x = c
    <2>1. m.Type # "WB_ACK" /\ m.Type # "INV" /\ ~Has(net.forward[x], m.Type)
      BY Zenon, <1>3, <1>8, <1>m
    <2> QED BY Zenon, <1>3, <1>4, <1>5, <1>6, <1>8, <1>m, <2>1, DueType, AppendFits
  <1> QED BY Zenon, <1>7, <1>8

\* It acknowledges one: the line is not due any more.
LEMMA AcknowledgedFits ==
    ASSUME IInv, FInv, NEW n \in NetType, n.forward = net.forward,
           dir.state \in Writing, FromMemory("MEMORY_WB"),
           popMemQueue, sendWriteBackAck(n), dir' = [dir EXCEPT !.state = "I", !.tbe = None]
    PROVE  FInv'
  <1>c. PICK c : c = Answer.OriginalRequestorMachId
    BY Zenon
  <1> DEFINE m == [Type |-> "WB_ACK", Requestor |-> c]
             q == net.forward[c]
  <1>1. c = Id
    BY Zenon, <1>c, PopMemory DEF IInv
  <1>2. c \in Caches /\ BeingWritten(c) /\ \A x \in Caches : BeingWritten(x) => x = c
    BY Zenon, <1>1 DEF IInv, TInv, OneInMemory, BeingWritten, Writing, Lent
  <1>m. m \in ForwardMsg /\ m.Type = "WB_ACK"
    BY Zenon, <1>2 DEF ForwardMsg
  <1>3. PICK k \in {Len(q), Len(q) + 1} \ {0} :
           net' = [n EXCEPT !.forward[c] = InsertAt(@, k, m)]
    BY Zenon, <1>c DEF sendWriteBackAck
  <1>4. /\ net'.forward[c] = InsertAt(q, k, m)
        /\ \A x \in Caches : x # c => net'.forward[x] = net.forward[x]
    <2>1. net'.forward = Put(net.forward, c, InsertAt(q, k, m))
      BY Zenon, <1>3 DEF NetType, Put
    <2> QED BY Zenon, <1>2, <2>1, Parts, NetFields DEF Put, Forwards
  <1> HIDE DEF m
  <1>5. dir'.state = "I"
    BY Zenon DEF IInv, TInv, Types, DirType
  <1>6. \A x \in Caches : ~Due(x)' /\ (Due(x) => x = c)
    BY Zenon, <1>2, <1>5 DEF Due, BeingWritten, Writing
  <1> SUFFICES ASSUME NEW x \in Caches PROVE Fits(net'.forward[x], Due(x)')
    BY Zenon DEF FInv
  <1>7. net.forward[x] \in Seq(ForwardMsg) /\ Fits(net.forward[x], Due(x))
    BY Zenon, Parts, NetFields DEF FInv
  <1>8. CASE x # c
    BY Zenon, <1>4, <1>6, <1>7, <1>8, DueType, DueFits
  <1>9. CASE x = c
    <2>1. ~Has(q, "WB_ACK")
      BY Zenon, <1>2, Parts DEF WritingBack, Sent
    <2>2. q \in Seq(ForwardMsg) /\ Fits(q, Due(x))
      BY Zenon, <1>7, <1>9
    <2> HIDE DEF q
    <2>3. Fits(InsertAt(q, k, m), FALSE) /\ InsertAt(q, k, m) \in Seq(ForwardMsg)
      <3>1. k \in 1 .. Len(q) + 1
        BY <2>2
      <3> QED BY Zenon, <1>m, <2>1, <2>2, <3>1, DueType, InsertFits, InsertExtends
    <2> QED BY Zenon, <1>4, <1>9, <2>3, DueType, DueFits
  <1> QED BY Zenon, <1>8, <1>9

\* The directory takes a writeback: the line it was waiting for is being written.
LEMMA AcceptedFits ==
    ASSUME IInv, FInv, NEW c \in Caches, Requested(c, "PUTX"), dir.state \in Lent,
           net'.forward = net.forward, dir'.state \in Writing, Id' = c
    PROVE  FInv'
  <1>1. c \in dir.owner
    BY Zenon, Arrives
  <1>o. PICK o \in Caches : dir.owner = {o}
    BY Zenon DEF IInv, OneOwner
  <1>2. \A x \in dir.owner : x = c
    BY Zenon, <1>1, <1>o
  <1>3. \A x \in Caches : Due(x) => Due(x)'
    BY Zenon, <1>2 DEF Due, BeingWritten, Writing, Lent
  <1> QED BY Zenon, <1>3, SameFits

\* Every step of a cache controller leaves buffers that fit.
LEMMA CacheFits ==
    ASSUME IInv, FInv, NEW c \in Caches, CacheStep(c) PROVE FInv'
  <1>0. net \in NetType
    BY Zenon, Parts
  <1>1. CASE M_Load_Store(c) \/ I_Load_Store(c) \/ Data(c) \/ M_Inv(c)
    <2>1. UNCHANGED <<dir, memory>>
      BY Zenon, <1>1 DEF M_Load_Store, I_Load_Store, Data, M_Inv, WriteBack
    <2>2. net'.forward = net.forward
      BY Zenon, <1>0, <1>1 DEF M_Load_Store, I_Load_Store, Data, M_Inv, WriteBack, NetType
    <2> QED BY Zenon, <2>1, <2>2, IdleFits
  <1>2. CASE \/ M_Fwd_GETX(c) \/ ee_sendDataFromTBE(c) \/ MI_Inv(c) \/ I_Inv(c)
             \/ MI_Writeback_Ack(c) \/ Writeback_Nack(c)
    <2>1. UNCHANGED <<dir, memory>> /\ net.forward[c] # <<>>
      BY Zenon, <1>2 DEF M_Fwd_GETX, ee_sendDataFromTBE, MI_Inv, I_Inv, MI_Writeback_Ack,
         Writeback_Nack, Forwarded
    <2>2. Pop(c) \/ \E data : SendData(c, data)
      BY Zenon, <1>2 DEF M_Fwd_GETX, ee_sendDataFromTBE, MI_Inv, I_Inv,
         MI_Writeback_Ack, Writeback_Nack
    <2>3. net'.forward = Put(net.forward, c, Tail(net.forward[c]))
      BY Zenon, <1>0, <2>2 DEF Pop, SendData, NetType, Put
    <2> QED BY Zenon, <2>1, <2>3, PoppedFits
  <1> QED BY Zenon, <1>1, <1>2 DEF CacheStep

\* So does every step of the directory on a request of a cache.
LEMMA RequestFits ==
    ASSUME IInv, FInv, NEW c \in Caches, DirRequest(c) PROVE FInv'
  <1>0. net \in NetType /\ dir \in DirType
    BY Zenon, Parts DEF IInv, TInv, Types
  <1>1. CASE I_GETX(c)
    <2>1. net'.forward = net.forward /\ dir.state = "I"
      BY Zenon, <1>0, <1>1 DEF I_GETX, NetType
    <2> QED BY Zenon, <2>1, SameFits DEF Due, BeingWritten, Writing
  <1>2. CASE M_GETX(c)
    <2> DEFINE m == [Type |-> "GETX", Requestor |-> c]
    <2>1. m \in ForwardMsg /\ m.Type = "GETX" /\ dir.state = "M"
      BY Zenon, <1>2 DEF ForwardMsg, M_GETX
    <2>2. net'.forward = [x \in Caches |-> IF x \in dir.owner
                                           THEN Append(net.forward[x], m)
                                           ELSE net.forward[x]]
      BY Zenon, <1>0, <1>2 DEF M_GETX, NetType
    <2> HIDE DEF m
    <2> QED BY Zenon, <2>1, <2>2, OwnerFits
  <1>3. CASE M_PUTX(c)
    <2>1. net'.forward = net.forward /\ dir.state = "M"
      BY Zenon, <1>0, <1>3 DEF M_PUTX, NetType
    <2> QED BY Zenon, <2>1, SameFits DEF Due, BeingWritten, Writing
  <1>4. CASE PUTX_NotOwner(c)
    BY Zenon, <1>4, RefusedFits
  <1>5. CASE M_DRD_PUTX(c)
    <2> DEFINE data == Head(net.request[c]).DataBlk
    <2>1. /\ net'.forward = net.forward /\ dir.state \in Lent /\ Requested(c, "PUTX")
          /\ queueMemory("MEMORY_WB", c, data)
      BY Zenon, <1>0, <1>5 DEF M_DRD_PUTX, NetType, Lent, queueMemoryWrite
    <2>2. dir'.state \in Writing
      BY Zenon, <1>0, <1>5 DEF M_DRD_PUTX, DirType, Writing
    <2>3. data \in DataBlock
      BY Zenon, <2>1, Arrives DEF RequestMsg
    <2> HIDE DEF data
    <2>4. Id' = c
      BY Zenon, <2>1, <2>3, QueueMemory DEF IInv
    <2> QED BY Zenon, <2>1, <2>2, <2>4, AcceptedFits
  <1>6. CASE M_DWR_PUTX(c)
    <2>1. /\ net'.forward = net.forward /\ dir.state = "M_DWR" /\ Requested(c, "PUTX")
          /\ queueMemoryWritePartial(c, dir.tbe.DataBlk, dir.tbe.Len)
      BY Zenon, <1>0, <1>6 DEF M_DWR_PUTX, NetType
    <2>2. dir'.state \in Writing /\ dir.state \in Lent
      BY Zenon, <1>0, <1>6 DEF M_DWR_PUTX, DirType, Writing, Lent
    <2>3. dir.tbe.DataBlk \in DataBlock /\ dir.tbe.Len \in 1 .. BlockSize
      BY Zenon, <2>1 DEF IInv, TInv, Allocated, DirTBE
    <2>4. Id' = c
      BY Zenon, <2>1, <2>2, <2>3, WritePartial DEF IInv
    <2> QED BY Zenon, <2>1, <2>2, <2>4, AcceptedFits
  <1> QED BY Zenon, <1>1, <1>2, <1>3, <1>4, <1>5, <1>6 DEF DirRequest

\* And on a request of a device, and on an answer of the memory.
LEMMA OtherFits ==
    ASSUME IInv, FInv, (\E d \in DMAs : DirDMA(d)) \/ DirMemory PROVE FInv'
  <1>0. net \in NetType /\ dir \in DirType
    BY Zenon, Parts DEF IInv, TInv, Types
  <1>1. ASSUME NEW d \in DMAs, I_DMA_READ(d) \/ I_DMA_WRITE(d) PROVE FInv'
    <2>1. net'.forward = net.forward /\ dir.state = "I"
      BY Zenon, <1>0, <1>1 DEF I_DMA_READ, I_DMA_WRITE, NetType
    <2> QED BY Zenon, <2>1, SameFits DEF Due, BeingWritten, Writing
  <1>2. ASSUME NEW d \in DMAs, M_DMA(d) PROVE FInv'
    <2> DEFINE m == [Type |-> "INV", Requestor |-> None]
    <2>1. m \in ForwardMsg /\ m.Type = "INV" /\ dir.state = "M"
      BY Zenon, <1>2 DEF ForwardMsg, M_DMA
    <2>2. net'.forward = [x \in Caches |-> IF x \in dir.owner
                                           THEN Append(net.forward[x], m)
                                           ELSE net.forward[x]]
      BY Zenon, <1>0, <1>2 DEF M_DMA, NetType
    <2> HIDE DEF m
    <2>3. dir'.state \in {"M_DRD", "M_DWR"} /\ dir'.owner = dir.owner
      BY Zenon, <1>0, <1>2 DEF M_DMA, DirType
    <2> QED BY Zenon, <2>1, <2>2, <2>3, OwnerFits
  <1>3. CASE IM_Memory_Data \/ ID_Memory_Data \/ ID_W_Memory_Ack
    <2>1. net'.forward = net.forward /\ dir.state \in {"IM", "ID", "ID_W"}
      BY Zenon, <1>0, <1>3 DEF IM_Memory_Data, ID_Memory_Data, ID_W_Memory_Ack, NetType
    <2> QED BY Zenon, <2>1, SameFits DEF Due, BeingWritten, Writing
  <1>4. CASE MI_Memory_Ack
    <2>1. dir.state \in Writing
      BY Zenon, <1>4 DEF MI_Memory_Ack, Writing
    <2> QED BY Zenon, <1>0, <1>4, <2>1, AcknowledgedFits DEF MI_Memory_Ack
  <1>5. CASE M_DWRI_Memory_Ack
    <2> DEFINE n == [net EXCEPT !.dmaResponse[dir.tbe.DmaRequestor] = Append(@, DMAAck)]
    <2>1. /\ FromMemory("MEMORY_WB") /\ popMemQueue /\ sendWriteBackAck(n)
          /\ dir' = [dir EXCEPT !.state = "I", !.tbe = None] /\ dir.state = "M_DWRI"
      BY Zenon, <1>5 DEF M_DWRI_Memory_Ack
    <2>2. dir.tbe.DmaRequestor \in DMAs /\ DMAAck \in DMAResponseMsg /\ dir.state \in Writing
      BY Zenon, <2>1, ClearType DEF IInv, TInv, Allocated, DMAAck, DMAResponseMsg, Writing
    <2>3. Put(net.dmaResponse, dir.tbe.DmaRequestor,
              Append(net.dmaResponse[dir.tbe.DmaRequestor], DMAAck)) \in DMAResponses
      BY Zenon, <1>0, <2>2, DMABuffers
    <2>4. n \in NetType /\ n.forward = net.forward
      BY Zenon, <1>0, <2>3 DEF NetType, Put
    <2> HIDE DEF n
    <2> QED BY Zenon, <2>1, <2>2, <2>4, AcknowledgedFits
  <1> QED BY Zenon, <1>1, <1>2, <1>3, <1>4, <1>5 DEF DirDMA, DirMemory

\* The buffers fit after every step.
LEMMA NextFInv == IInv /\ FInv /\ [Next]_vars => FInv'
  <1> SUFFICES ASSUME IInv, FInv, [Next]_vars PROVE FInv'
    BY Zenon
  <1>0. net \in NetType
    BY Zenon, Parts
  <1>1. ASSUME NEW c \in Caches, (\E type \in {"LD", "ST"} : makeRequest(c, type))
                                 \/ I_Replacement(c) \/ M_Replacement(c)
        PROVE  FInv'
    <2>1. UNCHANGED <<dir, memory>>
      BY Zenon, <1>1 DEF makeRequest, I_Replacement, M_Replacement, WriteBack
    <2>2. net'.forward = net.forward
      BY Zenon, <1>0, <1>1 DEF makeRequest, I_Replacement, M_Replacement, WriteBack, NetType
    <2> QED BY Zenon, <2>1, <2>2, IdleFits
  <1>2. ASSUME NEW d \in DMAs, makeDMARequest(d) \/ DMAStep(d) PROVE FInv'
    <2>1. UNCHANGED <<dir, memory>>
      BY Zenon, <1>2 DEF makeDMARequest, DMAStep, READY_Request, BUSY_Response
    <2>2. net'.forward = net.forward
      BY Zenon, <1>0, <1>2 DEF makeDMARequest, DMAStep, READY_Request, BUSY_Response, NetType
    <2> QED BY Zenon, <2>1, <2>2, IdleFits
  <1>3. CASE memoryAccess
    <2>1. UNCHANGED <<dir, net>> /\ Id' = Id
      BY Zenon, <1>3, Access DEF memoryAccess
    <2>2. \A x \in Caches : Due(x) => Due(x)'
      BY Zenon, <2>1 DEF Due, BeingWritten
    <2> QED BY Zenon, <2>1, <2>2, SameFits
  <1>4. CASE InvalidTransition \/ UNCHANGED vars
    <2>1. UNCHANGED <<dir, memory, net>>
      BY Zenon, <1>4 DEF InvalidTransition, vars
    <2> QED BY Zenon, <2>1, IdleFits
  <1> QED BY Zenon, <1>1, <1>2, <1>3, <1>4, CacheFits, RequestFits, OtherFits DEF Next

\* A buffer that fits has at most three messages.
LEMMA Fitting ==
    ASSUME IInv, FInv, NEW c \in Caches
    PROVE  Len(net.forward[c]) <= 3
  <1> DEFINE q == net.forward[c]
             n == Len(q)
  <1>1. n \in Nat
    BY Parts, NetFields
  <1>2. n <= 1 + One(Due(c)) + One(Has(q, "GETX")) + One(Has(q, "WB_NACK"))
              + 2 * One(Has(q, "WB_ACK"))
    BY Zenon DEF FInv, Fits
  <1>3. Has(q, "WB_ACK") => ~Has(q, "GETX") /\ ~Has(q, "WB_NACK") /\ ~Due(c)
    <2> SUFFICES ASSUME Has(q, "WB_ACK")
                 PROVE  ~Has(q, "GETX") /\ ~Has(q, "WB_NACK") /\ ~Due(c)
      BY Zenon
    <2>1. ~Has(q, "WB_NACK")
      <3>1. Once(q, {"WB_ACK", "WB_NACK"})
        BY Zenon, Parts DEF Buffers
      <3> QED BY Zenon, <3>1 DEF Has, Once
    <2>2. ~Has(q, "GETX") /\ ~Due(c)
      BY Zenon, Parts DEF Passing, WritingBack, Taken, Sent, Due
    <2> QED BY Zenon, <2>1, <2>2
  <1>4. Due(c) => ~Has(q, "GETX") /\ ~Has(q, "WB_NACK")
    BY Zenon, Parts DEF Passing, WritingBack, Taken, Sent, Due
  <1> HIDE DEF n, q
  <1>5. n <= 3
    <2>1. CASE Has(q, "WB_ACK")
      BY <1>1, <1>2, <1>3, <2>1 DEF One
    <2>2. CASE ~Has(q, "WB_ACK") /\ Due(c)
      BY <1>1, <1>2, <1>4, <2>2 DEF One
    <2>3. CASE ~Has(q, "WB_ACK") /\ ~Due(c)
      BY <1>1, <1>2, <2>3 DEF One
    <2> QED BY Zenon, <2>1, <2>2, <2>3
  <1> QED BY Zenon, <1>5 DEF n, q

\* A controller has one request and one answer to it under way, three forwarded
\* messages at most, and the memory one request, with any number of caches and of
\* devices: no TBE is allocated twice and no buffer grows without bound.
THEOREM AlwaysOneTransaction == Spec => []OneTransaction
  <1>1. IInv /\ FInv => OneTransaction
    <2> SUFFICES ASSUME IInv, FInv PROVE OneTransaction
      BY Zenon
    <2>1. \A c \in Caches : /\ Len(net.request[c]) <= 1 /\ Len(net.response[c]) <= 1
                            /\ Len(net.forward[c]) <= 3
      BY Zenon, Parts, Fitting DEF Buffers
    <2>2. Len(memory.toMemory) + Len(memory.fromMemory) <= 1
      <3>1. \/ memory.toMemory = <<>> /\ memory.fromMemory = <<>>
            \/ Len(memory.toMemory) = 1 /\ memory.fromMemory = <<>>
            \/ memory.toMemory = <<>> /\ Len(memory.fromMemory) = 1
        BY Zenon DEF IInv, TInv, OneInMemory
      <3>2. Len(<<>>) = 0
        OBVIOUS
      <3> DEFINE a == Len(memory.toMemory)
                 b == Len(memory.fromMemory)
      <3>3. (a = 0 /\ b = 0) \/ (a = 1 /\ b = 0) \/ (a = 0 /\ b = 1)
        BY Zenon, <3>1, <3>2
      <3> HIDE DEF a, b
      <3>4. a + b <= 1
        BY <3>3
      <3> QED BY Zenon, <3>4 DEF a, b
    <2> QED BY Zenon, <2>1, <2>2 DEF OneTransaction
  <1> QED BY <1>1, InitIInv, NextIInv, InitFInv, NextFInv, PTL DEF Spec

=============================================================================

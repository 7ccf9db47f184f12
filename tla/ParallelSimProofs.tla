------------------------- MODULE ParallelSimProofs -------------------------
(***************************************************************************)
(* Parallel simulation, for any number of threads, any quantum and any     *)
(* events: time is causal, simulate() returns in step, one thread runs the *)
(* process() of a global event, and global events have one order.          *)
(*                                                                         *)
(* The inductive invariant has four layers.  Places: where the threads     *)
(* are with respect to the barriers (each barrier counts its waiters; who  *)
(* is past the first barrier of a global event has all the others with it; *)
(* the threads stop together).  Timed: queues and clocks (there is a tick  *)
(* S, the end of the quantum, that no clock has passed, on which every     *)
(* thread has the quantum event in its queue, waits at it, or has just     *)
(* left it; what is sent to another queue is for S or later).  Agreed:     *)
(* where the barrier events of requested global events are.  Ties: on all  *)
(* queues they are in the order in which they took globalQMutex.           *)
(***************************************************************************)
EXTENDS ParallelSim, FiniteSets, TLAPS

-----------------------------------------------------------------------------
(* Queues.                                                                  *)

\* What a queue holds: an event and the tick it is scheduled for.
Entries == [ev : Events, w : Ticks]

\* The entries of a queue.
Elems(q) == {q[i] : i \in 1 .. Len(q)}

\* Event e is in the queue at most once.
Once(q, e) == \A i, j \in 1 .. Len(q) : q[i].ev = e /\ q[j].ev = e => i = j

\* No entry is behind a greater one.
Sorted(q) == \A i, j \in 1 .. Len(q) : i < j => ~Less(q[j], q[i])

\* merged of Merge(q, a) is what it looks like.
Steps(m, q, a) ==
    /\ m[0] = q
    /\ \A n \in 1 .. Len(a) : m[n] = Insert(m[n - 1], a[n])

\* Two facts about numbers: a set of them has a smallest element; and one more thread
\* makes a set of threads one larger, so that a set with N - 1 threads lacks just one.
\* They are proved at the end (ArithmeticHolds), from the library of finite sets.
Arithmetic ==
    /\ \A T \in SUBSET Nat : T # {} => \E n \in T : \A m \in T : n <= m
    /\ Cardinality({}) = 0
    /\ \A S \in SUBSET Threads : \A t \in Threads \ S :
           /\ Cardinality(S) \in Nat
           /\ Cardinality(S \cup {t}) = Cardinality(S) + 1
           /\ Cardinality(S) = N - 1 => S = Threads \ {t}

\* The recursive function of Merge() is defined on all of 0 .. Len(a), and takes one
\* insert() per step: handleAsyncInsertions()'s loop.
LEMMA MergeSteps ==
    ASSUME Arithmetic, NEW q, NEW a \in Seq(Entries)
    PROVE  \E m : Steps(m, q, a) /\ Merge(q, a) = m[Len(a)]
  <1> DEFINE Rec(k, m) == m = [n \in 0 .. k |-> IF n = 0 THEN q ELSE Insert(m[n - 1], a[n])]
             T == {k \in Nat : ~\E m : Rec(k, m)}
  <1>0. T \in SUBSET Nat
    OBVIOUS
  <1>1. T = {}
    <2> SUFFICES ASSUME T # {} PROVE FALSE
      OBVIOUS
    <2>1. PICK k \in T : \A j \in T : k <= j
      <3> HIDE DEF T
      <3> QED BY Zenon, <1>0 DEF Arithmetic
    <2>2. CASE k = 0
      <3> DEFINE m == [n \in 0 .. 0 |-> q]
      <3>1. Rec(0, m)
        OBVIOUS
      <3> QED BY Zenon, <2>1, <2>2, <3>1
    <2>3. CASE k # 0
      <3>1. k - 1 \in Nat /\ k - 1 \notin T
        <4> HIDE DEF T
        <4> QED BY <1>0, <2>1, <2>3
      <3>2. PICK p : Rec(k - 1, p)
        BY Zenon, <3>1
      <3> DEFINE m == [n \in 0 .. k |-> IF n = k THEN Insert(p[k - 1], a[k]) ELSE p[n]]
      <3>3. Rec(k, m)
        <4>1. ASSUME NEW n \in 0 .. k
              PROVE  m[n] = IF n = 0 THEN q ELSE Insert(m[n - 1], a[n])
          BY <2>3, <3>2
        <4> QED BY Zenon, <4>1
      <3> QED BY Zenon, <2>1, <3>3
    <2> QED BY Zenon, <2>2, <2>3
  <1> DEFINE m == CHOOSE f : Rec(Len(a), f)
  <1>2. \E f : Rec(Len(a), f)
    BY <1>1
  <1>3. Merge(q, a) = m[Len(a)]
    BY Zenon DEF Merge
  <1> HIDE DEF m
  <1>4. Rec(Len(a), m)
    <2> HIDE DEF Rec
    <2> QED BY Zenon, <1>2 DEF m
  <1>5. Steps(m, q, a)
    BY <1>4 DEF Steps
  <1> QED BY Zenon, <1>3, <1>5

\* r is a with b behind it.
IsJoin(S, r, a, b) ==
    /\ r \in Seq(S) /\ Len(r) = Len(a) + Len(b)
    /\ \A j \in 1 .. Len(a) : r[j] = a[j]
    /\ \A j \in 1 .. Len(b) : r[Len(a) + j] = b[j]

\* Two sequences joined.
LEMMA Joined ==
    ASSUME NEW S, NEW a \in Seq(S), NEW b \in Seq(S)
    PROVE  IsJoin(S, a \o b, a, b)
  BY DEF IsJoin

\* A part of a sequence.
LEMMA Part ==
    ASSUME NEW S, NEW q \in Seq(S), NEW m \in 1 .. Len(q) + 1, NEW n \in 0 .. Len(q),
           n >= m - 1
    PROVE  /\ SubSeq(q, m, n) \in Seq(S) /\ Len(SubSeq(q, m, n)) = n + 1 - m
           /\ \A j \in 1 .. n + 1 - m : SubSeq(q, m, n)[j] = q[m + j - 1]
  OBVIOUS

\* r is q with x put behind its first n entries.
Put(r, q, n, x) ==
    /\ r \in Seq(Entries) /\ Len(r) = Len(q) + 1
    /\ \A j \in 1 .. n : r[j] = q[j]
    /\ r[n + 1] = x
    /\ \A j \in n + 1 .. Len(q) : r[j + 1] = q[j]

\* insert() shifts what follows by one.
LEMMA InsertShifts ==
    ASSUME NEW q \in Seq(Entries), NEW x \in Entries, NEW n \in 0 .. Len(q)
    PROVE  Put(SubSeq(q, 1, n) \o <<x>> \o SubSeq(q, n + 1, Len(q)), q, n, x)
  <1> DEFINE a == SubSeq(q, 1, n)
             b == SubSeq(q, n + 1, Len(q))
             c == a \o <<x>>
             r == c \o b
  <1>1. /\ a \in Seq(Entries) /\ Len(a) = n
        /\ \A j \in 1 .. n : a[j] = q[j]
    BY Part
  <1>2. /\ b \in Seq(Entries) /\ Len(b) = Len(q) - n
        /\ \A j \in 1 .. Len(q) - n : b[j] = q[n + j]
    BY Part
  <1>3. <<x>> \in Seq(Entries) /\ Len(<<x>>) = 1 /\ <<x>>[1] = x
    OBVIOUS
  <1> HIDE DEF a, b
  <1>4. /\ c \in Seq(Entries) /\ Len(c) = n + 1 /\ c[n + 1] = x
        /\ \A j \in 1 .. n : c[j] = q[j]
    BY <1>1, <1>3, Joined DEF IsJoin
  <1> HIDE DEF c
  <1>5. /\ r \in Seq(Entries) /\ Len(r) = Len(c) + Len(b)
        /\ \A j \in 1 .. Len(c) : r[j] = c[j]
        /\ \A j \in 1 .. Len(b) : r[Len(c) + j] = b[j]
    <2>1. c \in Seq(Entries) /\ b \in Seq(Entries)
      BY Zenon, <1>2, <1>4
    <2>2. IsJoin(Entries, r, c, b)
      BY Zenon, <2>1, Joined
    <2> HIDE DEF r
    <2> QED BY Zenon, <2>2 DEF IsJoin
  <1> HIDE DEF r
  <1>6. \A j \in 1 .. n : r[j] = q[j]
    BY <1>4, <1>5
  <1>7. r[n + 1] = x
    BY <1>4, <1>5
  <1>8. ASSUME NEW j \in n + 1 .. Len(q) PROVE r[j + 1] = q[j]
    <2>1. j - n \in 1 .. Len(b) /\ Len(c) + (j - n) = j + 1 /\ n + (j - n) = j
      BY <1>2, <1>4
    <2>2. r[Len(c) + (j - n)] = b[j - n] /\ b[j - n] = q[n + (j - n)]
      BY Zenon, <1>2, <1>5, <2>1
    <2> QED BY Zenon, <2>1, <2>2
  <1>9. Len(r) = Len(q) + 1
    BY <1>2, <1>4, <1>5
  <1> QED BY Zenon, <1>5, <1>6, <1>7, <1>8, <1>9 DEF Put, r, c, a, b

\* r is q with x added.
Grown(r, q, x) ==
    /\ r \in Seq(Entries)
    /\ Elems(r) = Elems(q) \cup {x}
    /\ \A e : Once(q, e) /\ (x.ev # e \/ ~Has(q, e)) => Once(r, e)

\* What is in a sequence is told by its elements.
LEMMA HasElems ==
    ASSUME NEW q, NEW e
    PROVE  Has(q, e) <=> \E x \in Elems(q) : x.ev = e
  BY Zenon DEF Has, Elems

\* An entry put anywhere makes the sequence grow by it.
LEMMA PutGrows ==
    ASSUME NEW q \in Seq(Entries), NEW x, NEW r, NEW n \in 0 .. Len(q), Put(r, q, n, x)
    PROVE  Grown(r, q, x)
  <1> DEFINE k == Len(q)
  <1>1. /\ k \in Nat /\ n \in 0 .. k
        /\ r \in Seq(Entries) /\ Len(r) = k + 1
        /\ \A j \in 1 .. n : r[j] = q[j]
        /\ r[n + 1] = x
        /\ \A j \in n + 1 .. k : r[j + 1] = q[j]
    BY DEF Put
  <1> HIDE DEF k
  <1>2. ASSUME NEW i \in 1 .. k + 1
        PROVE  \/ i \in 1 .. n /\ i \in 1 .. k /\ r[i] = q[i]
               \/ i = n + 1
               \/ i - 1 \in n + 1 .. k /\ i - 1 \in 1 .. k /\ r[i] = q[i - 1]
    BY <1>1
  <1>3. ASSUME NEW i \in 1 .. k
        PROVE  \E j \in 1 .. k + 1 : r[j] = q[i]
    <2>1. CASE i <= n
      BY <1>1, <2>1
    <2>2. CASE i > n
      <3>1. i + 1 \in 1 .. k + 1 /\ r[i + 1] = q[i]
        BY <1>1, <2>2
      <3> QED BY Zenon, <3>1
    <2> QED BY <1>1, <2>1, <2>2
  <1>4. n + 1 \in 1 .. k + 1
    BY <1>1
  <1>5. Elems(r) = Elems(q) \cup {x}
    <2>1. ASSUME NEW y \in Elems(r) PROVE y \in Elems(q) \cup {x}
      <3>1. PICK i \in 1 .. k + 1 : y = r[i]
        BY Zenon, <1>1, <2>1 DEF Elems
      <3>2. y = x \/ \E j \in 1 .. k : y = q[j]
        BY Zenon, <1>1, <1>2, <3>1
      <3> QED BY Zenon, <3>2 DEF Elems, k
    <2>2. ASSUME NEW y \in Elems(q) \cup {x} PROVE y \in Elems(r)
      <3>1. \E i \in 1 .. Len(r) : y = r[i]
        <4>1. CASE y = x
          BY Zenon, <1>1, <1>4, <4>1
        <4>2. CASE y \in Elems(q)
          <5>1. PICK i \in 1 .. k : y = q[i]
            BY Zenon, <4>2 DEF Elems, k
          <5> QED BY Zenon, <1>1, <1>3, <5>1
        <4> QED BY Zenon, <2>2, <4>1, <4>2
      <3> QED BY Zenon, <3>1 DEF Elems
    <2> QED BY Zenon, <2>1, <2>2
  <1>6. ASSUME NEW e, Once(q, e), x.ev # e \/ ~Has(q, e) PROVE Once(r, e)
    <2> SUFFICES ASSUME NEW i \in 1 .. k + 1, NEW j \in 1 .. k + 1,
                        r[i].ev = e, r[j].ev = e
                 PROVE  i = j
      BY Zenon, <1>1 DEF Once
    <2>1. CASE x.ev # e
      <3>1. /\ \/ i \in 1 .. n /\ i \in 1 .. k /\ r[i] = q[i]
               \/ i - 1 \in n + 1 .. k /\ i - 1 \in 1 .. k /\ r[i] = q[i - 1]
            /\ \/ j \in 1 .. n /\ j \in 1 .. k /\ r[j] = q[j]
               \/ j - 1 \in n + 1 .. k /\ j - 1 \in 1 .. k /\ r[j] = q[j - 1]
        BY Zenon, <1>1, <1>2, <2>1
      <3>2. \A a, b \in 1 .. k : q[a].ev = e /\ q[b].ev = e => a = b
        BY Zenon, <1>6 DEF Once, k
      <3> QED BY <1>1, <3>1, <3>2
    <2>2. CASE ~Has(q, e)
      <3>1. \A a \in 1 .. k : q[a].ev # e
        BY Zenon, <2>2 DEF Has, k
      <3>2. i = n + 1 /\ j = n + 1
        BY Zenon, <1>2, <3>1
      <3> QED BY Zenon, <3>2
    <2> QED BY Zenon, <1>6, <2>1, <2>2
  <1> QED BY Zenon, <1>1, <1>5, <1>6 DEF Grown

\* The comparison of entries is a strict weak order.
LEMMA LessOrder ==
    ASSUME NEW x \in Entries, NEW y \in Entries, NEW z \in Entries
    PROVE  /\ Less(x, y) => ~Less(y, x)
           /\ ~Less(y, x) /\ ~Less(z, y) => ~Less(z, x)
           /\ ~Less(y, x) => x.w <= y.w
  BY ParallelAssumption DEF Less, Entries, Ticks

\* insert() always finds a place: its walk stops at the first entry that is not
\* smaller, or at the end.
LEMMA AheadExists ==
    ASSUME Arithmetic, NEW q \in Seq(Entries), NEW x
    PROVE  /\ Ahead(q, x) \in 0 .. Len(q)
           /\ \A i \in 1 .. Ahead(q, x) : Less(q[i], x)
           /\ Ahead(q, x) < Len(q) => ~Less(q[Ahead(q, x) + 1], x)
  <1> DEFINE T == {n \in 0 .. Len(q) : n < Len(q) => ~Less(q[n + 1], x)}
  <1>1. T \in SUBSET Nat /\ Len(q) \in T
    OBVIOUS
  <1>2. PICK n \in T : \A m \in T : n <= m
    <2> HIDE DEF T
    <2> QED BY Zenon, <1>1 DEF Arithmetic
  <1>3. n \in 0 .. Len(q) /\ (n < Len(q) => ~Less(q[n + 1], x))
    OBVIOUS
  <1>4. ASSUME NEW i \in 1 .. n PROVE Less(q[i], x)
    <2>1. i - 1 \in 0 .. Len(q) /\ ~(n <= i - 1) /\ i - 1 < Len(q) /\ (i - 1) + 1 = i
      BY <1>3
    <2>2. i - 1 \notin T
      BY Zenon, <1>2, <2>1
    <2> QED BY Zenon, <2>1, <2>2
  <1> HIDE DEF T
  <1> QED BY <1>3, <1>4, Zenon DEF Ahead

\* insert() adds the entry and keeps the order.
LEMMA InsertGrows ==
    ASSUME Arithmetic, NEW q \in Seq(Entries), NEW x \in Entries
    PROVE  Grown(Insert(q, x), q, x) /\ (Sorted(q) => Sorted(Insert(q, x)))
  <1> DEFINE n == Ahead(q, x)
             r == Insert(q, x)
  <1>1. /\ n \in 0 .. Len(q)
        /\ \A i \in 1 .. n : Less(q[i], x)
        /\ n < Len(q) => ~Less(q[n + 1], x)
    BY Zenon, AheadExists
  <1>2. Put(r, q, n, x)
    <2> HIDE DEF n
    <2>1. r = SubSeq(q, 1, n) \o <<x>> \o SubSeq(q, n + 1, Len(q))
      BY Zenon DEF Insert, n
    <2> QED BY Zenon, <1>1, <2>1, InsertShifts
  <1> HIDE DEF n, r
  <1>3. Grown(r, q, x)
    BY Zenon, <1>1, <1>2, PutGrows
  <1>4. ASSUME Sorted(q) PROVE Sorted(r)
    <2> DEFINE k == Len(q)
    <2>1. /\ k \in Nat /\ n \in 0 .. k /\ Len(r) = k + 1
          /\ \A j \in 1 .. n : r[j] = q[j]
          /\ r[n + 1] = x
          /\ \A j \in n + 1 .. k : r[j + 1] = q[j]
          /\ \A j \in 1 .. k : q[j] \in Entries
          /\ \A i, j \in 1 .. k : i < j => ~Less(q[j], q[i])
      BY <1>1, <1>2, <1>4 DEF Put, Sorted
    <2>2. ASSUME NEW j \in n + 1 .. k PROVE ~Less(q[j], x)
      <3>1. ~Less(q[n + 1], x) /\ n + 1 \in 1 .. k /\ j \in 1 .. k /\ (j = n + 1 \/ n + 1 < j)
        BY <1>1, <2>1
      <3> QED BY Zenon, <2>1, <3>1, LessOrder
    <2>3. ASSUME NEW j \in 1 .. n PROVE ~Less(x, q[j])
      <3>1. j \in 1 .. k
        BY <2>1
      <3> QED BY Zenon, <1>1, <2>1, <3>1, LessOrder
    <2> HIDE DEF k
    <2>4. ASSUME NEW i \in 1 .. k + 1, NEW j \in 1 .. k + 1, i < j PROVE ~Less(r[j], r[i])
      <3>1. CASE j <= n
        <4>1. i \in 1 .. n /\ j \in 1 .. n /\ i \in 1 .. k /\ j \in 1 .. k
          BY <2>1, <2>4, <3>1
        <4> QED BY Zenon, <2>1, <2>4, <4>1
      <3>2. CASE j = n + 1
        <4>1. i \in 1 .. n
          BY <2>1, <2>4, <3>2
        <4> QED BY Zenon, <2>1, <2>3, <3>2, <4>1
      <3>3. CASE j > n + 1
        <4>1. j - 1 \in n + 1 .. k /\ (j - 1) + 1 = j /\ j - 1 \in 1 .. k
          BY <2>1, <3>3
        <4>2. r[j] = q[j - 1]
          BY Zenon, <2>1, <4>1
        <4>3. CASE i <= n
          <5>1. i \in 1 .. n /\ i \in 1 .. k /\ i < j - 1
            BY <2>1, <3>3, <4>3
          <5> QED BY Zenon, <2>1, <4>1, <4>2, <5>1
        <4>4. CASE i = n + 1
          BY Zenon, <2>1, <2>2, <4>1, <4>2, <4>4
        <4>5. CASE i > n + 1
          <5>1. i - 1 \in n + 1 .. k /\ (i - 1) + 1 = i /\ i - 1 \in 1 .. k /\ i - 1 < j - 1
            BY <2>1, <2>4, <4>5
          <5>2. r[i] = q[i - 1]
            BY Zenon, <2>1, <5>1
          <5> QED BY Zenon, <2>1, <4>1, <4>2, <5>1, <5>2
        <4> QED BY <2>1, <4>3, <4>4, <4>5
      <3> QED BY <2>1, <3>1, <3>2, <3>3
    <2> QED BY Zenon, <2>1, <2>4 DEF Sorted
  <1> QED BY Zenon, <1>3, <1>4 DEF r

\* Of two requested global events with one tick and one priority the later asked for
\* goes first: insert() puts an entry ahead of its equals.  rank says which is later.
LaterFirst(x, y, rank) ==
    /\ x.ev \in Requests /\ y.ev \in Requests
    /\ x.w = y.w /\ Priority[x.ev] = Priority[y.ev]
    => rank[y.ev] < rank[x.ev]

Falling(q, rank) == \A i, j \in 1 .. Len(q) : i < j => LaterFirst(q[i], q[j], rank)
KeepsOrder(r, q) == \A rank : Falling(q, rank) => Falling(r, rank)

\* Every request in q was asked for before x, if x is one.
Newest(x, q, rank) ==
    \A y \in Elems(q) : x.ev \in Requests /\ y.ev \in Requests => rank[y.ev] < rank[x.ev]

\* insert() puts the event asked for last ahead of its equals.
LEMMA InsertFalls ==
    ASSUME Arithmetic, NEW q \in Seq(Entries), NEW x \in Entries, NEW rank, Falling(q, rank), Newest(x, q, rank)
    PROVE  Falling(Insert(q, x), rank)
  <1> DEFINE n == Ahead(q, x)
             r == Insert(q, x)
             k == Len(q)
  <1>1. /\ n \in 0 .. Len(q)
        /\ \A i \in 1 .. n : Less(q[i], x)
    BY Zenon, AheadExists
  <1>2. Put(r, q, n, x)
    <2> HIDE DEF n
    <2>1. r = SubSeq(q, 1, n) \o <<x>> \o SubSeq(q, n + 1, Len(q))
      BY Zenon DEF Insert, n
    <2> QED BY Zenon, <1>1, <2>1, InsertShifts
  <1> HIDE DEF n, r
  <1>3. /\ k \in Nat /\ n \in 0 .. k /\ Len(r) = k + 1
        /\ \A j \in 1 .. n : r[j] = q[j]
        /\ r[n + 1] = x
        /\ \A j \in n + 1 .. k : r[j + 1] = q[j]
        /\ \A j \in 1 .. k : q[j] \in Entries
        /\ \A i, j \in 1 .. k : i < j => LaterFirst(q[i], q[j], rank)
    BY <1>1, <1>2 DEF Put, Falling
  <1>4. ASSUME NEW j \in 1 .. k PROVE LaterFirst(x, q[j], rank)
    BY Zenon DEF Newest, Elems, LaterFirst
  <1>5. ASSUME NEW y \in Entries, Less(y, x) PROVE LaterFirst(y, x, rank)
    BY <1>5, ParallelAssumption DEF Less, LaterFirst, Entries, Ticks
  <1> HIDE DEF k
  <1>6. ASSUME NEW i \in 1 .. k + 1, NEW j \in 1 .. k + 1, i < j PROVE LaterFirst(r[i], r[j], rank)
    <2>1. CASE j <= n
      <3>1. i \in 1 .. n /\ j \in 1 .. n /\ i \in 1 .. k /\ j \in 1 .. k
        BY <1>3, <1>6, <2>1
      <3> QED BY Zenon, <1>3, <1>6, <3>1
    <2>2. CASE j = n + 1
      <3>1. i \in 1 .. n /\ i \in 1 .. k
        BY <1>3, <1>6, <2>2
      <3> QED BY Zenon, <1>1, <1>3, <1>5, <2>2, <3>1
    <2>3. CASE j > n + 1
      <3>1. j - 1 \in n + 1 .. k /\ (j - 1) + 1 = j /\ j - 1 \in 1 .. k
        BY <1>3, <2>3
      <3>2. r[j] = q[j - 1]
        BY Zenon, <1>3, <3>1
      <3>3. CASE i <= n
        <4>1. i \in 1 .. n /\ i \in 1 .. k /\ i < j - 1
          BY <1>3, <2>3, <3>3
        <4> QED BY Zenon, <1>3, <3>1, <3>2, <4>1
      <3>4. CASE i = n + 1
        BY Zenon, <1>3, <1>4, <3>1, <3>2, <3>4
      <3>5. CASE i > n + 1
        <4>1. i - 1 \in n + 1 .. k /\ (i - 1) + 1 = i /\ i - 1 \in 1 .. k /\ i - 1 < j - 1
          BY <1>3, <1>6, <3>5
        <4>2. r[i] = q[i - 1]
          BY Zenon, <1>3, <4>1
        <4> QED BY Zenon, <1>3, <3>1, <3>2, <4>1, <4>2
      <3> QED BY <1>3, <3>3, <3>4, <3>5
    <2> QED BY <1>3, <2>1, <2>2, <2>3
  <1> QED BY Zenon, <1>3, <1>6 DEF Falling, r

\* r is q with x taken away.
Shrunk(r, q, x) ==
    /\ r \in Seq(Entries)
    /\ Elems(q) = Elems(r) \cup {x}
    /\ \A e : Once(q, e) => Once(r, e)
    /\ Once(q, x.ev) => ~Has(r, x.ev)
    /\ Sorted(q) => Sorted(r)
    /\ KeepsOrder(r, q)

\* An entry taken from anywhere.
LEMMA PutShrinks ==
    ASSUME NEW q \in Seq(Entries), NEW r \in Seq(Entries), NEW x,
           NEW n \in 0 .. Len(r), Put(q, r, n, x)
    PROVE  Shrunk(r, q, x)
  <1> DEFINE k == Len(r)
             to(i) == IF i <= n THEN i ELSE i + 1
  <1>1. /\ k \in Nat /\ n \in 0 .. k /\ Len(q) = k + 1
        /\ \A j \in 1 .. n : q[j] = r[j]
        /\ q[n + 1] = x
        /\ \A j \in n + 1 .. k : q[j + 1] = r[j]
    BY DEF Put
  <1>2. Elems(q) = Elems(r) \cup {x}
    BY Zenon, PutGrows DEF Grown
  <1> HIDE DEF k
  <1>3. ASSUME NEW i \in 1 .. k
        PROVE  to(i) \in 1 .. k + 1 /\ q[to(i)] = r[i] /\ to(i) # n + 1
    BY <1>1
  <1>4. ASSUME NEW i \in 1 .. k, NEW j \in 1 .. k
        PROVE  (to(i) = to(j) => i = j) /\ (i < j => to(i) < to(j))
    BY <1>1
  <1> HIDE DEF to
  <1>5. ASSUME NEW e, Once(q, e) PROVE Once(r, e)
    <2>1. \A i, j \in 1 .. k + 1 : q[i].ev = e /\ q[j].ev = e => i = j
      BY Zenon, <1>1, <1>5 DEF Once
    <2>2. \A i, j \in 1 .. k : r[i].ev = e /\ r[j].ev = e => i = j
      BY Zenon, <1>3, <1>4, <2>1
    <2> QED BY Zenon, <2>2 DEF Once, k
  <1>6. ASSUME Once(q, x.ev), Has(r, x.ev) PROVE FALSE
    <2>1. PICK i \in 1 .. k : r[i].ev = x.ev
      BY Zenon, <1>6 DEF Has, k
    <2>2. n + 1 \in 1 .. k + 1
      BY <1>1
    <2>3. \A a, b \in 1 .. k + 1 : q[a].ev = x.ev /\ q[b].ev = x.ev => a = b
      BY Zenon, <1>1, <1>6 DEF Once
    <2> QED BY Zenon, <1>1, <1>3, <2>1, <2>2, <2>3
  <1>7. ASSUME Sorted(q) PROVE Sorted(r)
    <2>1. \A i, j \in 1 .. k + 1 : i < j => ~Less(q[j], q[i])
      BY Zenon, <1>1, <1>7 DEF Sorted
    <2>2. \A i, j \in 1 .. k : i < j => ~Less(r[j], r[i])
      BY Zenon, <1>3, <1>4, <2>1
    <2> QED BY Zenon, <2>2 DEF Sorted, k
  <1>8. ASSUME NEW rank, Falling(q, rank) PROVE Falling(r, rank)
    <2>1. \A i, j \in 1 .. k + 1 : i < j => LaterFirst(q[i], q[j], rank)
      BY Zenon, <1>1, <1>8 DEF Falling
    <2>2. \A i, j \in 1 .. k : i < j => LaterFirst(r[i], r[j], rank)
      BY Zenon, <1>3, <1>4, <2>1
    <2> QED BY Zenon, <2>2 DEF Falling, k
  <1> QED BY Zenon, <1>2, <1>5, <1>6, <1>7, <1>8 DEF Shrunk, KeepsOrder

\* serviceOne() takes the head, which no entry is smaller than.
LEMMA TailShrinks ==
    ASSUME NEW q \in Seq(Entries), q # <<>>
    PROVE  /\ Head(q) \in Elems(q) /\ Head(q) \in Entries
           /\ Shrunk(Tail(q), q, Head(q))
           /\ Sorted(q) => \A y \in Elems(q) : ~Less(y, Head(q))
           /\ \A rank : Falling(q, rank) => \A y \in Elems(Tail(q)) : LaterFirst(Head(q), y, rank)
  <1>1. /\ Tail(q) \in Seq(Entries) /\ Len(q) >= 1 /\ Len(q) \in Nat
        /\ Head(q) = q[1] /\ 1 \in 1 .. Len(q) /\ q[1] \in Entries
    OBVIOUS
  <1>2. Put(q, Tail(q), 0, Head(q)) /\ 0 \in 0 .. Len(Tail(q))
    BY DEF Put
  <1>3. Shrunk(Tail(q), q, Head(q))
    BY Zenon, <1>1, <1>2, PutShrinks
  <1>4. ASSUME Sorted(q), NEW y \in Elems(q) PROVE ~Less(y, q[1])
    <2>1. PICK i \in 1 .. Len(q) : y = q[i]
      BY Zenon DEF Elems
    <2>2. i = 1 \/ 1 < i
      OBVIOUS
    <2>3. CASE i = 1
      BY Zenon, <1>1, <2>1, <2>3, LessOrder
    <2>4. CASE 1 < i
      BY Zenon, <1>1, <1>4, <2>1, <2>4 DEF Sorted
    <2> QED BY Zenon, <2>2, <2>3, <2>4
  <1>5. ASSUME NEW rank, Falling(q, rank), NEW y \in Elems(Tail(q)) PROVE LaterFirst(Head(q), y, rank)
    <2>1. PICK i \in 1 .. Len(Tail(q)) : y = Tail(q)[i]
      BY Zenon DEF Elems
    <2>2. i + 1 \in 1 .. Len(q) /\ 1 < i + 1 /\ Tail(q)[i] = q[i + 1]
      OBVIOUS
    <2> QED BY Zenon, <1>1, <1>5, <2>1, <2>2 DEF Falling
  <1> QED BY Zenon, <1>1, <1>3, <1>4, <1>5 DEF Elems

\* remove() takes the event's entry, when it has one.
LEMMA WithoutShrinks ==
    ASSUME NEW q \in Seq(Entries), NEW e
    PROVE  /\ ~Has(q, e) => Without(q, e) = q
           /\ Has(q, e) => \E x \in Elems(q) : x.ev = e /\ Shrunk(Without(q, e), q, x)
  <1>1. ~Has(q, e) => Without(q, e) = q
    BY Zenon DEF Without
  <1>2. ASSUME Has(q, e) PROVE \E x \in Elems(q) : x.ev = e /\ Shrunk(Without(q, e), q, x)
    <2> DEFINE n == CHOOSE i \in 1 .. Len(q) : q[i].ev = e
               a == SubSeq(q, 1, n - 1)
               b == SubSeq(q, n + 1, Len(q))
               r == a \o b
    <2>1. n \in 1 .. Len(q) /\ q[n].ev = e
      BY Zenon, <1>2 DEF Has
    <2>2. Without(q, e) = r
      BY Zenon, <1>2 DEF Without
    <2> HIDE DEF n
    <2>3. n - 1 \in 0 .. Len(q) /\ n \in 1 .. Len(q) + 1 /\ n + 1 \in 1 .. Len(q) + 1 /\ Len(q) \in Nat
      BY <2>1
    <2>4. /\ a \in Seq(Entries) /\ Len(a) = n - 1
          /\ \A j \in 1 .. n - 1 : a[j] = q[j]
      BY <2>1, <2>3, Part
    <2>5. /\ b \in Seq(Entries) /\ Len(b) = Len(q) - n
          /\ \A j \in 1 .. Len(q) - n : b[j] = q[n + j]
      BY <2>1, <2>3, Part
    <2> HIDE DEF a, b
    <2>6. IsJoin(Entries, r, a, b)
      BY Zenon, <2>4, <2>5, Joined
    <2> HIDE DEF r
    <2>7. /\ r \in Seq(Entries) /\ Len(r) = Len(q) - 1
          /\ \A j \in 1 .. n - 1 : r[j] = q[j]
          /\ \A j \in 1 .. Len(q) - n : r[(n - 1) + j] = q[n + j]
      BY <2>3, <2>4, <2>5, <2>6 DEF IsJoin
    <2>8. ASSUME NEW j \in (n - 1) + 1 .. Len(r) PROVE q[j + 1] = r[j]
      <3>1. j - (n - 1) \in 1 .. Len(q) - n /\ (n - 1) + (j - (n - 1)) = j /\ n + (j - (n - 1)) = j + 1
        BY <2>3, <2>7
      <3> QED BY Zenon, <2>7, <3>1
    <2>9. Put(q, r, n - 1, q[n]) /\ n - 1 \in 0 .. Len(r)
      BY <2>1, <2>3, <2>7, <2>8 DEF Put
    <2>10. Shrunk(r, q, q[n])
      BY Zenon, <2>7, <2>9, PutShrinks
    <2> QED BY Zenon, <2>1, <2>2, <2>10 DEF Elems
  <1> QED BY Zenon, <1>1, <1>2

\* asyncInsert() adds the entry at the end.
LEMMA AppendGrows ==
    ASSUME NEW q \in Seq(Entries), NEW x \in Entries
    PROVE  Grown(Append(q, x), q, x)
  <1>1. Put(Append(q, x), q, Len(q), x) /\ Len(q) \in 0 .. Len(q)
    BY DEF Put
  <1> QED BY Zenon, <1>1, PutGrows

\* The queue q with the entries of a.
Union(r, q, a) ==
    /\ r \in Seq(Entries)
    /\ Elems(r) = Elems(q) \cup Elems(a)
    /\ \A e : Once(q, e) /\ Once(a, e) /\ ~(Has(q, e) /\ Has(a, e)) => Once(r, e)
    /\ Sorted(q) => Sorted(r)

\* handleAsyncInsertions() adds the entries of the async_queue, and only those.
LEMMA MergeUnites ==
    ASSUME Arithmetic, NEW q \in Seq(Entries), NEW a \in Seq(Entries)
    PROVE  Union(Merge(q, a), q, a)
  <1> DEFINE S(n) == {a[i] : i \in 1 .. n}
             Fits(e) == Once(q, e) /\ Once(a, e) /\ ~(Has(q, e) /\ Has(a, e))
             P(r, n) == /\ r \in Seq(Entries)
                        /\ Elems(r) = Elems(q) \cup S(n)
                        /\ \A e : Fits(e) => Once(r, e)
                        /\ Sorted(q) => Sorted(r)
  <1>1. PICK m : Steps(m, q, a) /\ Merge(q, a) = m[Len(a)]
    BY Zenon, MergeSteps
  <1> DEFINE T == {n \in 0 .. Len(a) : ~P(m[n], n)}
  <1>2. P(m[0], 0)
    <2>1. S(0) = {}
      OBVIOUS
    <2>2. m[0] = q
      BY Zenon, <1>1 DEF Steps
    <2> QED BY Zenon, <2>1, <2>2
  <1>3. ASSUME NEW n \in 1 .. Len(a), P(m[n - 1], n - 1) PROVE P(m[n], n)
    <2>1. m[n] = Insert(m[n - 1], a[n]) /\ a[n] \in Entries
      BY <1>1 DEF Steps
    <2>2. Grown(m[n], m[n - 1], a[n]) /\ (Sorted(m[n - 1]) => Sorted(m[n]))
      BY Zenon, <1>3, <2>1, InsertGrows
    <2>3. S(n) = S(n - 1) \cup {a[n]}
      OBVIOUS
    <2>4. ASSUME NEW e, Fits(e) PROVE Once(m[n], e)
      <3>1. Once(m[n - 1], e)
        BY Zenon, <1>3, <2>4
      <3>2. ASSUME a[n].ev = e, Has(m[n - 1], e) PROVE FALSE
        <4>1. PICK x \in Elems(q) \cup S(n - 1) : x.ev = e
          BY Zenon, <1>3, <3>2, HasElems
        <4>2. Has(a, e)
          BY Zenon, <3>2 DEF Has
        <4>3. x \notin Elems(q)
          BY Zenon, <2>4, <4>1, <4>2, HasElems
        <4>4. PICK i \in 1 .. n - 1 : x = a[i]
          BY Zenon, <4>1, <4>3
        <4>5. i \in 1 .. Len(a) /\ i # n
          OBVIOUS
        <4> QED BY Zenon, <2>4, <3>2, <4>1, <4>4, <4>5 DEF Once
      <3> QED BY Zenon, <2>2, <3>1, <3>2 DEF Grown
    <2>5. Elems(m[n]) = Elems(q) \cup S(n)
      <3>1. Elems(m[n]) = Elems(m[n - 1]) \cup {a[n]}
        BY Zenon, <2>2 DEF Grown
      <3>2. Elems(m[n - 1]) = Elems(q) \cup S(n - 1)
        BY Zenon, <1>3
      <3> HIDE DEF S
      <3> QED BY Zenon, <2>3, <3>1, <3>2
    <2> QED BY Zenon, <1>3, <2>2, <2>4, <2>5 DEF Grown
  <1> HIDE DEF P
  <1>4. P(m[Len(a)], Len(a))
    <2> SUFFICES ASSUME ~P(m[Len(a)], Len(a)) PROVE FALSE
      OBVIOUS
    <2>1. T \in SUBSET Nat /\ Len(a) \in T
      OBVIOUS
    <2>2. PICK n \in T : \A j \in T : n <= j
      <3> HIDE DEF T
      <3> QED BY Zenon, <2>1 DEF Arithmetic
    <2>3. n \in 0 .. Len(a) /\ ~P(m[n], n)
      OBVIOUS
    <2>4. n # 0
      BY Zenon, <1>2, <2>3
    <2>5. n \in 1 .. Len(a) /\ n - 1 \in 0 .. Len(a) /\ ~(n <= n - 1)
      BY <2>3, <2>4
    <2>6. P(m[n - 1], n - 1)
      BY Zenon, <2>2, <2>5
    <2> QED BY Zenon, <1>3, <2>3, <2>5, <2>6
  <1>5. S(Len(a)) = Elems(a)
    BY Zenon DEF Elems
  <1> QED BY Zenon, <1>1, <1>4, <1>5 DEF P, Union

\* Requests are in an async_queue in the order in which they were asked for.
Rising(a, rank) ==
    \A i, j \in 1 .. Len(a) :
        i < j /\ a[i].ev \in Requests /\ a[j].ev \in Requests => rank[a[i].ev] < rank[a[j].ev]

\* handleAsyncInsertions() turns that order round, as insert() does.
LEMMA MergeFalls ==
    ASSUME Arithmetic, NEW q \in Seq(Entries), NEW a \in Seq(Entries), NEW rank,
           Falling(q, rank), Rising(a, rank), \A x \in Elems(a) : Newest(x, q, rank)
    PROVE  Falling(Merge(q, a), rank)
  <1> DEFINE S(n) == {a[i] : i \in 1 .. n}
             P(r, n) == r \in Seq(Entries) /\ Elems(r) = Elems(q) \cup S(n) /\ Falling(r, rank)
  <1>1. PICK m : Steps(m, q, a) /\ Merge(q, a) = m[Len(a)]
    BY Zenon, MergeSteps
  <1> DEFINE T == {n \in 0 .. Len(a) : ~P(m[n], n)}
  <1>2. P(m[0], 0)
    <2>1. S(0) = {}
      OBVIOUS
    <2>2. m[0] = q
      BY Zenon, <1>1 DEF Steps
    <2> QED BY Zenon, <2>1, <2>2
  <1>3. ASSUME NEW n \in 1 .. Len(a), P(m[n - 1], n - 1) PROVE P(m[n], n)
    <2>1. m[n] = Insert(m[n - 1], a[n]) /\ a[n] \in Entries
      BY <1>1 DEF Steps
    <2>2. Grown(m[n], m[n - 1], a[n])
      BY Zenon, <1>3, <2>1, InsertGrows
    <2>3. S(n) = S(n - 1) \cup {a[n]}
      OBVIOUS
    <2>4. Newest(a[n], m[n - 1], rank)
      <3> SUFFICES ASSUME NEW y \in Elems(q) \cup S(n - 1), a[n].ev \in Requests, y.ev \in Requests
                   PROVE  rank[y.ev] < rank[a[n].ev]
        BY Zenon, <1>3 DEF Newest
      <3>1. CASE y \in Elems(q)
        BY Zenon, <3>1 DEF Newest, Elems
      <3>2. CASE y \in S(n - 1)
        <4>1. PICK i \in 1 .. n - 1 : y = a[i]
          BY Zenon, <3>2
        <4>2. i \in 1 .. Len(a) /\ i < n
          OBVIOUS
        <4> QED BY Zenon, <4>1, <4>2 DEF Rising
      <3> QED BY Zenon, <3>1, <3>2
    <2>5. Elems(m[n]) = Elems(q) \cup S(n)
      <3>1. Elems(m[n]) = Elems(m[n - 1]) \cup {a[n]}
        BY Zenon, <2>2 DEF Grown
      <3>2. Elems(m[n - 1]) = Elems(q) \cup S(n - 1)
        BY Zenon, <1>3
      <3> HIDE DEF S
      <3> QED BY Zenon, <2>3, <3>1, <3>2
    <2>6. Falling(m[n], rank)
      BY Zenon, <1>3, <2>1, <2>4, InsertFalls
    <2> QED BY Zenon, <2>2, <2>5, <2>6 DEF Grown
  <1> HIDE DEF P
  <1>4. P(m[Len(a)], Len(a))
    <2> SUFFICES ASSUME ~P(m[Len(a)], Len(a)) PROVE FALSE
      OBVIOUS
    <2>1. T \in SUBSET Nat /\ Len(a) \in T
      OBVIOUS
    <2>2. PICK n \in T : \A j \in T : n <= j
      <3> HIDE DEF T
      <3> QED BY Zenon, <2>1 DEF Arithmetic
    <2>3. n \in 0 .. Len(a) /\ ~P(m[n], n)
      OBVIOUS
    <2>4. n # 0
      BY Zenon, <1>2, <2>3
    <2>5. n \in 1 .. Len(a) /\ n - 1 \in 0 .. Len(a) /\ ~(n <= n - 1)
      BY <2>3, <2>4
    <2>6. P(m[n - 1], n - 1)
      BY Zenon, <2>2, <2>5
    <2> QED BY Zenon, <1>3, <2>3, <2>5, <2>6
  <1> QED BY Zenon, <1>1, <1>4 DEF P

-----------------------------------------------------------------------------
(* Where the threads are.                                                   *)

\* t runs the process() of a global event.
Worker(t) == pc[t] = "work" \/ (pc[t] \in {"lock", "insert"} /\ pend[t].ret = "arrive2")

\* t is between the two globalBarrier() calls of a barrier event, or in one of them.
InBarrier(t) == pc[t] \in {"wait1", "arrive2", "wait2"} \/ Worker(t)
Inside(t, g) == InBarrier(t) /\ cur[t] = g

\* t is inside BaseGlobalEvent::schedule().
Scheduling(t) == pc[t] \in {"lock", "insert"}

Types ==
    /\ evq \in [Threads -> Seq(Entries)] /\ asyncq \in [Threads -> Seq(Entries)]
    /\ curTick \in [Threads -> Ticks]
    /\ pc \in [Threads -> PCs]
    /\ cur \in [Threads -> Events]
    /\ pend \in [Threads -> [ev : Events, w : Ticks, i : Threads, ret : PCs]]
    /\ gen \in [Threads -> Generations]
    /\ generation \in [Barriers -> Generations]
    /\ numLeft \in [Barriers -> 1 .. N]
    /\ globalQMutex \in Threads \cup {NoThread}
    /\ scheduled \subseteq Locals
    /\ deleted \subseteq Globals

\* What a thread's place says of what it is doing.
Placed(t) ==
    /\ InBarrier(t) => cur[t] \in Globals
    /\ pc[t] = "flag" => pend[t].ev \in Locals /\ pend[t].ret = "process"
    /\ Scheduling(t) => \/ pend[t].ret = "process" /\ pend[t].ev \in Requests
                        \/ pend[t].ret = "arrive2" /\ pend[t].ev = Sync /\ cur[t] = Sync
    /\ pc[t] = "lock" => pend[t].i = 0
    /\ pc[t] = "python" => t = 0

Control == \A t \in Threads : Placed(t)

\* A step of t, which for the main thread may be one of Python.
Acts(t) == Step(t) \/ (t = 0 /\ Python)

\* Of the control state of the threads, a step changes only t's.
Only(t) ==
    \A u \in Threads \ {t} :
        pc'[u] = pc[u] /\ cur'[u] = cur[u] /\ pend'[u] = pend[u] /\ gen'[u] = gen[u]

\* Every operation on a queue makes a queue.
LEMMA QueueTypes ==
    ASSUME Arithmetic, NEW q \in Seq(Entries)
    PROVE  /\ \A x \in Entries : Insert(q, x) \in Seq(Entries) /\ Append(q, x) \in Seq(Entries)
           /\ \A a \in Seq(Entries) : Merge(q, a) \in Seq(Entries)
           /\ \A e : Without(q, e) \in Seq(Entries)
           /\ q # <<>> => Head(q) \in Entries /\ Tail(q) \in Seq(Entries)
  <1>1. ASSUME NEW x \in Entries PROVE Insert(q, x) \in Seq(Entries) /\ Append(q, x) \in Seq(Entries)
    BY Zenon, InsertGrows, AppendGrows DEF Grown
  <1>2. ASSUME NEW a \in Seq(Entries) PROVE Merge(q, a) \in Seq(Entries)
    BY Zenon, MergeUnites DEF Union
  <1>3. ASSUME NEW e PROVE Without(q, e) \in Seq(Entries)
    <2>1. CASE Has(q, e)
      BY Zenon, <2>1, WithoutShrinks DEF Shrunk
    <2>2. CASE ~Has(q, e)
      <3>1. Without(q, e) = q
        BY Zenon, <2>2, WithoutShrinks
      <3> QED BY Zenon, <3>1
    <2> QED BY Zenon, <2>1, <2>2
  <1>4. q # <<>> => Head(q) \in Entries /\ Tail(q) \in Seq(Entries)
    BY Zenon, TailShrinks DEF Shrunk
  <1> QED BY Zenon, <1>1, <1>2, <1>3, <1>4

\* The constants, as the proofs use them.
LEMMA Constants ==
    /\ N \in Nat /\ N > 1 /\ 0 \in Threads /\ Threads \subseteq Nat /\ NoThread \notin Threads
    /\ Sync \in Globals /\ Limit \in Globals /\ Sync # Limit /\ Requests \subseteq Globals
    /\ Sync \notin Requests /\ Limit \notin Requests
    /\ Globals \subseteq Events /\ Locals \subseteq Events /\ Locals \cap Globals = {}
    /\ Globals \subseteq Barriers /\ ThreadBarrier \in Barriers /\ ThreadBarrier \notin Globals
    /\ Quantum \in Nat /\ Quantum > 0 /\ LastTick \in Nat
    /\ \A e \in Locals : From[e] \in Threads /\ To[e] \in Threads
    /\ \A e \in Events : Priority[e] \in Int
    /\ Limit \in ExitEvents /\ ExitEvents \subseteq Globals /\ Sync \notin ExitEvents
    /\ \A e \in Events, w \in Ticks : Entry(e, w) \in Entries /\ Entry(e, w).ev = e /\ Entry(e, w).w = w
  <1>1. N \in Nat /\ N > 1 /\ 0 \in Threads /\ Threads \subseteq Nat /\ NoThread \notin Threads
    BY ParallelAssumption DEF Threads, NoThread
  <1>2. \A e \in Events, w \in Ticks : Entry(e, w) \in Entries /\ Entry(e, w).ev = e /\ Entry(e, w).w = w
    BY Zenon DEF Entry, Entries
  <1>3. \A e \in Locals : From[e] \in Threads /\ To[e] \in Threads
    BY Zenon, ParallelAssumption
  <1>4. \A e \in Events : Priority[e] \in Int
    BY Zenon, ParallelAssumption
  <1>5. Sync \notin Requests /\ Limit \notin Requests
    BY Zenon, ParallelAssumption
  <1>6. Quantum \in Nat /\ Quantum > 0 /\ LastTick \in Nat
    BY ParallelAssumption
  <1> QED BY Zenon, <1>1, <1>2, <1>3, <1>4, <1>5, <1>6, ParallelAssumption DEF Globals, Events, Barriers

\* The effect on the queues, for any thread that schedules.
LEMMA ScheduleTypes ==
    ASSUME Arithmetic, Types, NEW t, NEW u \in Threads, NEW x \in Entries, NEW global,
           schedule(t, u, x, global)
    PROVE  evq' \in [Threads -> Seq(Entries)] /\ asyncq' \in [Threads -> Seq(Entries)]
  <1>1. Insert(evq[u], x) \in Seq(Entries) /\ Append(asyncq[u], x) \in Seq(Entries)
    BY Zenon, QueueTypes DEF Types
  <1> QED BY Zenon, <1>1 DEF Types, schedule

\* handleAsyncInsertions() leaves well-typed queues.
LEMMA HandleTypes ==
    ASSUME Arithmetic, Types, NEW t \in Threads, handleAsyncInsertions(t)
    PROVE  evq' \in [Threads -> Seq(Entries)] /\ asyncq' \in [Threads -> Seq(Entries)]
  <1>1. Merge(evq[t], asyncq[t]) \in Seq(Entries)
    BY Zenon, QueueTypes DEF Types
  <1>2. <<>> \in Seq(Entries)
    OBVIOUS
  <1> QED BY Zenon, <1>1, <1>2 DEF Types, handleAsyncInsertions

\* Barrier::wait() leaves a well-typed barrier.
LEMMA WaitTypes ==
    ASSUME Types, NEW t \in Threads, NEW b \in Barriers, NEW l \in PCs, NEW o \in PCs, wait(t, b, l, o)
    PROVE  /\ gen' \in [Threads -> Generations] /\ generation' \in [Barriers -> Generations]
           /\ numLeft' \in [Barriers -> 1 .. N] /\ pc' \in [Threads -> PCs]
  <1>0. generation[b] \in Generations /\ numLeft[b] \in 1 .. N /\ N \in Nat /\ N > 1
    BY Zenon, Constants DEF Types
  <1>1. /\ generation[b] \in Generations /\ 1 - generation[b] \in Generations
        /\ numLeft[b] # 1 => numLeft[b] - 1 \in 1 .. N
        /\ N \in 1 .. N
    BY ONLY <1>0 DEF Generations
  <1> QED BY Zenon, <1>1 DEF Types, wait

\* Every step keeps the types.
LEMMA TypesStep ==
    ASSUME Arithmetic, Types, Control, NEW t \in Threads, Acts(t)
    PROVE  Types'
  <1> USE Constants
  <1>0. /\ \A d \in LocalDelays \cup AsyncDelays \cup RequestDelays, u \in Threads : curTick[u] + d \in Ticks
        /\ \A d \in RequestDelays, u \in Threads : curTick[u] + d + Quantum \in Ticks
        /\ \A u \in Threads : curTick[u] + Quantum \in Ticks
    <2>1. \A u \in Threads : curTick[u] \in Nat
      BY Zenon DEF Types, Ticks
    <2>2. \A d \in LocalDelays \cup AsyncDelays \cup RequestDelays : d \in Nat
      BY Zenon, DelaysAssumption DEF Ticks
    <2>3. Quantum \in Nat
      BY Zenon
    <2> QED BY ONLY <2>1, <2>2, <2>3 DEF Ticks
  <1>1. CASE \E n \in Cycles : Simulate(n)
    <2>1. PICK n \in Cycles : Simulate(n)
      BY Zenon, <1>1
    <2> DEFINE limit == IF n < LastTick - curTick[0] THEN curTick[0] + n ELSE LastTick
    <2>2. limit \in Ticks /\ curTick[0] + Quantum \in Ticks
      <3>1. curTick[0] \in Nat /\ n \in Nat /\ LastTick \in Nat /\ Quantum \in Nat
        BY Zenon, DelaysAssumption DEF Types, Ticks
      <3> QED BY ONLY <3>1 DEF Ticks
    <2> DEFINE q(u) == Insert(Insert(Without(evq[u], Limit), Entry(Limit, limit)), Entry(Sync, curTick[0] + Quantum))
    <2>3. ASSUME NEW u \in Threads PROVE q(u) \in Seq(Entries)
      <3> HIDE DEF limit
      <3>1. evq[u] \in Seq(Entries)
        BY Zenon DEF Types
      <3>2. Entry(Limit, limit) \in Entries /\ Entry(Sync, curTick[0] + Quantum) \in Entries
        BY Zenon, <2>2
      <3> QED BY Zenon, <3>1, <3>2, QueueTypes
    <2>4. evq' = [u \in Threads |-> q(u)]
      BY Zenon, <2>1 DEF Simulate
    <2> HIDE DEF q
    <2>5. evq' \in [Threads -> Seq(Entries)]
      BY Zenon, <2>3, <2>4
    <2> QED BY Zenon, <2>1, <2>5 DEF Types, Simulate, barriers, PCs
  <1>2. CASE \E e \in Locals, d \in LocalDelays : Startup(e, d)
    <2>1. PICK e \in Locals, d \in LocalDelays : Startup(e, d)
      BY Zenon, <1>2
    <2>2. To[e] \in Threads /\ Entry(e, curTick[To[e]] + d) \in Entries
      BY Zenon, <1>0
    <2>3. evq' \in [Threads -> Seq(Entries)] /\ asyncq' \in [Threads -> Seq(Entries)]
      BY Zenon, <2>1, <2>2, ScheduleTypes DEF Startup
    <2> QED BY Zenon, <2>1, <2>3 DEF Types, Startup, barriers
  <1>3. CASE ThreadWait(t)
    <2>1. /\ gen' \in [Threads -> Generations] /\ generation' \in [Barriers -> Generations]
          /\ numLeft' \in [Barriers -> 1 .. N] /\ pc' \in [Threads -> PCs]
      <3>1. "enter" \in PCs /\ "threadWait" \in PCs
        BY Zenon DEF PCs
      <3> QED BY Zenon, <1>3, <3>1, WaitTypes DEF ThreadWait
    <2> QED BY Zenon, <1>3, <2>1 DEF Types, ThreadWait, queues
  <1>4. CASE ThreadReleased(t)
    BY Zenon, <1>4 DEF Types, ThreadReleased, queues, barriers, PCs
  <1>5. CASE EnterLoop(t)
    <2>1. evq' \in [Threads -> Seq(Entries)] /\ asyncq' \in [Threads -> Seq(Entries)]
      BY Zenon, <1>5, HandleTypes DEF EnterLoop
    <2> QED BY Zenon, <1>5, <2>1 DEF Types, EnterLoop, barriers, PCs
  <1>6. CASE ServiceOne(t)
    <2> DEFINE x == Head(evq[t])
    <2>1. x \in Entries /\ Tail(evq[t]) \in Seq(Entries)
      BY Zenon, <1>6, QueueTypes DEF ServiceOne, Types
    <2>2. x.ev \in Events /\ x.w \in Ticks
      BY Zenon, <2>1 DEF Entries
    <2> HIDE DEF x
    <2>3. /\ evq' \in [Threads -> Seq(Entries)] /\ curTick' \in [Threads -> Ticks]
          /\ cur' \in [Threads -> Events] /\ scheduled' \subseteq Locals
      <3>1. /\ evq' = [evq EXCEPT ![t] = Tail(evq[t])] /\ curTick' = [curTick EXCEPT ![t] = x.w]
            /\ cur' = [cur EXCEPT ![t] = x.ev] /\ scheduled' = scheduled \ {x.ev}
        BY Zenon, <1>6 DEF ServiceOne, x
      <3> QED BY Zenon, <2>1, <2>2, <3>1 DEF Types
    <2>4. /\ gen' \in [Threads -> Generations] /\ generation' \in [Barriers -> Generations]
          /\ numLeft' \in [Barriers -> 1 .. N] /\ pc' \in [Threads -> PCs]
      <3>1. CASE x.ev \in Locals
        <4>1. "process" \in PCs
          BY Zenon DEF PCs
        <4>2. pc' = [pc EXCEPT ![t] = "process"] /\ UNCHANGED barriers
          BY Zenon, <1>6, <3>1 DEF ServiceOne, x
        <4> QED BY Zenon, <4>1, <4>2 DEF Types, barriers
      <3>2. CASE x.ev \notin Locals
        <4>1. "work" \in PCs /\ "wait1" \in PCs
          BY Zenon DEF PCs
        <4>2. x.ev \in Barriers
          BY Zenon, <2>2, <3>2 DEF Events
        <4>3. wait(t, x.ev, "work", "wait1")
          BY Zenon, <1>6, <3>2 DEF ServiceOne, x
        <4> QED BY Zenon, <4>1, <4>2, <4>3, WaitTypes
      <3> QED BY Zenon, <3>1, <3>2
    <2> QED BY Zenon, <1>6, <2>3, <2>4 DEF Types, ServiceOne
  <1>7. CASE LeaveLoop(t)
    <2>1. \A u \in Threads : Without(evq[u], Sync) \in Seq(Entries)
      BY Zenon, QueueTypes DEF Types
    <2>2. evq' \in [Threads -> Seq(Entries)]
      <3>1. \/ evq' = evq
            \/ evq' = [u \in Threads |-> Without(evq[u], Sync)]
        BY Zenon, <1>7 DEF LeaveLoop
      <3>2. evq \in [Threads -> Seq(Entries)]
        BY Zenon DEF Types
      <3> QED BY ONLY <2>1, <3>1, <3>2
    <2>3. deleted' \subseteq Globals
      <3>1. deleted \subseteq Globals
        BY Zenon DEF Types
      <3>2. deleted' = deleted \/ deleted' = deleted \cup {Sync}
        BY Zenon, <1>7 DEF LeaveLoop
      <3> QED BY Zenon, <3>1, <3>2
    <2>4. pc' \in [Threads -> PCs]
      <3>1. "python" \in PCs /\ "thread" \in PCs
        BY Zenon DEF PCs
      <3>2. pc' = [pc EXCEPT ![t] = "python"] \/ pc' = [pc EXCEPT ![t] = "thread"]
        BY Zenon, <1>7 DEF LeaveLoop
      <3>3. pc \in [Threads -> PCs]
        BY Zenon DEF Types
      <3>4. [pc EXCEPT ![t] = "python"] \in [Threads -> PCs] /\ [pc EXCEPT ![t] = "thread"] \in [Threads -> PCs]
        BY ONLY <3>1, <3>3
      <3> QED BY Zenon, <3>2, <3>4
    <2> QED BY Zenon, <1>7, <2>2, <2>3, <2>4 DEF Types, LeaveLoop, barriers
  <1>8. CASE \E e \in Locals, d \in LocalDelays : ScheduleOwn(t, e, d)
    <2>1. PICK e \in Locals, d \in LocalDelays : ScheduleOwn(t, e, d)
      BY Zenon, <1>8
    <2>2. Entry(e, curTick[t] + d) \in Entries
      BY Zenon, <1>0
    <2>3. evq' \in [Threads -> Seq(Entries)] /\ asyncq' \in [Threads -> Seq(Entries)]
      BY Zenon, <2>1, <2>2, ScheduleTypes DEF ScheduleOwn
    <2> QED BY Zenon, <2>1, <2>3 DEF Types, ScheduleOwn, barriers
  <1>9. CASE \E e \in Locals, d \in AsyncDelays : Send(t, e, d)
    <2>1. PICK e \in Locals, d \in AsyncDelays : Send(t, e, d)
      BY Zenon, <1>9
    <2>2. Entry(e, curTick[t] + d) \in Entries /\ curTick[t] + d \in Ticks /\ To[e] \in Threads /\ e \in Events
      BY Zenon, <1>0
    <2>3. evq' \in [Threads -> Seq(Entries)] /\ asyncq' \in [Threads -> Seq(Entries)]
      BY Zenon, <2>1, <2>2, ScheduleTypes DEF Send
    <2> QED BY Zenon, <2>1, <2>2, <2>3 DEF Types, Send, barriers, PCs
  <1>10. CASE SetFlag(t)
    <2>1. pend[t].ev \in Locals
      BY Zenon, <1>10 DEF Control, Placed, SetFlag
    <2>2. scheduled' \subseteq Locals
      <3>1. scheduled \subseteq Locals
        BY Zenon DEF Types
      <3>2. scheduled' = scheduled \cup {pend[t].ev}
        BY Zenon, <1>10 DEF SetFlag
      <3> QED BY Zenon, <2>1, <3>1, <3>2
    <2>3. pc' \in [Threads -> PCs]
      BY Zenon, <1>10 DEF Types, SetFlag
    <2> QED BY Zenon, <1>10, <2>2, <2>3 DEF Types, SetFlag, barriers
  <1>11. CASE \E g \in Requests, d \in RequestDelays : Request(t, g, d)
    <2>1. PICK g \in Requests, d \in RequestDelays : Request(t, g, d)
      BY Zenon, <1>11
    <2>2. curTick[t] + d + Quantum \in Ticks /\ g \in Events
      BY Zenon, <1>0
    <2>3. pend' \in [Threads -> [ev : Events, w : Ticks, i : Threads, ret : PCs]] /\ pc' \in [Threads -> PCs]
      <3>1. /\ pend' = [pend EXCEPT ![t] = [ev |-> g, w |-> curTick[t] + d + Quantum, i |-> 0, ret |-> "process"]]
            /\ pc' = [pc EXCEPT ![t] = "lock"]
        BY Zenon, <2>1 DEF Request
      <3>2. "process" \in PCs /\ "lock" \in PCs /\ 0 \in Threads
        BY Zenon, Constants DEF PCs
      <3>3. pend \in [Threads -> [ev : Events, w : Ticks, i : Threads, ret : PCs]] /\ pc \in [Threads -> PCs]
        BY Zenon DEF Types
      <3>4. [ev |-> g, w |-> curTick[t] + d + Quantum, i |-> 0, ret |-> "process"]
                \in [ev : Events, w : Ticks, i : Threads, ret : PCs]
        BY ONLY <2>2, <3>2
      <3> QED BY Zenon, <3>1, <3>2, <3>3, <3>4
    <2>4. deleted' \subseteq Globals
      BY Zenon, <2>1 DEF Types, Request
    <2> QED BY Zenon, <2>1, <2>3, <2>4 DEF Types, Request, queues, barriers
  <1>12. CASE ProcessReturns(t)
    BY Zenon, <1>12 DEF Types, ProcessReturns, queues, barriers, PCs
  <1>13. CASE LockGlobalQ(t)
    BY Zenon, <1>13 DEF Types, LockGlobalQ, queues, barriers, PCs
  <1>14. CASE InsertGlobal(t)
    <2> DEFINE p == pend[t]
    <2>1. p \in [ev : Events, w : Ticks, i : Threads, ret : PCs]
      BY Zenon DEF Types
    <2>2. /\ Entry(p.ev, p.w) \in Entries /\ p.i \in Threads /\ p.ret \in PCs
          /\ p.i < N - 1 => p.i + 1 \in Threads
      BY <2>1 DEF Threads
    <2>3. evq' \in [Threads -> Seq(Entries)] /\ asyncq' \in [Threads -> Seq(Entries)]
      BY Zenon, <1>14, <2>2, ScheduleTypes DEF InsertGlobal
    <2>4. /\ pend' \in [Threads -> [ev : Events, w : Ticks, i : Threads, ret : PCs]]
          /\ pc' \in [Threads -> PCs] /\ globalQMutex' \in Threads \cup {NoThread}
      <3>1. CASE p.i < N - 1
        <4>1. [p EXCEPT !.i = p.i + 1] \in [ev : Events, w : Ticks, i : Threads, ret : PCs]
          BY Zenon, <2>1, <2>2, <3>1
        <4>2. pend' = [pend EXCEPT ![t] = [p EXCEPT !.i = p.i + 1]] /\ UNCHANGED <<pc, globalQMutex>>
          BY Zenon, <1>14, <3>1 DEF InsertGlobal
        <4> QED BY Zenon, <4>1, <4>2 DEF Types
      <3>2. CASE ~(p.i < N - 1)
        <4>1. pend' = pend /\ pc' = [pc EXCEPT ![t] = p.ret] /\ globalQMutex' = NoThread
          BY Zenon, <1>14, <3>2 DEF InsertGlobal
        <4> QED BY Zenon, <2>2, <4>1 DEF Types
      <3> QED BY Zenon, <3>1, <3>2
    <2> QED BY Zenon, <1>14, <2>3, <2>4 DEF Types, InsertGlobal, barriers
  <1>15. CASE Work(t)
    <2>1. curTick[t] + Quantum \in Ticks /\ Sync \in Events
      BY Zenon, <1>0
    <2>2. pend' \in [Threads -> [ev : Events, w : Ticks, i : Threads, ret : PCs]] /\ pc' \in [Threads -> PCs]
      <3>1. CASE cur[t] = Sync
        <4>1. [ev |-> Sync, w |-> curTick[t] + Quantum, i |-> 0, ret |-> "arrive2"]
                \in [ev : Events, w : Ticks, i : Threads, ret : PCs]
          BY Zenon, <2>1 DEF PCs
        <4>2. /\ pend' = [pend EXCEPT ![t] = [ev |-> Sync, w |-> curTick[t] + Quantum, i |-> 0, ret |-> "arrive2"]]
              /\ pc' = [pc EXCEPT ![t] = "lock"]
          BY Zenon, <1>15, <3>1 DEF Work, RunProcess
        <4>3. "lock" \in PCs
          BY Zenon DEF PCs
        <4> QED BY Zenon, <4>1, <4>2, <4>3 DEF Types
      <3>2. CASE cur[t] # Sync
        <4>1. pend' = pend /\ pc' = [pc EXCEPT ![t] = "arrive2"]
          BY Zenon, <1>15, <3>2 DEF Work, RunProcess
        <4>2. "arrive2" \in PCs
          BY Zenon DEF PCs
        <4> QED BY Zenon, <4>1, <4>2 DEF Types
      <3> QED BY Zenon, <3>1, <3>2
    <2> QED BY Zenon, <1>15, <2>2 DEF Types, Work, RunProcess, queues, barriers
  <1>16. CASE Released1(t)
    BY Zenon, <1>16 DEF Types, Released1, queues, barriers, PCs
  <1>17. CASE Arrive2(t)
    <2>1. "wait2" \in PCs /\ cur[t] \in Barriers
      BY Zenon, <1>17 DEF PCs, Control, Placed, Arrive2, InBarrier
    <2>2. /\ gen' \in [Threads -> Generations] /\ generation' \in [Barriers -> Generations]
          /\ numLeft' \in [Barriers -> 1 .. N] /\ pc' \in [Threads -> PCs]
      BY Zenon, <1>17, <2>1, WaitTypes DEF Arrive2
    <2> QED BY Zenon, <1>17, <2>2 DEF Types, Arrive2, queues
  <1>18. CASE Return(t)
    <2>1. evq' \in [Threads -> Seq(Entries)] /\ asyncq' \in [Threads -> Seq(Entries)]
      <3>1. CASE cur[t] = Sync
        BY Zenon, <1>18, <3>1, HandleTypes DEF Return
      <3>2. CASE cur[t] # Sync
        <4>1. UNCHANGED <<evq, asyncq>>
          BY Zenon, <1>18, <3>2 DEF Return
        <4> QED BY Zenon, <4>1 DEF Types
      <3> QED BY Zenon, <3>1, <3>2
    <2>2. deleted' \subseteq Globals
      BY <1>18 DEF Return, Types, Control, Placed, InBarrier
    <2> QED BY Zenon, <1>18, <2>1, <2>2 DEF Types, Return, barriers, PCs
  <1> QED BY Zenon, <1>1, <1>2, <1>3, <1>4, <1>5, <1>6, <1>7, <1>8, <1>9, <1>10, <1>11, <1>12,
             <1>13, <1>14, <1>15, <1>16, <1>17, <1>18 DEF Acts, Step, Python

\* The places of a thread outside doSimLoop(), except threadBarrier.
Ashore(t) == pc[t] \in {"python", "exit", "thread"}

\* A step of t outside the barrier events.
Outer(t) ==
    /\ ~InBarrier(t) /\ ~InBarrier(t)'
    /\ \/ /\ UNCHANGED barriers /\ ~BlockedOn(t, ThreadBarrier) /\ ~BlockedOn(t, ThreadBarrier)'
          /\ Ashore(t)' <=> Ashore(t)
          /\ pc[t] \in {"threadWait", "enter"} => pc'[t] = "enter" \/ EnterLoop(t)
       \/ ThreadWait(t)

\* A step of t between the two barriers of a global event.
Inner(t) ==
    /\ cur'[t] = cur[t] /\ UNCHANGED barriers
    /\ Worker(t) \/ (pc[t] = "wait1" /\ Released(t, cur[t]))
    /\ pc'[t] = "arrive2" \/ (Worker(t) /\ Worker(t)')

\* t arrives at the first barrier of a global event.
Arrive1(t) ==
    /\ pc[t] = "loop" /\ cur'[t] \in Globals
    /\ wait(t, cur'[t], "work", "wait1")

\* What a step does to the place of its thread, and that it leaves the others where they are.
Moves(t) ==
    /\ Only(t) /\ Placed(t)'
    /\ Outer(t) \/ Inner(t) \/ Arrive1(t) \/ Arrive2(t) \/ Return(t)

\* Where the main thread is after a step outside simulate().
LEMMA PythonMoves ==
    ASSUME Types, Control, Python
    PROVE  Moves(0)
  <1>0. 0 \in Threads /\ Placed(0) /\ pc \in [Threads -> PCs]
    BY Zenon, Constants DEF Types, Control
  <1>1. ASSUME NEW n \in Cycles, Simulate(n) PROVE Moves(0)
    BY Zenon, <1>0, <1>1 DEF Simulate, Moves, Only, Placed, Outer, Ashore, InBarrier, Worker, Scheduling, BlockedOn, Released, barriers
  <1>2. ASSUME NEW e \in Locals, NEW d \in LocalDelays, Startup(e, d) PROVE Moves(0)
    BY Zenon, <1>0, <1>2 DEF Startup, Moves, Only, Placed, Outer, Ashore, InBarrier, Worker, Scheduling, BlockedOn, Released, barriers
  <1> QED BY Zenon, <1>1, <1>2 DEF Python

\* Where a thread is after a step inside simulate().
LEMMA StepMoves ==
    ASSUME Arithmetic, Types, Control, NEW t \in Threads, Step(t)
    PROVE  Moves(t)
  <1>0. /\ Placed(t) /\ pc \in [Threads -> PCs] /\ cur \in [Threads -> Events] /\ gen \in [Threads -> Generations]
        /\ pend \in [Threads -> [ev : Events, w : Ticks, i : Threads, ret : PCs]]
    BY Zenon DEF Types, Control
  <1>3. CASE ThreadWait(t)
    BY Zenon, <1>0, <1>3 DEF ThreadWait, wait, Moves, Only, Placed, Outer, Ashore, InBarrier, Worker, Scheduling
  <1>4. CASE ThreadReleased(t)
    BY Zenon, <1>0, <1>4 DEF ThreadReleased, Moves, Only, Placed, Outer, Ashore, InBarrier, Worker, Scheduling, BlockedOn, Released, barriers
  <1>5. CASE EnterLoop(t)
    BY Zenon, <1>0, <1>5 DEF EnterLoop, Moves, Only, Placed, Outer, Ashore, InBarrier, Worker, Scheduling, BlockedOn, Released, barriers
  <1>6. CASE ServiceOne(t)
    <2> DEFINE x == Head(evq[t])
    <2>1. x \in Entries
      BY Zenon, <1>6, QueueTypes DEF ServiceOne, Types
    <2>2. x.ev \in Locals \/ x.ev \in Globals
      BY Zenon, <2>1 DEF Entries, Events
    <2>3. pc[t] = "loop" /\ cur'[t] = x.ev /\ Only(t) /\ pend' = pend
      BY Zenon, <1>0, <1>6 DEF ServiceOne, Only, wait, barriers
    <2>4. CASE x.ev \in Locals
      <3>1. UNCHANGED barriers /\ pc'[t] = "process"
        BY Zenon, <1>0, <1>6, <2>4 DEF ServiceOne
      <3> QED BY Zenon, <1>0, <2>3, <3>1 DEF Moves, Placed, Outer, Ashore, InBarrier, Worker, Scheduling, BlockedOn
    <2>5. CASE x.ev \in Globals
      <3>1. wait(t, x.ev, "work", "wait1")
        BY Zenon, <1>6, <2>5, Constants DEF ServiceOne
      <3>2. pc'[t] \in {"work", "wait1"}
        BY Zenon, <1>0, <3>1 DEF wait
      <3>3. Placed(t)'
        BY Zenon, <1>0, <2>3, <2>5, <3>2 DEF Placed, InBarrier, Worker, Scheduling
      <3> QED BY Zenon, <2>3, <2>5, <3>1, <3>3 DEF Moves, Arrive1
    <2> QED BY Zenon, <2>2, <2>4, <2>5
  <1>7. CASE LeaveLoop(t)
    BY Zenon, <1>0, <1>7 DEF LeaveLoop, Moves, Only, Placed, Outer, Ashore, InBarrier, Worker, Scheduling, BlockedOn, Released, barriers
  <1>8. ASSUME NEW e \in Locals, NEW d \in LocalDelays, ScheduleOwn(t, e, d) PROVE Moves(t)
    BY Zenon, <1>0, <1>8 DEF ScheduleOwn, Moves, Only, Placed, Outer, Ashore, InBarrier, Worker, Scheduling, BlockedOn, Released, barriers
  <1>9. ASSUME NEW e \in Locals, NEW d \in AsyncDelays, Send(t, e, d) PROVE Moves(t)
    BY Zenon, <1>0, <1>9 DEF Send, Moves, Only, Placed, Outer, Ashore, InBarrier, Worker, Scheduling, BlockedOn, Released, barriers
  <1>10. CASE SetFlag(t)
    BY Zenon, <1>0, <1>10 DEF SetFlag, Moves, Only, Placed, Outer, Ashore, InBarrier, Worker, Scheduling, BlockedOn, Released, barriers
  <1>11. ASSUME NEW g \in Requests, NEW d \in RequestDelays, Request(t, g, d) PROVE Moves(t)
    BY Zenon, <1>0, <1>11 DEF Request, Moves, Only, Placed, Outer, Ashore, InBarrier, Worker, Scheduling, BlockedOn, Released, barriers
  <1>12. CASE ProcessReturns(t)
    BY Zenon, <1>0, <1>12 DEF ProcessReturns, Moves, Only, Placed, Outer, Ashore, InBarrier, Worker, Scheduling, BlockedOn, Released, barriers
  <1>13. CASE LockGlobalQ(t)
    BY Zenon, <1>0, <1>13 DEF LockGlobalQ, Moves, Only, Placed, Outer, Ashore, Inner, InBarrier, Worker, Scheduling, BlockedOn, Released, barriers
  <1>14. CASE InsertGlobal(t)
    BY <1>0, <1>14 DEF InsertGlobal, Moves, Only, Placed, Outer, Ashore, Inner, InBarrier, Worker, Scheduling, BlockedOn, Released, barriers
  <1>15. CASE Work(t)
    BY <1>0, <1>15 DEF Work, RunProcess, Moves, Only, Placed, Outer, Ashore, Inner, InBarrier, Worker, Scheduling, BlockedOn, Released, barriers
  <1>16. CASE Released1(t)
    BY Zenon, <1>0, <1>16 DEF Released1, Moves, Only, Placed, Outer, Ashore, Inner, InBarrier, Worker, Scheduling, BlockedOn, Released, barriers
  <1>17. CASE Arrive2(t)
    BY Zenon, <1>0, <1>17 DEF Arrive2, wait, Moves, Only, Placed, InBarrier, Worker, Scheduling
  <1>18. CASE Return(t)
    BY Zenon, <1>0, <1>18 DEF Return, Moves, Only, Placed, InBarrier, Worker, Scheduling, BlockedOn, Released, barriers
  <1> QED BY Zenon, <1>3, <1>4, <1>5, <1>6, <1>7, <1>8, <1>9, <1>10, <1>11, <1>12,
             <1>13, <1>14, <1>15, <1>16, <1>17, <1>18 DEF Step

\* A step moves one thread, in one of five ways.
LEMMA ActsMoves ==
    ASSUME Arithmetic, Types, Control, NEW t \in Threads, Acts(t)
    PROVE  Moves(t)
  BY Zenon, PythonMoves, StepMoves DEF Acts

\* Every step leaves the threads in places that fit their registers.
LEMMA ControlStep ==
    ASSUME Arithmetic, Types, Control, NEW t \in Threads, Acts(t)
    PROVE  Control'
  <1>1. Only(t) /\ Placed(t)'
    BY Zenon, ActsMoves DEF Moves
  <1>2. ASSUME NEW u \in Threads, u # t PROVE Placed(u)'
    <2>1. pc'[u] = pc[u] /\ cur'[u] = cur[u] /\ pend'[u] = pend[u] /\ Placed(u)
      BY Zenon, <1>1, <1>2 DEF Only, Control
    <2> QED BY Zenon, <2>1 DEF Placed, InBarrier, Worker, Scheduling
  <1> QED BY Zenon, <1>1, <1>2 DEF Control

-----------------------------------------------------------------------------
(* Barriers.                                                                *)

\* t waits in the first barrier of g for the others; t is between the two, or
\* waits in the second for the others; t may leave the second.
Pre(t, g) == cur[t] = g /\ pc[t] = "wait1" /\ gen[t] = generation[g]
Post(t, g) == cur[t] = g /\ pc[t] = "wait2" /\ gen[t] # generation[g]
Mid(t, g) == Inside(t, g) /\ ~Pre(t, g) /\ ~Post(t, g)

\* t keeps its place in every global event.
SamePlace(t) ==
    \A g \in Globals : (Pre(t, g)' <=> Pre(t, g)) /\ (Mid(t, g)' <=> Mid(t, g)) /\ (Post(t, g)' <=> Post(t, g))

\* t waits for the same threads.
SameWait(t) == \A b \in Barriers : BlockedOn(t, b)' <=> BlockedOn(t, b)

\* Threads that do not move see a barrier open only through its generation.
LEMMA OthersKept ==
    ASSUME NEW t, Only(t), NEW u \in Threads \ {t}
    PROVE  /\ \A g \in Globals : generation'[g] = generation[g] =>
                (Pre(u, g)' <=> Pre(u, g)) /\ (Mid(u, g)' <=> Mid(u, g)) /\ (Post(u, g)' <=> Post(u, g))
           /\ \A b \in Barriers : generation'[b] = generation[b] => (BlockedOn(u, b)' <=> BlockedOn(u, b))
           /\ Worker(u)' <=> Worker(u)
           /\ \A g : Inside(u, g)' <=> Inside(u, g)
  <1>1. pc'[u] = pc[u] /\ cur'[u] = cur[u] /\ pend'[u] = pend[u] /\ gen'[u] = gen[u]
    BY Zenon DEF Only
  <1>2. (Worker(u)' <=> Worker(u)) /\ \A g : Inside(u, g)' <=> Inside(u, g)
    BY Zenon, <1>1 DEF Worker, Inside, InBarrier
  <1>3. ASSUME NEW g \in Globals, generation'[g] = generation[g]
        PROVE  (Pre(u, g)' <=> Pre(u, g)) /\ (Mid(u, g)' <=> Mid(u, g)) /\ (Post(u, g)' <=> Post(u, g))
    BY Zenon, <1>1, <1>2, <1>3 DEF Pre, Mid, Post
  <1>4. ASSUME NEW b \in Barriers, generation'[b] = generation[b]
        PROVE  BlockedOn(u, b)' <=> BlockedOn(u, b)
    BY Zenon, <1>1, <1>4 DEF BlockedOn, Released
  <1> QED BY Zenon, <1>2, <1>3, <1>4

\* Only an arrival, or leaving the second barrier, changes a place.
LEMMA OuterKeeps ==
    ASSUME Types, NEW t \in Threads, Only(t), Outer(t)
    PROVE  /\ \A u \in Threads : SamePlace(u)
           /\ ThreadWait(t) \/ \A u \in Threads : SameWait(u)
  <1>1. \A g \in Globals : generation'[g] = generation[g]
    <2>1. CASE ~ThreadWait(t)
      BY Zenon, <2>1 DEF barriers, Outer
    <2>2. CASE ThreadWait(t)
      <3>1. generation \in [Barriers -> Generations]
        BY Zenon DEF Types
      <3> QED BY Zenon, <2>2, <3>1, Constants DEF ThreadWait, wait
    <2> QED BY Zenon, <2>1, <2>2 DEF Outer
  <1>2. SamePlace(t)
    BY Zenon DEF SamePlace, Pre, Post, Mid, Inside, Outer, InBarrier
  <1>3. \A u \in Threads \ {t} : SamePlace(u)
    BY Zenon, <1>1, OthersKept DEF SamePlace
  <1>4. ASSUME ~ThreadWait(t) PROVE \A u \in Threads : SameWait(u)
    <2>0. generation' = generation /\ ~BlockedOn(t, ThreadBarrier) /\ ~BlockedOn(t, ThreadBarrier)'
      BY Zenon, <1>4 DEF Outer, barriers
    <2>1. SameWait(t)
      BY Zenon, <2>0 DEF SameWait, BlockedOn, Outer, InBarrier
    <2>2. \A u \in Threads \ {t} : SameWait(u)
      BY Zenon, <2>0, OthersKept DEF SameWait
    <2> QED BY Zenon, <2>1, <2>2
  <1> QED BY Zenon, <1>2, <1>3, <1>4

\* A step between the two barriers keeps the others' places and every barrier's count.
LEMMA InnerKeeps ==
    ASSUME Types, Control, NEW t \in Threads, Only(t), Inner(t)
    PROVE  /\ \A u \in Threads : SamePlace(u) /\ SameWait(u)
           /\ Mid(t, cur[t]) /\ Mid(t, cur[t])' /\ cur[t] \in Globals
  <1>1. generation' = generation /\ gen' = gen /\ cur'[t] = cur[t]
    BY Zenon DEF Inner, barriers
  <1>2. cur[t] \in Globals
    BY Zenon DEF Control, Placed, Inner, InBarrier
  <1>3. Mid(t, cur[t]) /\ Mid(t, cur[t])'
    BY Zenon, <1>1 DEF Mid, Inside, InBarrier, Pre, Post, Inner, Worker, Released
  <1>4. SamePlace(t)
    <2>1. ASSUME NEW g \in Globals
          PROVE  (Pre(t, g)' <=> Pre(t, g)) /\ (Mid(t, g)' <=> Mid(t, g)) /\ (Post(t, g)' <=> Post(t, g))
      <3>1. CASE g = cur[t]
        BY Zenon, <1>1, <1>3, <3>1 DEF Mid, Inside, Pre, Post
      <3>2. CASE g # cur[t]
        BY Zenon, <1>1, <3>2 DEF Mid, Inside, Pre, Post
      <3> QED BY Zenon, <3>1, <3>2
    <2> QED BY Zenon, <2>1 DEF SamePlace
  <1>5. SameWait(t)
    BY Zenon, <1>1, Constants DEF SameWait, BlockedOn, Inner, Worker, Released
  <1>6. \A u \in Threads \ {t} : SamePlace(u) /\ SameWait(u)
    BY Zenon, <1>1, OthersKept DEF SamePlace, SameWait
  <1> QED BY Zenon, <1>2, <1>3, <1>4, <1>5, <1>6

\* Leaving the second barrier.
LEMMA ReturnKeeps ==
    ASSUME Types, Control, NEW t \in Threads, Only(t), Return(t)
    PROVE  /\ \A u \in Threads : SameWait(u)
           /\ \A u \in Threads \ {t} : SamePlace(u)
           /\ Post(t, cur[t]) /\ cur[t] \in Globals /\ ~InBarrier(t)' /\ pc'[t] \in {"exit", "loop"}
  <1>1. generation' = generation
    BY Zenon DEF Return, barriers
  <1>2. /\ pc'[t] \in {"exit", "loop"} /\ pc[t] = "wait2" /\ gen[t] # generation[cur[t]]
    BY Zenon DEF Return, Released, Types
  <1>3. cur[t] \in Globals /\ Post(t, cur[t]) /\ ~InBarrier(t)'
    BY Zenon, <1>2 DEF Control, Placed, InBarrier, Post, Worker
  <1>4. SameWait(t)
    BY Zenon, <1>1, <1>2 DEF SameWait, BlockedOn, Released
  <1>5. \A u \in Threads \ {t} : SamePlace(u) /\ SameWait(u)
    BY Zenon, <1>1, OthersKept DEF SamePlace, SameWait
  <1> QED BY Zenon, <1>2, <1>3, <1>4, <1>5

\* The threads that wait for others to arrive at b.
Waiters(b) == {t \in Threads : BlockedOn(t, b)}

\* numLeft of a barrier counts the threads that have still to arrive.
Counted == \A b \in Barriers : Cardinality(Waiters(b)) + numLeft[b] = N

\* Barrier::wait(): the thread that finds one left to arrive is the last, and all
\* the others are waiting.
LEMMA Arrival ==
    ASSUME Arithmetic, Types, Counted, NEW t \in Threads, NEW b \in Barriers, Only(t),
           \A c \in Barriers : ~BlockedOn(t, c),
           numLeft' = [numLeft EXCEPT ![b] = IF @ = 1 THEN N ELSE @ - 1],
           generation' = [generation EXCEPT ![b] = IF numLeft[b] = 1 THEN 1 - @ ELSE @],
           \A c \in Barriers : BlockedOn(t, c)' <=> (c = b /\ numLeft[b] # 1)
    PROVE  /\ Counted'
           /\ numLeft[b] = 1 => \A u \in Threads \ {t} : BlockedOn(u, b) /\ ~BlockedOn(u, b)'
           /\ \A c \in Barriers : c # b \/ numLeft[b] # 1 => generation'[c] = generation[c]
           /\ numLeft[b] = 1 => generation'[b] # generation[b]
  <1>1. /\ generation \in [Barriers -> Generations] /\ numLeft \in [Barriers -> 1 .. N]
        /\ N \in Nat
    BY Zenon, Constants DEF Types
  <1>2. /\ \A c \in Barriers : c # b \/ numLeft[b] # 1 => generation'[c] = generation[c]
        /\ numLeft[b] = 1 => generation'[b] # generation[b]
        /\ \A c \in Barriers : c # b => numLeft'[c] = numLeft[c]
        /\ numLeft'[b] = IF numLeft[b] = 1 THEN N ELSE numLeft[b] - 1
    BY <1>1 DEF Generations
  <1>3. ASSUME NEW c \in Barriers, c # b \/ numLeft[b] # 1
        PROVE  Waiters(c)' = IF c = b THEN Waiters(c) \cup {t} ELSE Waiters(c)
    <2>1. ASSUME NEW u \in Threads \ {t} PROVE BlockedOn(u, c)' <=> BlockedOn(u, c)
      BY Zenon, <1>2, <1>3, OthersKept
    <2> QED BY Zenon, <1>3, <2>1 DEF Waiters
  <1>4. Waiters(b) \in SUBSET Threads /\ t \notin Waiters(b)
    BY Zenon DEF Waiters
  <1>card. /\ Cardinality(Waiters(b)) \in Nat
           /\ Cardinality(Waiters(b) \cup {t}) = Cardinality(Waiters(b)) + 1
           /\ Cardinality(Waiters(b)) = N - 1 => Waiters(b) = Threads \ {t}
    BY Zenon, <1>4 DEF Arithmetic
  <1>5. ASSUME numLeft[b] = 1 PROVE \A u \in Threads \ {t} : BlockedOn(u, b) /\ ~BlockedOn(u, b)'
    <2>1. Cardinality(Waiters(b)) = N - 1
      BY <1>1, <1>4, <1>5, <1>card DEF Counted
    <2>2. Waiters(b) = Threads \ {t}
      BY Zenon, <2>1, <1>card
    <2>3. ASSUME NEW u \in Threads \ {t} PROVE BlockedOn(u, b) /\ ~BlockedOn(u, b)'
      <3>1. BlockedOn(u, b)
        BY Zenon, <2>2 DEF Waiters
      <3>2. pc'[u] = pc[u] /\ cur'[u] = cur[u] /\ gen'[u] = gen[u]
        BY Zenon DEF Only
      <3>3. gen'[u] # generation'[b]
        BY Zenon, <1>2, <1>5, <3>1, <3>2 DEF BlockedOn, Released
      <3> QED BY Zenon, <3>1, <3>3 DEF BlockedOn, Released
    <2> QED BY Zenon, <2>3
  <1>6. ASSUME NEW c \in Barriers PROVE (Cardinality(Waiters(c)) + numLeft[c] = N)'
    <2>0. Cardinality(Waiters(c)) + numLeft[c] = N
      BY Zenon DEF Counted
    <2>1. CASE c # b
      BY Zenon, <1>2, <1>3, <2>0, <2>1
    <2>2. CASE c = b /\ numLeft[b] # 1
      <3>1. Waiters(b)' = Waiters(b) \cup {t}
        BY Zenon, <1>3, <2>2
      <3>2. Cardinality(Waiters(b)') = Cardinality(Waiters(b)) + 1 /\ Cardinality(Waiters(b)) \in Nat
        BY Zenon, <1>card, <3>1
      <3> QED BY <1>1, <1>2, <2>0, <2>2, <3>2
    <2>3. CASE c = b /\ numLeft[b] = 1
      <3>1. Waiters(b)' = {}
        BY Zenon, <1>5, <2>3 DEF Waiters
      <3>2. Cardinality(Waiters(b)') = 0
        BY Zenon, <3>1 DEF Arithmetic
      <3> QED BY <1>1, <1>2, <2>3, <3>2
    <2> QED BY Zenon, <2>1, <2>2, <2>3
  <1> QED BY Zenon, <1>2, <1>5, <1>6 DEF Counted

\* All threads are between the two barriers of a global event, or none is.
Together == \A t, u \in Threads, g \in Globals : Mid(t, g) => Mid(u, g)

OneWorker == \A t, u \in Threads : Worker(t) /\ Worker(u) => t = u

Barred == Counted /\ Together /\ OneWorker

\* t has arrived at the first barrier of g: it waits there, or it was the last and
\* all threads are past it.
Arrived1(t, g) ==
    /\ Counted' /\ g \in Globals
    /\ \A c \in Globals : c # g \/ numLeft[g] # 1 => generation'[c] = generation[c]
    /\ generation'[ThreadBarrier] = generation[ThreadBarrier]
    /\ numLeft[g] # 1 => Pre(t, g)' /\ \A u \in Threads \ {t} : SamePlace(u)
    /\ numLeft[g] = 1 => /\ pc'[t] = "work"
                         /\ \A u \in Threads \ {t} : Pre(u, g) /\ pc'[u] = "wait1"
                         /\ \A u \in Threads : Mid(u, g)'

\* BarrierEvent::process() enters the first globalBarrier().
LEMMA Arrive1Keeps ==
    ASSUME Arithmetic, Types, Control, Barred, NEW t \in Threads, Only(t), Arrive1(t), NEW g, g = cur'[t]
    PROVE  Arrived1(t, g)
  <1>1. g \in Globals /\ g \in Barriers /\ g # ThreadBarrier /\ pc[t] = "loop" /\ wait(t, g, "work", "wait1")
    BY Zenon, Constants DEF Arrive1
  <1>2. /\ numLeft' = [numLeft EXCEPT ![g] = IF @ = 1 THEN N ELSE @ - 1]
        /\ generation' = [generation EXCEPT ![g] = IF numLeft[g] = 1 THEN 1 - @ ELSE @]
    BY Zenon, <1>1 DEF wait
  <1>3. /\ gen'[t] = generation[g]
        /\ pc'[t] = IF numLeft[g] = 1 THEN "work" ELSE "wait1"
        /\ generation \in [Barriers -> Generations]
    BY Zenon, <1>1 DEF wait, Types
  <1>4. \A c \in Barriers : ~BlockedOn(t, c)
    BY Zenon, <1>1 DEF BlockedOn
  <1>5. numLeft[g] # 1 => generation'[g] = generation[g]
    BY Zenon, <1>1, <1>2, <1>3
  <1>6. \A c \in Barriers : BlockedOn(t, c)' <=> (c = g /\ numLeft[g] # 1)
    BY Zenon, <1>1, <1>3, <1>5 DEF BlockedOn, Released
  <1>7. /\ Counted'
        /\ numLeft[g] = 1 => \A u \in Threads \ {t} : BlockedOn(u, g) /\ ~BlockedOn(u, g)'
        /\ \A c \in Barriers : c # g \/ numLeft[g] # 1 => generation'[c] = generation[c]
        /\ numLeft[g] = 1 => generation'[g] # generation[g]
    BY Zenon, <1>1, <1>2, <1>4, <1>6, Arrival DEF Barred
  <1>8. ASSUME numLeft[g] # 1 PROVE Pre(t, g)' /\ \A u \in Threads \ {t} : SamePlace(u)
    <2>1. Pre(t, g)'
      BY Zenon, <1>1, <1>3, <1>5, <1>8 DEF Pre
    <2> QED BY Zenon, <1>1, <1>7, <1>8, <2>1, Constants, OthersKept DEF SamePlace
  <1>9. ASSUME numLeft[g] = 1
        PROVE  /\ pc'[t] = "work"
               /\ \A u \in Threads \ {t} : Pre(u, g) /\ pc'[u] = "wait1"
               /\ \A u \in Threads : Mid(u, g)'
    <2>1. pc'[t] = "work" /\ Mid(t, g)'
      BY Zenon, <1>3, <1>9 DEF Mid, Inside, InBarrier, Worker, Pre, Post
    <2>2. ASSUME NEW u \in Threads \ {t} PROVE Pre(u, g) /\ pc'[u] = "wait1" /\ Mid(u, g)'
      <3>1. BlockedOn(u, g) /\ generation'[g] # generation[g]
        BY Zenon, <1>7, <1>9
      <3>2. ~Mid(u, g)
        <4>1. ~Mid(t, g)
          BY Zenon, <1>1 DEF Mid, Inside, InBarrier, Worker
        <4> QED BY Zenon, <1>1, <4>1 DEF Barred, Together
      <3>3. Pre(u, g)
        BY Zenon, <1>1, <3>1, <3>2 DEF BlockedOn, Released, Mid, Inside, InBarrier, Pre, Post
      <3>4. pc'[u] = pc[u] /\ cur'[u] = cur[u] /\ gen'[u] = gen[u]
        BY Zenon DEF Only
      <3>5. Mid(u, g)'
        BY Zenon, <3>1, <3>3, <3>4 DEF Pre, Mid, Inside, InBarrier, Post
      <3> QED BY Zenon, <3>3, <3>4, <3>5 DEF Pre
    <2> QED BY Zenon, <2>1, <2>2
  <1> QED BY Zenon, <1>1, <1>7, <1>8, <1>9, Constants DEF Arrived1

\* t has arrived at the second barrier of g: it waits there, or it was the last and
\* all threads may leave.
Arrived2(t, g) ==
    /\ Counted' /\ g \in Globals /\ Mid(t, g) /\ pc'[t] = "wait2"
    /\ \A c \in Globals : c # g \/ numLeft[g] # 1 => generation'[c] = generation[c]
    /\ generation'[ThreadBarrier] = generation[ThreadBarrier]
    /\ numLeft[g] # 1 => \A u \in Threads : SamePlace(u)
    /\ numLeft[g] = 1 => \A u \in Threads : Mid(u, g) /\ Post(u, g)' /\ ~Worker(u)

\* BarrierEvent::process() enters the second globalBarrier().
LEMMA Arrive2Keeps ==
    ASSUME Arithmetic, Types, Control, Barred, NEW t \in Threads, Only(t), Arrive2(t), NEW g, g = cur[t]
    PROVE  Arrived2(t, g)
  <1>1. pc[t] = "arrive2" /\ wait(t, g, "wait2", "wait2") /\ cur' = cur
    BY Zenon DEF Arrive2
  <1>2. g \in Globals /\ g \in Barriers /\ g # ThreadBarrier
    <2>1. InBarrier(t)
      BY Zenon, <1>1 DEF InBarrier
    <2>2. cur[t] \in Globals
      BY Zenon, <2>1 DEF Control, Placed
    <2> QED BY Zenon, <2>2, Constants
  <1>3. /\ numLeft' = [numLeft EXCEPT ![g] = IF @ = 1 THEN N ELSE @ - 1]
        /\ generation' = [generation EXCEPT ![g] = IF numLeft[g] = 1 THEN 1 - @ ELSE @]
    BY Zenon, <1>1 DEF wait
  <1>4. /\ gen'[t] = generation[g] /\ pc'[t] = "wait2" /\ cur'[t] = g
        /\ generation \in [Barriers -> Generations]
    BY Zenon, <1>1 DEF wait, Types
  <1>5. \A c \in Barriers : ~BlockedOn(t, c)
    BY Zenon, <1>1 DEF BlockedOn
  <1>6. numLeft[g] # 1 <=> generation'[g] = generation[g]
    BY <1>2, <1>3, <1>4 DEF Generations
  <1>7. \A c \in Barriers : BlockedOn(t, c)' <=> (c = g /\ numLeft[g] # 1)
    BY Zenon, <1>2, <1>4, <1>6 DEF BlockedOn, Released
  <1>8. /\ Counted'
        /\ numLeft[g] = 1 => \A u \in Threads \ {t} : BlockedOn(u, g) /\ ~BlockedOn(u, g)'
        /\ \A c \in Barriers : c # g \/ numLeft[g] # 1 => generation'[c] = generation[c]
        /\ numLeft[g] = 1 => generation'[g] # generation[g]
    BY Zenon, <1>2, <1>3, <1>5, <1>7, Arrival DEF Barred
  <1>9. Mid(t, g)
    BY Zenon, <1>1 DEF Mid, Inside, InBarrier, Pre, Post
  <1>10. ASSUME numLeft[g] # 1 PROVE \A u \in Threads : SamePlace(u)
    <2>1. Mid(t, g)'
      BY Zenon, <1>4, <1>6, <1>10 DEF Mid, Inside, InBarrier, Pre, Post
    <2>2. SamePlace(t)
      <3>1. ASSUME NEW c \in Globals
            PROVE  (Pre(t, c)' <=> Pre(t, c)) /\ (Mid(t, c)' <=> Mid(t, c)) /\ (Post(t, c)' <=> Post(t, c))
        <4>1. CASE c = g
          BY Zenon, <1>9, <2>1, <4>1 DEF Mid
        <4>2. CASE c # g
          BY Zenon, <1>4, <4>2 DEF Mid, Inside, Pre, Post
        <4> QED BY Zenon, <4>1, <4>2
      <3> QED BY Zenon, <3>1 DEF SamePlace
    <2>3. \A c \in Globals : generation'[c] = generation[c]
      BY Zenon, <1>8, <1>10, Constants
    <2>4. \A u \in Threads \ {t} : SamePlace(u)
      BY Zenon, <2>3, OthersKept DEF SamePlace
    <2> QED BY Zenon, <2>2, <2>4
  <1>11. ASSUME numLeft[g] = 1, NEW u \in Threads PROVE Mid(u, g) /\ Post(u, g)' /\ ~Worker(u)
    <2>1. Mid(u, g)
      BY Zenon, <1>2, <1>9 DEF Barred, Together
    <2>2. CASE u = t
      BY Zenon, <1>1, <1>4, <1>6, <1>11, <2>1, <2>2 DEF Post, Worker
    <2>3. CASE u # t
      <3>1. BlockedOn(u, g) /\ generation'[g] # generation[g]
        BY Zenon, <1>8, <1>11, <2>3
      <3>2. pc[u] = "wait2" /\ gen[u] = generation[g]
        BY Zenon, <1>2, <2>1, <3>1 DEF BlockedOn, Released, Mid, Inside, Pre, Post
      <3>3. pc'[u] = pc[u] /\ cur'[u] = cur[u] /\ gen'[u] = gen[u]
        BY Zenon, <2>3 DEF Only
      <3> QED BY Zenon, <2>1, <3>1, <3>2, <3>3 DEF Mid, Inside, Post, Worker
    <2> QED BY Zenon, <2>2, <2>3
  <1> QED BY Zenon, <1>2, <1>4, <1>8, <1>9, <1>10, <1>11, Constants DEF Arrived2

\* The last to arrive at threadBarrier.
LEMMA ThreadWaitKeeps ==
    ASSUME Arithmetic, Types, Barred, NEW t \in Threads, Only(t), ThreadWait(t)
    PROVE  /\ Counted'
           /\ numLeft[ThreadBarrier] # 1 => /\ BlockedOn(t, ThreadBarrier)'
                                            /\ \A u \in Threads \ {t} : SameWait(u)
           /\ numLeft[ThreadBarrier] = 1 =>
                /\ pc'[t] = "enter"
                /\ \A u \in Threads \ {t} : BlockedOn(u, ThreadBarrier) /\ ~BlockedOn(u, ThreadBarrier)'
  <1> DEFINE b == ThreadBarrier
  <1>1. pc[t] = "thread" /\ wait(t, b, "enter", "threadWait") /\ b \in Barriers /\ cur' = cur
    BY Zenon, Constants DEF ThreadWait
  <1> HIDE DEF b
  <1>3. /\ numLeft' = [numLeft EXCEPT ![b] = IF @ = 1 THEN N ELSE @ - 1]
        /\ generation' = [generation EXCEPT ![b] = IF numLeft[b] = 1 THEN 1 - @ ELSE @]
    BY Zenon, <1>1 DEF wait
  <1>4. /\ gen'[t] = generation[b] /\ pc'[t] = (IF numLeft[b] = 1 THEN "enter" ELSE "threadWait")
        /\ generation \in [Barriers -> Generations]
    BY Zenon, <1>1 DEF wait, Types
  <1>5. \A c \in Barriers : ~BlockedOn(t, c)
    BY Zenon, <1>1 DEF BlockedOn
  <1>6. numLeft[b] # 1 => generation'[b] = generation[b]
    BY Zenon, <1>1, <1>3, <1>4
  <1>7. \A c \in Barriers : BlockedOn(t, c)' <=> (c = b /\ numLeft[b] # 1)
    BY Zenon, <1>4, <1>6 DEF BlockedOn, Released, b
  <1>8. /\ Counted'
        /\ numLeft[b] = 1 => \A u \in Threads \ {t} : BlockedOn(u, b) /\ ~BlockedOn(u, b)'
        /\ \A c \in Barriers : c # b \/ numLeft[b] # 1 => generation'[c] = generation[c]
    BY Zenon, <1>1, <1>3, <1>5, <1>7, Arrival DEF Barred
  <1>9. ASSUME numLeft[b] # 1, NEW u \in Threads \ {t} PROVE SameWait(u)
    BY Zenon, <1>8, <1>9, OthersKept DEF SameWait
  <1> QED BY Zenon, <1>1, <1>4, <1>7, <1>8, <1>9 DEF b

\* Every step keeps what is known of the barriers.
LEMMA BarredStep ==
    ASSUME Arithmetic, Types, Control, Barred, NEW t \in Threads, Acts(t)
    PROVE  Barred'
  <1>0. Moves(t) /\ Only(t)
    BY Zenon, ActsMoves DEF Moves
  <1>1. ASSUME \A u \in Threads : SameWait(u), UNCHANGED barriers PROVE Counted'
    <2>1. ASSUME NEW b \in Barriers PROVE Waiters(b)' = Waiters(b) /\ numLeft'[b] = numLeft[b]
      BY Zenon, <1>1 DEF SameWait, Waiters, barriers
    <2> QED BY Zenon, <2>1 DEF Barred, Counted
  <1>2. ASSUME \A u \in Threads : SamePlace(u) PROVE Together'
    BY Zenon, <1>2 DEF Barred, Together, SamePlace
  <1>3. ASSUME Worker(t)' => Worker(t) PROVE OneWorker'
    BY Zenon, <1>0, <1>3, OthersKept DEF Barred, OneWorker
  <1>4. CASE Outer(t)
    <2>1. ~Worker(t)'
      BY Zenon, <1>4 DEF Outer, InBarrier
    <2>2. CASE ThreadWait(t)
      BY Zenon, <1>0, <1>2, <1>3, <1>4, <2>1, <2>2, OuterKeeps, ThreadWaitKeeps DEF Barred
    <2>3. CASE ~ThreadWait(t)
      BY Zenon, <1>0, <1>1, <1>2, <1>3, <1>4, <2>1, <2>3, OuterKeeps DEF Barred, Outer
    <2> QED BY Zenon, <2>2, <2>3
  <1>5. CASE Inner(t)
    <2>1. Worker(t)' => Worker(t)
      BY Zenon, <1>5 DEF Inner, Worker
    <2> QED BY Zenon, <1>0, <1>1, <1>2, <1>3, <1>5, <2>1, InnerKeeps DEF Barred, Inner
  <1>6. CASE Arrive1(t)
    <2>8. PICK g : g = cur'[t]
      OBVIOUS
    <2>0. /\ Counted' /\ g \in Globals
          /\ \A c \in Globals : c # g \/ numLeft[g] # 1 => generation'[c] = generation[c]
          /\ numLeft[g] # 1 => Pre(t, g)' /\ \A u \in Threads \ {t} : SamePlace(u)
          /\ numLeft[g] = 1 => /\ pc'[t] = "work"
                               /\ \A u \in Threads \ {t} : Pre(u, g) /\ pc'[u] = "wait1"
                               /\ \A u \in Threads : Mid(u, g)'
      <3>1. Arrived1(t, g)
        BY Zenon, <1>0, <1>6, <2>8, Arrive1Keeps
      <3> QED BY Zenon, <3>1 DEF Arrived1
    <2>9. \A c \in Globals : ~Mid(t, c)
      BY Zenon, <1>6 DEF Arrive1, Mid, Inside, InBarrier, Worker
    <2>1. CASE numLeft[g] # 1
      <3>1. pc'[t] = "wait1" /\ ~Worker(t)' /\ \A c \in Globals : ~Mid(t, c)'
        BY Zenon, <2>0, <2>1 DEF Pre, Worker, Mid, Inside
      <3>2. Together'
        BY Zenon, <2>0, <2>1, <2>9, <3>1 DEF Barred, Together, SamePlace
      <3> QED BY Zenon, <1>3, <2>0, <3>1, <3>2 DEF Barred
    <2>2. CASE numLeft[g] = 1
      <3>1. \A u \in Threads, c \in Globals : Mid(u, c)' => c = g
        BY Zenon, <2>0, <2>2 DEF Mid, Inside
      <3>2. Together'
        BY Zenon, <2>0, <2>2, <3>1 DEF Together
      <3>3. \A u \in Threads \ {t} : ~Worker(u)'
        BY Zenon, <2>0, <2>2 DEF Worker
      <3> QED BY Zenon, <2>0, <3>2, <3>3 DEF Barred, OneWorker
    <2> QED BY Zenon, <2>1, <2>2
  <1>7. CASE Arrive2(t)
    <2>8. PICK g : g = cur[t]
      OBVIOUS
    <2>0. /\ Counted' /\ g \in Globals /\ Mid(t, g) /\ pc'[t] = "wait2"
          /\ numLeft[g] # 1 => \A u \in Threads : SamePlace(u)
          /\ numLeft[g] = 1 => \A u \in Threads : Mid(u, g) /\ (Post(u, g))'
      BY Zenon, <1>0, <1>7, <2>8, Arrive2Keeps DEF Arrived2
    <2>1. ~Worker(t)'
      BY Zenon, <2>0 DEF Worker
    <2>2. CASE numLeft[g] # 1
      BY Zenon, <1>2, <1>3, <2>0, <2>1, <2>2 DEF Barred
    <2>3. CASE numLeft[g] = 1
      <3>1. \A u \in Threads, c \in Globals : ~Mid(u, c)'
        BY Zenon, <2>0, <2>3 DEF Mid, Post, Inside
      <3> QED BY Zenon, <1>3, <2>0, <2>1, <3>1 DEF Barred, Together
    <2> QED BY Zenon, <2>2, <2>3
  <1>8. CASE Return(t)
    <2>0. /\ \A u \in Threads : SameWait(u)
          /\ \A u \in Threads \ {t} : SamePlace(u)
          /\ Post(t, cur[t]) /\ cur[t] \in Globals /\ ~InBarrier(t)'
      BY Zenon, <1>0, <1>8, ReturnKeeps
    <2>1. ~Worker(t)' /\ \A c \in Globals : ~Mid(t, c)' /\ ~Mid(t, c)
      BY Zenon, <2>0 DEF InBarrier, Mid, Inside, Post
    <2>2. Together'
      BY Zenon, <2>0, <2>1 DEF Barred, Together, SamePlace
    <2> QED BY Zenon, <1>1, <1>3, <1>8, <2>0, <2>1, <2>2 DEF Barred, Return
  <1> QED BY Zenon, <1>0, <1>4, <1>5, <1>6, <1>7, <1>8 DEF Moves

-----------------------------------------------------------------------------
(* Leaving and entering the simulation loop.                                *)

\* t is outside doSimLoop().
Idle(t) == Ashore(t) \/ BlockedOn(t, ThreadBarrier)

\* t is outside doSimLoop(), or has only to leave it.
Stopped(t) == Idle(t) \/ \E g \in ExitEvents : Post(t, g)

\* t is in the loop and has merged its async_queue.
Entered(t) == ~Stopped(t) /\ pc[t] \notin {"threadWait", "enter"}

\* All threads are stopped, or none is.
StopTogether == \A t, u \in Threads : Stopped(t) => Stopped(u)

\* The steps that start and stop all threads at once.
Starts(t) == ThreadWait(t) /\ numLeft[ThreadBarrier] = 1
Halts(t) == Arrive2(t) /\ numLeft[cur[t]] = 1 /\ cur[t] \in ExitEvents

Stops(t) ==
    /\ Halts(t) => \A u \in Threads : ~Stopped(u) /\ Stopped(u)'
    /\ Starts(t) => \A u \in Threads : Stopped(u) /\ ~Stopped(u)'
    /\ ~Halts(t) /\ ~Starts(t) => \A u \in Threads : Stopped(u)' <=> Stopped(u)
    /\ \A u \in Threads : Entered(u)' => Entered(u) \/ (u = t /\ EnterLoop(t))

\* Who is blocked on threadBarrier has called its wait() from simulate() or thread_loop().
LEMMA BlockedAshore ==
    ASSUME Control, NEW t \in Threads, BlockedOn(t, ThreadBarrier)
    PROVE  pc[t] = "threadWait"
  <1>1. InBarrier(t) => cur[t] # ThreadBarrier
    BY Constants DEF Control, Placed
  <1> QED BY Zenon, <1>1 DEF BlockedOn, InBarrier

\* Each thread is in one place.
Located ==
    \A t \in Threads :
        /\ ~InBarrier(t) => \A g : ~Pre(t, g) /\ ~Mid(t, g) /\ ~Post(t, g)
        /\ InBarrier(t) => ~Idle(t)
        /\ \A g, h : (Pre(t, g) \/ Mid(t, g)) => ~Post(t, h) /\ ~Stopped(t)

\* A thread is in one place with respect to the barriers.
LEMMA OutsideGlobals ==
    Control => Located
  <1> SUFFICES ASSUME Control, NEW t \in Threads
               PROVE  /\ ~InBarrier(t) => \A g : ~Pre(t, g) /\ ~Mid(t, g) /\ ~Post(t, g)
                      /\ InBarrier(t) => ~Idle(t)
                      /\ \A g, h : (Pre(t, g) \/ Mid(t, g)) => ~Post(t, h) /\ ~Stopped(t)
    BY Zenon DEF Located
  <1>1. ~InBarrier(t) => \A g : ~Pre(t, g) /\ ~Mid(t, g) /\ ~Post(t, g)
    BY Zenon DEF InBarrier, Pre, Mid, Post, Inside
  <1>2. InBarrier(t) => ~Idle(t)
    BY Zenon, BlockedAshore DEF InBarrier, Worker, Idle, Ashore
  <1>3. ASSUME NEW g, NEW h, Pre(t, g) \/ Mid(t, g) PROVE ~Post(t, h)
    BY Zenon, <1>3 DEF Pre, Mid, Post, Inside
  <1> QED BY Zenon, <1>1, <1>2, <1>3 DEF Stopped

\* The same of the next state.
LEMMA OutsideNext ==
    Control' => Located'
  BY OutsideGlobals, PTL

\* Who is stopped changes for all threads at once.
LEMMA ActsStops ==
    ASSUME Arithmetic, Types, Control, Barred, NEW t \in Threads, Acts(t)
    PROVE  Stops(t)
  \* The others, when threadBarrier and the exit events' barriers stay closed.
  <1>OthersStop. ASSUME Only(t), NEW u \in Threads \ {t},
                        generation'[ThreadBarrier] = generation[ThreadBarrier],
                        \A g \in ExitEvents : Post(u, g)' <=> Post(u, g)
                 PROVE  (Stopped(u)' <=> Stopped(u)) /\ (Entered(u)' <=> Entered(u))
    <2> USE <1>OthersStop
    <2>1. pc'[u] = pc[u] /\ (BlockedOn(u, ThreadBarrier)' <=> BlockedOn(u, ThreadBarrier))
      BY Zenon, OthersKept, Constants DEF Only
    <2> QED BY Zenon, <2>1 DEF Stopped, Idle, Ashore, Entered
  \* A step outside the barrier events starts and stops nobody.
  <1>OuterStops. ASSUME Only(t), Outer(t), ~ThreadWait(t)
                 PROVE  Stops(t)
    <2> USE <1>OuterStops
    <2>1. /\ UNCHANGED barriers /\ ~BlockedOn(t, ThreadBarrier) /\ ~BlockedOn(t, ThreadBarrier)'
          /\ Ashore(t)' <=> Ashore(t)
          /\ pc[t] \in {"threadWait", "enter"} => pc'[t] = "enter" \/ EnterLoop(t)
          /\ ~InBarrier(t) /\ ~InBarrier(t)'
      BY Zenon DEF Outer
    <2>2. \A g : ~Post(t, g) /\ ~Post(t, g)'
      BY Zenon, <2>1 DEF Post, InBarrier
    <2>3. (Stopped(t)' <=> Stopped(t)) /\ (Entered(t)' => Entered(t) \/ EnterLoop(t))
      BY Zenon, <2>1, <2>2 DEF Stopped, Idle, Entered
    <2>4. \A u \in Threads \ {t} : (Stopped(u)' <=> Stopped(u)) /\ (Entered(u)' <=> Entered(u))
      BY Zenon, <2>1, <1>OthersStop, OuterKeeps, Constants DEF SamePlace, barriers
    <2>5. ~Halts(t) /\ ~Starts(t)
      BY Zenon, <2>1 DEF Halts, Starts, Arrive2, InBarrier
    <2> QED BY Zenon, <2>3, <2>4, <2>5 DEF Stops
  \* threadBarrier->wait(): the last arrival starts all threads, an earlier one none.
  <1>ThreadWaitStops. ASSUME Only(t), Outer(t), ThreadWait(t)
                      PROVE  Stops(t)
    <2> USE <1>ThreadWaitStops
    <2>0. pc[t] = "thread" /\ ~Halts(t) /\ ~InBarrier(t)'
      BY Zenon DEF ThreadWait, Halts, Arrive2, Outer
    <2>1. Stopped(t) /\ ~Entered(t)
      BY Zenon, <2>0 DEF Stopped, Idle, Ashore, Entered
    <2>2. \A u \in Threads : SamePlace(u)
      BY Zenon, OuterKeeps
    <2>3. CASE numLeft[ThreadBarrier] # 1
      <3>1. BlockedOn(t, ThreadBarrier)' /\ \A u \in Threads \ {t} : SameWait(u)
        BY Zenon, <2>3, ThreadWaitKeeps
      <3>2. Stopped(t)' /\ ~Entered(t)'
        BY Zenon, <3>1 DEF Stopped, Idle, Entered
      <3>3. ASSUME NEW u \in Threads \ {t} PROVE (Stopped(u)' <=> Stopped(u)) /\ (Entered(u)' <=> Entered(u))
        <4>1. pc'[u] = pc[u] /\ (BlockedOn(u, ThreadBarrier)' <=> BlockedOn(u, ThreadBarrier))
          BY Zenon, <3>1, Constants DEF Only, SameWait
        <4>2. \A g \in ExitEvents : Post(u, g)' <=> Post(u, g)
          BY Zenon, <2>2, Constants DEF SamePlace
        <4> QED BY Zenon, <4>1, <4>2 DEF Stopped, Idle, Ashore, Entered
      <3> QED BY Zenon, <2>0, <2>1, <2>3, <3>2, <3>3 DEF Stops, Starts
    <2>4. CASE numLeft[ThreadBarrier] = 1
      <3>1. /\ pc'[t] = "enter"
            /\ \A u \in Threads \ {t} : BlockedOn(u, ThreadBarrier) /\ ~BlockedOn(u, ThreadBarrier)'
        BY Zenon, <2>4, ThreadWaitKeeps
      <3>2. ~Stopped(t)' /\ ~Entered(t)'
        BY Zenon, <3>1 DEF Stopped, Idle, Ashore, Entered, Post, BlockedOn
      <3>3. ASSUME NEW u \in Threads \ {t} PROVE Stopped(u) /\ ~Stopped(u)' /\ ~Entered(u)'
        <4>1. pc[u] = "threadWait" /\ pc'[u] = "threadWait" /\ ~BlockedOn(u, ThreadBarrier)' /\ Stopped(u)
          BY Zenon, <3>1, BlockedAshore DEF Only, Stopped, Idle
        <4> QED BY Zenon, <4>1 DEF Stopped, Idle, Ashore, Entered, Post
      <3> QED BY Zenon, <2>0, <2>1, <2>4, <3>2, <3>3 DEF Stops, Starts
    <2> QED BY Zenon, <2>3, <2>4
  \* Of the steps at a global event's barriers only the last arrival at an exit
  \* event's second one stops the threads, and it stops all.
  <1>BarrierStops. ASSUME Control', Only(t), Inner(t) \/ Arrive1(t) \/ Arrive2(t) \/ Return(t)
                   PROVE  Stops(t)
    <2> USE <1>BarrierStops
    <2>0. Located
      BY Zenon, OutsideGlobals
    <2>00. Located'
      BY Zenon, OutsideNext
    <2>1. CASE Inner(t)
      <3>1. /\ \A u \in Threads : SamePlace(u)
            /\ Mid(t, cur[t]) /\ Mid(t, cur[t])'
        BY Zenon, <2>1, InnerKeeps
      <3>2. generation' = generation
        BY Zenon, <2>1 DEF Inner, barriers
      <3>3. \A u \in Threads \ {t} : (Stopped(u)' <=> Stopped(u)) /\ (Entered(u)' <=> Entered(u))
        BY Zenon, <3>1, <3>2, <1>OthersStop, Constants DEF SamePlace
      <3>4. ~Stopped(t) /\ ~Stopped(t)'
        BY Zenon, <3>1, <2>0, <2>00 DEF Located
      <3>5. pc[t] \notin {"threadWait", "enter"} /\ ~Halts(t) /\ ~Starts(t)
        BY Zenon, <2>1 DEF Inner, Worker, Halts, Starts, Arrive2, ThreadWait
      <3> QED BY Zenon, <3>3, <3>4, <3>5 DEF Stops, Entered
    <2>2. CASE Arrive1(t)
      <3>0. PICK g : g = cur'[t]
        OBVIOUS
      <3>1. Arrived1(t, g)
        BY Zenon, <2>2, <3>0, Arrive1Keeps
      <3>2. pc[t] = "loop" /\ ~Halts(t) /\ ~Starts(t)
        BY Zenon, <2>2 DEF Arrive1, Halts, Starts, Arrive2, ThreadWait
      <3>3. ~Stopped(t) /\ Entered(t)
        BY Zenon, <3>2 DEF Stopped, Entered, Idle, Ashore, BlockedOn, Post
      <3>4. CASE numLeft[g] # 1
        <4>1. ~Stopped(t)'
          BY Zenon, <3>1, <3>4, <2>00 DEF Located, Arrived1
        <4>2. \A u \in Threads \ {t} : (Stopped(u)' <=> Stopped(u)) /\ (Entered(u)' <=> Entered(u))
          BY Zenon, <3>1, <3>4, <1>OthersStop, Constants DEF SamePlace, Arrived1
        <4> QED BY Zenon, <3>2, <3>3, <4>1, <4>2 DEF Stops
      <3>5. CASE numLeft[g] = 1
        <4>1. \A u \in Threads : ~Stopped(u)'
          BY Zenon, <3>1, <3>5, <2>00 DEF Located, Arrived1
        <4>2. \A u \in Threads \ {t} : ~Stopped(u) /\ Entered(u)
          <5>1. ASSUME NEW u \in Threads \ {t} PROVE ~Stopped(u) /\ Entered(u)
            <6>1. ~Stopped(u) /\ pc[u] = "wait1"
              BY Zenon, <3>1, <3>5, <2>0 DEF Located, Arrived1, Pre
            <6> QED BY Zenon, <6>1 DEF Entered
          <5> QED BY Zenon, <5>1
        <4> QED BY Zenon, <3>2, <3>3, <4>1, <4>2 DEF Stops
      <3> QED BY Zenon, <3>4, <3>5
    <2>3. CASE Arrive2(t)
      <3>0. PICK g : g = cur[t]
        OBVIOUS
      <3>1. Arrived2(t, g)
        BY Zenon, <2>3, <3>0, Arrive2Keeps
      <3>2. pc[t] = "arrive2" /\ ~Starts(t) /\ (Halts(t) <=> numLeft[g] = 1 /\ g \in ExitEvents)
        BY Zenon, <2>3, <3>0 DEF Arrive2, Halts, Starts, ThreadWait
      <3>3. ~Stopped(t) /\ Entered(t)
        <4>1. ~Stopped(t)
          BY Zenon, <3>1, <2>0 DEF Located, Arrived2
        <4> QED BY Zenon, <3>2, <4>1 DEF Entered
      <3>4. CASE numLeft[g] # 1
        <4>1. ~Stopped(t)'
          BY Zenon, <3>1, <3>4, <2>00 DEF Located, Arrived2, SamePlace
        <4>2. \A u \in Threads \ {t} : (Stopped(u)' <=> Stopped(u)) /\ (Entered(u)' <=> Entered(u))
          BY Zenon, <3>1, <3>4, <1>OthersStop, Constants DEF SamePlace, Arrived2
        <4> QED BY Zenon, <3>2, <3>3, <3>4, <4>1, <4>2 DEF Stops
      <3>5. CASE numLeft[g] = 1
        <4>1. \A u \in Threads : ~Stopped(u)
          BY Zenon, <3>1, <3>5, <2>0 DEF Located, Arrived2
        <4>2. \A u \in Threads : Stopped(u)' <=> g \in ExitEvents
          <5>1. ASSUME NEW u \in Threads PROVE Stopped(u)' <=> g \in ExitEvents
            <6>1. Post(u, g)'
              BY Zenon, <3>1, <3>5 DEF Arrived2
            <6>2. ~Idle(u)'
              BY Zenon, <6>1, <2>00 DEF Located, Post, InBarrier
            <6>3. \A h : Post(u, h)' => h = g
              BY Zenon, <6>1 DEF Post
            <6> QED BY Zenon, <6>1, <6>2, <6>3 DEF Stopped
          <5> QED BY Zenon, <5>1
        <4>3. \A u \in Threads : Entered(u)
          <5>1. ASSUME NEW u \in Threads PROVE pc[u] \notin {"threadWait", "enter"}
            <6>1. InBarrier(u)
              BY Zenon, <3>1, <3>5 DEF Arrived2, Mid, Inside
            <6> QED BY Zenon, <6>1 DEF InBarrier, Worker
          <5> QED BY Zenon, <4>1, <5>1 DEF Entered
        <4> QED BY Zenon, <3>2, <3>5, <4>1, <4>2, <4>3 DEF Stops
      <3> QED BY Zenon, <3>4, <3>5
    <2>4. CASE Return(t)
      <3>0. PICK g : g = cur[t]
        OBVIOUS
      <3>1. /\ \A u \in Threads \ {t} : SamePlace(u)
            /\ Post(t, g) /\ g \in Globals /\ ~InBarrier(t)'
        BY Zenon, <2>4, <3>0, ReturnKeeps
      <3>2. pc[t] = "wait2" /\ ~Halts(t) /\ ~Starts(t) /\ generation' = generation
        BY Zenon, <2>4 DEF Return, Halts, Starts, Arrive2, ThreadWait, barriers
      <3>3. pc'[t] = IF g \in ExitEvents THEN "exit" ELSE "loop"
        BY Zenon, <2>4, <3>0 DEF Return, Types
      <3>4. Stopped(t) <=> g \in ExitEvents
        <4>1. ~Idle(t)
          BY Zenon, <3>2, <2>0 DEF Located, InBarrier
        <4> QED BY Zenon, <3>1, <4>1 DEF Stopped, Post
      <3>5. Stopped(t)' <=> g \in ExitEvents
        BY Zenon, <3>3 DEF Stopped, Idle, Ashore, BlockedOn, Post
      <3>6. Entered(t)' => Entered(t)
        BY Zenon, <3>2, <3>4, <3>5 DEF Entered
      <3>7. \A u \in Threads \ {t} : (Stopped(u)' <=> Stopped(u)) /\ (Entered(u)' <=> Entered(u))
        BY Zenon, <3>1, <3>2, <1>OthersStop, Constants DEF SamePlace
      <3> QED BY Zenon, <3>2, <3>4, <3>5, <3>6, <3>7 DEF Stops
    <2> QED BY Zenon, <2>1, <2>2, <2>3, <2>4
  <1> QED BY Zenon, ActsMoves, ControlStep, <1>OuterStops, <1>ThreadWaitStops, <1>BarrierStops DEF Moves

\* Every step keeps the threads stopped together.
LEMMA StopTogetherStep ==
    ASSUME Arithmetic, Types, Control, Barred, StopTogether, NEW t \in Threads, Acts(t)
    PROVE  StopTogether'
  <1>1. Stops(t)
    BY Zenon, ActsStops
  <1> QED BY Zenon, <1>1 DEF Stops, StopTogether

\* What the barriers and the loop promise of where the threads are.
Places == Types /\ Control /\ Barred /\ StopTogether

\* The first invariant holds initially.
LEMMA PlacesInit ==
    ASSUME Arithmetic
    PROVE  Init => Places
  <1> SUFFICES ASSUME Init PROVE Places
    OBVIOUS
  <1>0. /\ N \in Nat /\ N > 1 /\ 0 \in Threads /\ Sync \in Events /\ Limit \in Events
        /\ Threads \subseteq Nat /\ ThreadBarrier \notin Globals
    BY Zenon, Constants
  <1>1. \A t \in Threads : pc[t] = IF t = 0 THEN "python" ELSE "thread"
    BY Zenon DEF Init
  <1>2. Types
    <2>1. Entry(Limit, 0) \in Entries
      BY Zenon, Constants DEF Ticks
    <2>2. <<Entry(Limit, 0)>> \in Seq(Entries) /\ <<>> \in Seq(Entries)
      BY <2>1
    <2>3. evq \in [Threads -> Seq(Entries)] /\ asyncq \in [Threads -> Seq(Entries)]
      BY Zenon, <2>2 DEF Init
    <2>4. pend \in [Threads -> [ev : Events, w : Ticks, i : Threads, ret : PCs]]
      BY Zenon, <1>0 DEF Init, Ticks, PCs
    <2>5. /\ curTick \in [Threads -> Ticks] /\ pc \in [Threads -> PCs] /\ cur \in [Threads -> Events]
          /\ gen \in [Threads -> Generations] /\ generation \in [Barriers -> Generations]
          /\ numLeft \in [Barriers -> 1 .. N]
      BY <1>0 DEF Init, Ticks, PCs, Generations
    <2>6. globalQMutex \in Threads \cup {NoThread} /\ scheduled \subseteq Locals /\ deleted \subseteq Globals
      BY Zenon DEF Init
    <2> QED BY Zenon, <2>3, <2>4, <2>5, <2>6 DEF Types
  <1>3. \A t \in Threads : ~InBarrier(t) /\ ~Scheduling(t) /\ Ashore(t)
    BY Zenon, <1>1 DEF InBarrier, Worker, Scheduling, Ashore
  <1>4. Control
    BY Zenon, <1>1, <1>3 DEF Control, Placed, Scheduling
  <1>5. Together /\ OneWorker
    BY Zenon, <1>3 DEF Together, OneWorker, Mid, Inside, InBarrier
  <1>6. Counted
    <2>1. ASSUME NEW b \in Barriers PROVE Cardinality(Waiters(b)) + numLeft[b] = N
      <3>1. Waiters(b) = {}
        BY Zenon, <1>1 DEF Waiters, BlockedOn
      <3>2. numLeft[b] = N
        BY Zenon DEF Init
      <3>3. Cardinality(Waiters(b)) = 0
        BY Zenon, <3>1 DEF Arithmetic
      <3> QED BY <1>0, <3>2, <3>3
    <2> QED BY Zenon, <2>1 DEF Counted
  <1>7. StopTogether
    BY Zenon, <1>3 DEF StopTogether, Stopped, Idle
  <1> QED BY Zenon, <1>2, <1>4, <1>5, <1>6, <1>7 DEF Places, Barred

\* Every step keeps it.
LEMMA PlacesStep ==
    ASSUME Arithmetic, Places, NEW t \in Threads, Acts(t)
    PROVE  Places'
  BY Zenon, TypesStep, ControlStep, BarredStep, StopTogetherStep DEF Places

\* What a step other than an arrival at a first barrier does to the places of the threads.
Carries(t) ==
    \A u \in Threads, g \in Globals :
        /\ Pre(u, g)' <=> Pre(u, g)
        /\ Mid(u, g)' => Mid(u, g)
        /\ Mid(u, g)' \/ Post(u, g)' => Mid(u, g) \/ Post(u, g)
        /\ Mid(u, g) \/ Post(u, g) => Mid(u, g)' \/ Post(u, g)' \/ (u = t /\ Return(t) /\ cur[t] = g)

\* A step that is no arrival at a first barrier carries nobody into or between barriers
\* other than along them.
LEMMA ActsCarries ==
    ASSUME Arithmetic, Places, NEW t \in Threads, Acts(t), ~Arrive1(t)
    PROVE  Carries(t)
  <1>0. Types /\ Control /\ Barred /\ Only(t) /\ Moves(t)
    BY Zenon, ActsMoves DEF Places, Moves
  <1>1. ASSUME \A u \in Threads : SamePlace(u) PROVE Carries(t)
    BY Zenon, <1>1 DEF Carries, SamePlace
  <1>2. CASE Outer(t)
    BY Zenon, <1>0, <1>1, <1>2, OuterKeeps
  <1>3. CASE Inner(t)
    BY Zenon, <1>0, <1>1, <1>3, InnerKeeps
  <1>4. CASE Arrive2(t)
    <2>0. PICK g : g = cur[t]
      OBVIOUS
    <2>1. Arrived2(t, g)
      BY Zenon, <1>0, <1>4, <2>0, Arrive2Keeps
    <2>2. CASE numLeft[g] # 1
      BY Zenon, <1>1, <2>1, <2>2 DEF Arrived2
    <2>3. CASE numLeft[g] = 1
      <3>1. \A u \in Threads : Mid(u, g) /\ Post(u, g)'
        BY Zenon, <2>1, <2>3 DEF Arrived2
      <3>2. ASSUME NEW u \in Threads, NEW h \in Globals
            PROVE  /\ Pre(u, h)' <=> Pre(u, h)
                   /\ Mid(u, h)' => Mid(u, h)
                   /\ Mid(u, h)' \/ Post(u, h)' => Mid(u, h) \/ Post(u, h)
                   /\ Mid(u, h) \/ Post(u, h) => Mid(u, h)' \/ Post(u, h)'
        <4>1. Mid(u, g) /\ Post(u, g)'
          BY Zenon, <3>1
        <4>2. CASE h = g
          BY Zenon, <4>1, <4>2 DEF Mid, Post, Pre, Inside
        <4>3. CASE h # g
          BY Zenon, <4>1, <4>3 DEF Mid, Post, Pre, Inside
        <4> QED BY Zenon, <4>2, <4>3
      <3> QED BY Zenon, <3>2 DEF Carries
    <2> QED BY Zenon, <2>2, <2>3
  <1>5. CASE Return(t)
    <2>1. /\ \A u \in Threads \ {t} : SamePlace(u)
          /\ Post(t, cur[t]) /\ ~InBarrier(t)'
      BY Zenon, <1>0, <1>5, ReturnKeeps
    <2>2. ASSUME NEW h \in Globals
          PROVE  /\ ~Pre(t, h)' /\ ~Pre(t, h) /\ ~Mid(t, h)' /\ ~Post(t, h)' /\ ~Mid(t, h)
                 /\ Post(t, h) => cur[t] = h
      BY Zenon, <2>1 DEF Mid, Post, Pre, Inside, InBarrier
    <2> QED BY Zenon, <1>5, <2>1, <2>2 DEF Carries, SamePlace
  <1> QED BY Zenon, <1>0, <1>2, <1>3, <1>4, <1>5 DEF Moves

-----------------------------------------------------------------------------
(* What a step does to the queues and clocks.                               *)

\* A schedule() begins, other than of a local event.
Begins(t) ==
    \/ \E g \in Requests, d \in RequestDelays : Request(t, g, d)
    \/ Work(t) /\ cur[t] = Sync

Calm(t) ==
    /\ evq' = evq /\ asyncq' = asyncq /\ curTick' = curTick
    /\ Scheduling(t)' => Begins(t) \/ (Scheduling(t) /\ pend'[t] = pend[t])
    /\ pc'[0] = "python" <=> pc[0] = "python"

Merges(t) ==
    /\ EnterLoop(t) \/ (Return(t) /\ cur[t] = Sync)
    /\ handleAsyncInsertions(t) /\ curTick' = curTick
    /\ ~Scheduling(t)' /\ ~Worker(t) /\ ~Worker(t)' /\ (pc'[0] = "python" <=> pc[0] = "python")

\* schedule() of a local event on a queue that is not another running thread's.
Inserts(u, x) ==
    /\ u \in Threads /\ x \in Entries /\ x.ev \in Locals /\ x.w >= curTick[u]
    /\ pc[u] = "process" \/ pc[0] = "python"
    /\ evq' = [evq EXCEPT ![u] = Insert(@, x)]
    /\ UNCHANGED <<asyncq, curTick, pc, cur, pend, barriers>>

\* schedule() on another thread's queue.
Sends(t, u, x) ==
    /\ u \in Threads /\ x \in Entries
    /\ asyncq' = [asyncq EXCEPT ![u] = Append(@, x)]
    /\ evq' = evq /\ curTick' = curTick /\ cur' = cur
    /\ pc'[0] # "python" /\ pc[0] # "python"
    /\ \/ /\ pc[t] = "process" /\ pc'[t] = "flag"
          /\ x.ev \in Locals /\ x.w >= curTick[t] + Quantum
       \/ InsertGlobal(t) /\ u = pend[t].i /\ x = Entry(pend[t].ev, pend[t].w)

Kinds(t) ==
    \/ Calm(t) \/ ServiceOne(t) \/ Merges(t)
    \/ \E u \in Threads, x \in Entries : Inserts(u, x)
    \/ \E u \in Threads, x \in Entries : Sends(t, u, x)
    \/ t = 0 /\ \E n \in Cycles : Simulate(n)
    \/ t = 0 /\ LeaveLoop(0)

\* While a thread runs, the main thread is inside simulate().
LEMMA Running ==
    ASSUME Places, NEW t \in Threads, ~Stopped(t)
    PROVE  pc[0] # "python" /\ \A u \in Threads : ~Stopped(u)
  <1>1. \A u \in Threads : ~Stopped(u)
    BY Zenon DEF Places, StopTogether
  <1>2. ~Stopped(0)
    BY Zenon, <1>1, Constants
  <1> QED BY Zenon, <1>1, <1>2 DEF Stopped, Idle, Ashore

\* A turn of BaseGlobalEvent::schedule()'s loop puts an entry in an async_queue.
LEMMA InsertSends ==
    ASSUME Places, NEW t \in Threads, InsertGlobal(t)
    PROVE  /\ pend[t].i \in Threads /\ Entry(pend[t].ev, pend[t].w) \in Entries
           /\ Sends(t, pend[t].i, Entry(pend[t].ev, pend[t].w))
  <1>0. /\ pc \in [Threads -> PCs] /\ pend \in [Threads -> [ev : Events, w : Ticks, i : Threads, ret : PCs]]
        /\ curTick \in [Threads -> Ticks] /\ 0 \in Threads /\ Placed(t)
    BY Zenon, Constants DEF Places, Types, Control
  <1> DEFINE p == pend[t]
             x == Entry(p.ev, p.w)
  <1>1. x \in Entries /\ p.i \in Threads /\ p.ret # "python"
    BY Zenon, <1>0, Constants DEF InsertGlobal, Placed, Scheduling
  <1>2. pc[t] = "insert" /\ cur' = cur /\ curTick' = curTick
    BY Zenon DEF InsertGlobal
  <1>3. ~Stopped(t)
    BY Zenon, <1>2 DEF Stopped, Idle, Ashore, BlockedOn, Post
  <1>4. pc[0] # "python" /\ pc'[0] # "python"
    <2>1. pc[0] # "python"
      BY Zenon, <1>3, Running
    <2> QED BY Zenon, <1>0, <1>1, <2>1 DEF InsertGlobal
  <1>5. asyncq' = [asyncq EXCEPT ![p.i] = Append(@, x)] /\ evq' = evq
    BY Zenon, <1>4 DEF InsertGlobal, schedule, inParallelMode
  <1>6. Sends(t, p.i, x)
    BY Zenon, <1>1, <1>2, <1>4, <1>5 DEF Sends
  <1> QED BY Zenon, <1>1, <1>6

\* Every step changes queues and clocks in one of these ways.
LEMMA ActsKinds ==
    ASSUME Places, NEW t \in Threads, Acts(t)
    PROVE  Kinds(t)
  <1>0. /\ pc \in [Threads -> PCs] /\ pend \in [Threads -> [ev : Events, w : Ticks, i : Threads, ret : PCs]]
        /\ curTick \in [Threads -> Ticks] /\ 0 \in Threads /\ Placed(t)
    BY Zenon, Constants DEF Places, Types, Control
  <1>00. /\ \A d \in LocalDelays, u \in Threads : curTick[u] + d \in Ticks /\ curTick[u] + d >= curTick[u]
         /\ \A d \in AsyncDelays, u \in Threads : curTick[u] + d \in Ticks /\ curTick[u] + d >= curTick[u] + Quantum
    <2>1. Quantum \in Nat /\ \A u \in Threads : curTick[u] \in Nat
      BY Zenon, <1>0, Constants DEF Ticks
    <2>2. LocalDelays \subseteq Nat /\ \A d \in AsyncDelays : d \in Nat /\ d >= Quantum
      BY Zenon, DelaysAssumption DEF Ticks
    <2> QED BY <2>1, <2>2 DEF Ticks
  <1>1. CASE t = 0 /\ \E n \in Cycles : Simulate(n)
    BY Zenon, <1>1 DEF Kinds
  <1>2. ASSUME NEW e \in Locals, NEW d \in LocalDelays, Startup(e, d) PROVE Kinds(t)
    <2>1. To[e] \in Threads /\ e \in Events
      BY Zenon, Constants
    <2> DEFINE u == To[e]
               x == Entry(e, curTick[u] + d)
    <2>2. x \in Entries /\ x.ev \in Locals /\ x.w >= curTick[u]
      <3>1. curTick[u] + d \in Ticks /\ curTick[u] + d >= curTick[u]
        BY Zenon, <1>00, <2>1
      <3>2. x \in Entries /\ x.ev = e /\ x.w = curTick[u] + d
        BY Zenon, <2>1, <3>1, Constants
      <3> QED BY Zenon, <3>1, <3>2
    <2>3. evq' = [evq EXCEPT ![u] = Insert(@, x)] /\ asyncq' = asyncq
      BY Zenon, <1>2 DEF Startup, schedule, inParallelMode
    <2>4. Inserts(u, x)
      <3> HIDE DEF x
      <3> QED BY Zenon, <1>2, <2>1, <2>2, <2>3 DEF Inserts, Startup, barriers
    <2> QED BY Zenon, <2>1, <2>2, <2>4 DEF Kinds
  <1>3. CASE ThreadWait(t)
    BY Zenon, <1>0, <1>3 DEF ThreadWait, wait, queues, Kinds, Calm, Scheduling
  <1>4. CASE ThreadReleased(t)
    BY Zenon, <1>0, <1>4 DEF ThreadReleased, queues, Kinds, Calm, Scheduling
  <1>5. CASE EnterLoop(t)
    BY Zenon, <1>0, <1>5 DEF EnterLoop, Kinds, Merges, Scheduling, Worker
  <1>6. CASE ServiceOne(t)
    BY Zenon, <1>6 DEF Kinds
  <1>7. CASE LeaveLoop(t)
    <2>1. CASE t = 0
      BY Zenon, <1>7, <2>1 DEF Kinds
    <2>2. CASE t # 0
      BY Zenon, <1>0, <1>7, <2>2 DEF LeaveLoop, Kinds, Calm, Scheduling
    <2> QED BY Zenon, <2>1, <2>2
  <1>8. ASSUME NEW e \in Locals, NEW d \in LocalDelays, ScheduleOwn(t, e, d) PROVE Kinds(t)
    <2>1. e \in Events
      BY Zenon, Constants
    <2> DEFINE x == Entry(e, curTick[t] + d)
    <2>2. x \in Entries /\ x.ev \in Locals /\ x.w >= curTick[t]
      <3>1. curTick[t] + d \in Ticks /\ curTick[t] + d >= curTick[t]
        BY Zenon, <1>00
      <3>2. x \in Entries /\ x.ev = e /\ x.w = curTick[t] + d
        BY Zenon, <2>1, <3>1, Constants
      <3> QED BY Zenon, <3>1, <3>2
    <2>3. evq' = [evq EXCEPT ![t] = Insert(@, x)] /\ asyncq' = asyncq
      BY Zenon, <1>8 DEF ScheduleOwn, schedule
    <2>4. Inserts(t, x)
      <3> HIDE DEF x
      <3> QED BY Zenon, <1>8, <2>2, <2>3 DEF Inserts, ScheduleOwn, barriers
    <2> QED BY Zenon, <2>2, <2>4 DEF Kinds
  <1>9. ASSUME NEW e \in Locals, NEW d \in AsyncDelays, Send(t, e, d) PROVE Kinds(t)
    <2>1. e \in Events /\ To[e] \in Threads
      BY Zenon, Constants
    <2> DEFINE x == Entry(e, curTick[t] + d)
    <2>2. x \in Entries /\ x.ev \in Locals /\ x.w >= curTick[t] + Quantum
      <3>1. curTick[t] + d \in Ticks /\ curTick[t] + d >= curTick[t] + Quantum
        BY Zenon, <1>00
      <3>2. x \in Entries /\ x.ev = e /\ x.w = curTick[t] + d
        BY Zenon, <2>1, <3>1, Constants
      <3> QED BY Zenon, <3>1, <3>2
    <2>3. pc[t] = "process" /\ pc'[t] = "flag" /\ cur' = cur /\ curTick' = curTick /\ To[e] # t
      BY Zenon, <1>0, <1>9 DEF Send
    <2>4. ~Stopped(t)
      BY Zenon, <2>3 DEF Stopped, Idle, Ashore, BlockedOn, Post
    <2>5. pc[0] # "python" /\ pc'[0] # "python"
      <3>1. pc[0] # "python"
        BY Zenon, <2>4, Running
      <3> QED BY Zenon, <1>0, <1>9, <2>3, <3>1 DEF Send
    <2>6. asyncq' = [asyncq EXCEPT ![To[e]] = Append(@, x)] /\ evq' = evq
      BY Zenon, <1>9, <2>3, <2>5 DEF Send, schedule, inParallelMode
    <2>7. Sends(t, To[e], x)
      <3> HIDE DEF x
      <3> QED BY Zenon, <2>1, <2>2, <2>3, <2>5, <2>6 DEF Sends
    <2> QED BY Zenon, <2>1, <2>2, <2>7 DEF Kinds
  <1>10. CASE SetFlag(t)
    BY Zenon, <1>0, <1>10 DEF SetFlag, Kinds, Calm, Scheduling, Placed
  <1>11. ASSUME NEW g \in Requests, NEW d \in RequestDelays, Request(t, g, d) PROVE Kinds(t)
    <2>1. Begins(t)
      BY Zenon, <1>11 DEF Begins
    <2> QED BY Zenon, <1>0, <1>11, <2>1 DEF Request, queues, Kinds, Calm
  <1>12. CASE ProcessReturns(t)
    BY Zenon, <1>0, <1>12 DEF ProcessReturns, queues, Kinds, Calm, Scheduling
  <1>13. CASE LockGlobalQ(t)
    BY Zenon, <1>0, <1>13 DEF LockGlobalQ, queues, Kinds, Calm, Scheduling
  <1>14. CASE InsertGlobal(t)
    BY Zenon, <1>14, InsertSends DEF Kinds
  <1>15. CASE Work(t)
    <2>1. evq' = evq /\ asyncq' = asyncq /\ curTick' = curTick
      BY Zenon, <1>15 DEF Work, RunProcess, queues
    <2>2. Scheduling(t)' => Begins(t)
      BY Zenon, <1>0, <1>15 DEF Work, RunProcess, Scheduling, Begins
    <2>3. pc'[0] = "python" <=> pc[0] = "python"
      BY Zenon, <1>0, <1>15 DEF Work, RunProcess
    <2> QED BY Zenon, <2>1, <2>2, <2>3 DEF Kinds, Calm
  <1>16. CASE Released1(t)
    BY Zenon, <1>0, <1>16 DEF Released1, queues, Kinds, Calm, Scheduling
  <1>17. CASE Arrive2(t)
    BY Zenon, <1>0, <1>17 DEF Arrive2, wait, queues, Kinds, Calm, Scheduling
  <1>18. CASE Return(t)
    <2>1. curTick' = curTick /\ ~Scheduling(t)' /\ ~Worker(t) /\ ~Worker(t)' /\ (pc'[0] = "python" <=> pc[0] = "python")
      BY Zenon, <1>0, <1>18 DEF Return, Scheduling, Worker
    <2> QED BY Zenon, <1>18, <2>1 DEF Return, Kinds, Calm, Merges
  <1> QED BY Zenon, <1>1, <1>2, <1>3, <1>4, <1>5, <1>6, <1>7, <1>8, <1>9, <1>10, <1>11, <1>12,
             <1>13, <1>14, <1>15, <1>16, <1>17, <1>18 DEF Acts, Step, Python

\* The queues after each kind of step.
Popped(t, x) ==
    /\ x \in Elems(evq[t]) /\ x \in Entries /\ Shrunk(evq'[t], evq[t], x)
    /\ Sorted(evq[t]) => \A y \in Elems(evq[t]) : ~Less(y, x)
    /\ asyncq' = asyncq /\ curTick'[t] = x.w /\ cur'[t] = x.ev /\ pend' = pend
    /\ \A u \in Threads \ {t} : evq'[u] = evq[u] /\ curTick'[u] = curTick[u]
    /\ pc[t] = "loop"
    /\ \/ x.ev \in Locals /\ pc'[t] = "process" /\ ~Arrive1(t)
       \/ x.ev \in Globals /\ pc'[t] \in {"work", "wait1"} /\ Arrive1(t)

Merged(t) ==
    /\ Union(evq'[t], evq[t], asyncq[t]) /\ Elems(asyncq'[t]) = {}
    /\ \A e : ~Has(asyncq'[t], e) /\ Once(asyncq'[t], e)
    /\ \A u \in Threads \ {t} : evq'[u] = evq[u] /\ asyncq'[u] = asyncq[u]

Filed(u, x) ==
    /\ Grown(evq'[u], evq[u], x) /\ (Sorted(evq[u]) => Sorted(evq'[u]))
    /\ \A v \in Threads \ {u} : evq'[v] = evq[v]

Posted(u, x) ==
    /\ Grown(asyncq'[u], asyncq[u], x)
    /\ \A v \in Threads \ {u} : asyncq'[v] = asyncq[v]

\* serviceOne() takes the least entry of the queue.
LEMMA ServicePops ==
    ASSUME Places, NEW t \in Threads, ServiceOne(t)
    PROVE  \E x \in Entries : Popped(t, x)
  <1>1. PICK x : x = Head(evq[t])
    OBVIOUS
  <1>2. /\ evq \in [Threads -> Seq(Entries)] /\ curTick \in [Threads -> Ticks]
        /\ cur \in [Threads -> Events] /\ pc \in [Threads -> PCs]
        /\ evq[t] \in Seq(Entries) /\ evq[t] # <<>>
    BY Zenon DEF Places, Types, ServiceOne
  <1>3. /\ x \in Elems(evq[t]) /\ x \in Entries /\ Shrunk(Tail(evq[t]), evq[t], x)
        /\ Sorted(evq[t]) => \A y \in Elems(evq[t]) : ~Less(y, x)
    BY Zenon, <1>1, <1>2, TailShrinks
  <1>4. /\ evq' = [evq EXCEPT ![t] = Tail(@)] /\ curTick' = [curTick EXCEPT ![t] = x.w]
        /\ cur' = [cur EXCEPT ![t] = x.ev] /\ asyncq' = asyncq /\ pend' = pend /\ pc[t] = "loop"
        /\ x.ev \in Locals => pc' = [pc EXCEPT ![t] = "process"]
        /\ x.ev \notin Locals => wait(t, x.ev, "work", "wait1")
    BY Zenon, <1>1 DEF ServiceOne
  <1>5. /\ evq'[t] = Tail(evq[t]) /\ curTick'[t] = x.w /\ cur'[t] = x.ev
        /\ \A u \in Threads \ {t} : evq'[u] = evq[u] /\ curTick'[u] = curTick[u]
    BY Zenon, <1>2, <1>4
  <1>6. \/ x.ev \in Locals /\ pc'[t] = "process" /\ ~Arrive1(t)
        \/ x.ev \in Globals /\ pc'[t] \in {"work", "wait1"} /\ Arrive1(t)
    <2>1. x.ev \in Locals \/ x.ev \in Globals
      BY Zenon, <1>3 DEF Entries, Events
    <2>2. CASE x.ev \in Locals
      BY Zenon, <1>2, <1>4, <1>5, <2>2, Constants DEF Arrive1
    <2>3. CASE x.ev \in Globals
      <3>1. wait(t, x.ev, "work", "wait1")
        BY Zenon, <1>4, <2>3, Constants
      <3>2. pc'[t] \in {"work", "wait1"}
        BY Zenon, <1>2, <3>1 DEF wait
      <3>3. Arrive1(t)
        BY Zenon, <1>4, <1>5, <2>3, <3>1 DEF Arrive1
      <3> QED BY Zenon, <2>3, <3>2, <3>3
    <2> QED BY Zenon, <2>1, <2>2, <2>3
  <1>7. Popped(t, x)
    BY Zenon, <1>3, <1>4, <1>5, <1>6 DEF Popped
  <1> QED BY Zenon, <1>3, <1>7

\* handleAsyncInsertions() moves the async_queue's entries to the queue.
LEMMA MergesUnite ==
    ASSUME Arithmetic, Places, NEW t \in Threads, handleAsyncInsertions(t)
    PROVE  Merged(t)
  <1>1. /\ evq \in [Threads -> Seq(Entries)] /\ asyncq \in [Threads -> Seq(Entries)]
        /\ evq[t] \in Seq(Entries) /\ asyncq[t] \in Seq(Entries)
    BY Zenon DEF Places, Types
  <1>2. /\ evq'[t] = Merge(evq[t], asyncq[t]) /\ asyncq'[t] = <<>>
        /\ \A u \in Threads \ {t} : evq'[u] = evq[u] /\ asyncq'[u] = asyncq[u]
    BY Zenon, <1>1 DEF handleAsyncInsertions
  <1>3. Union(evq'[t], evq[t], asyncq[t])
    BY Zenon, <1>1, <1>2, MergeUnites
  <1>4. Elems(asyncq'[t]) = {} /\ \A e : ~Has(asyncq'[t], e) /\ Once(asyncq'[t], e)
    BY <1>2 DEF Elems, Has, Once
  <1> QED BY Zenon, <1>2, <1>3, <1>4 DEF Merged

\* insert() adds one entry to a sorted queue.
LEMMA InsertsFile ==
    ASSUME Arithmetic, Places, NEW u \in Threads, NEW x \in Entries, evq' = [evq EXCEPT ![u] = Insert(@, x)]
    PROVE  Filed(u, x)
  <1>1. evq \in [Threads -> Seq(Entries)] /\ evq[u] \in Seq(Entries)
    BY Zenon DEF Places, Types
  <1>2. evq'[u] = Insert(evq[u], x) /\ \A v \in Threads \ {u} : evq'[v] = evq[v]
    BY Zenon, <1>1
  <1> QED BY Zenon, <1>1, <1>2, InsertGrows DEF Filed

\* asyncInsert() adds one entry to an async_queue.
LEMMA SendsPost ==
    ASSUME Places, NEW u \in Threads, NEW x \in Entries, asyncq' = [asyncq EXCEPT ![u] = Append(@, x)]
    PROVE  Posted(u, x)
  <1>1. asyncq \in [Threads -> Seq(Entries)] /\ asyncq[u] \in Seq(Entries)
    BY Zenon DEF Places, Types
  <1>2. asyncq'[u] = Append(asyncq[u], x) /\ \A v \in Threads \ {u} : asyncq'[v] = asyncq[v]
    BY Zenon, <1>1
  <1> QED BY Zenon, <1>1, <1>2, AppendGrows DEF Posted

-----------------------------------------------------------------------------
(* Time.                                                                    *)

\* Nothing is behind the clock of its queue.
OnTime(t) ==
    /\ Sorted(evq[t])
    /\ \A x \in Elems(evq[t]) : x.w >= curTick[t]
    /\ \A x \in Elems(asyncq[t]) : x.w >= curTick[t]

\* Every queue is sorted and holds nothing that its clock has passed.
Ordered == \A t \in Threads : OnTime(t)

\* Threads that are stopped, or between the barriers of a global event, are at one tick.
Bound(t) == Stopped(t) \/ \E g \in Globals : Mid(t, g)

\* A thread that left its loop, or is at a barrier event, has the clock of all.
SameClock == \A t, u \in Threads : Bound(t) => curTick[t] = curTick[u]

\* All barrier events of g are for tick w.
AllAt(t, g, w) ==
    /\ \A x \in Elems(evq[t]) : x.ev = g => x.w = w
    /\ \A x \in Elems(asyncq[t]) : x.ev = g => x.w = w
    /\ Scheduling(t) /\ pend[t].ev = g => pend[t].w = w
    /\ Pre(t, g) => curTick[t] = w

\* All barrier events of a requested global event are for one tick.
OneTick == \A g \in Globals \ {Sync} : \E w \in Ticks : \A t \in Threads : AllAt(t, g, w)

\* The main thread has not called simulate() again.
AtRest == pc[0] \in {"wait2", "exit", "python"}

\* The limit event is in every queue until it is served, and no clock passes it.
LimitKept ==
    \A t \in Threads :
        /\ curTick[t] <= LastTick
        /\ Once(evq[t], Limit) /\ ~Has(asyncq[t], Limit)
        /\ \A x \in Elems(evq[t]) : x.ev = Limit => x.w <= LastTick
        /\ Has(evq[t], Limit) \/ Pre(t, Limit) \/ Mid(t, Limit) \/ (Stopped(t) /\ AtRest)

\* The barrier event of queue t is already in its async_queue, when the quantum
\* event schedules itself again.
Inserted(t) == \A u \in Threads : Worker(u) /\ cur[u] = Sync => pc[u] # "work" /\ t < pend[u].i

\* An event sent to other queues is for tick S or later; a requested global event is
\* for a later tick, unless it may be asked for with no delay beyond the quantum.
Later(e, w, S) == w >= S /\ (e \in Requests /\ 0 \notin RequestDelays => w > S)

\* The places of a thread in a quantum that ends at tick S: inside it, waiting at
\* its end, or still at the end of the one before.
In(t, S) ==
    /\ ~Inside(t, Sync)
    /\ Once(evq[t], Sync) /\ Entry(Sync, S) \in Elems(evq[t]) /\ ~Has(asyncq[t], Sync)
    /\ curTick[t] <= S /\ S <= curTick[t] + Quantum
    /\ Entered(t) => \A x \in Elems(asyncq[t]) : Later(x.ev, x.w, S)

At(t, S) ==
    /\ Pre(t, Sync) /\ curTick[t] = S
    /\ ~Has(evq[t], Sync) /\ ~Has(asyncq[t], Sync)
    /\ \A x \in Elems(asyncq[t]) : Later(x.ev, x.w, S)

Old(t, S) ==
    /\ Mid(t, Sync) \/ Post(t, Sync)
    /\ curTick[t] + Quantum = S
    /\ ~Has(evq[t], Sync)
    /\ Inserted(t) => Once(asyncq[t], Sync) /\ Entry(Sync, S) \in Elems(asyncq[t])
    /\ ~Inserted(t) => ~Has(asyncq[t], Sync)

\* What a schedule() of a global event in progress will insert is not before S.
NotBefore(t, S) == Scheduling(t) => Later(pend[t].ev, pend[t].w, S) /\ (Worker(t) => pend[t].w = S)

\* Every thread is in the quantum that ends at S, or has just ended the one before.
Round(S) == \A t \in Threads : (In(t, S) \/ At(t, S) \/ Old(t, S)) /\ NotBefore(t, S)

NoSync == \A t \in Threads : ~Has(evq[t], Sync) /\ ~Has(asyncq[t], Sync)

\* Inside simulate() some tick S ends the current quantum.
Rounds == IF pc[0] = "python" THEN NoSync ELSE \E S \in Ticks : Round(S)

Timed == Ordered /\ SameClock /\ OneTick /\ LimitKept /\ Rounds

\* r is q without the event e.
Dropped(r, q, e) ==
    /\ r \in Seq(Entries) /\ Elems(r) \subseteq Elems(q)
    /\ \A x \in Elems(q) : x.ev # e => x \in Elems(r)
    /\ Sorted(q) => Sorted(r)
    /\ \A f : Once(q, f) => Once(r, f)
    /\ Once(q, e) => ~Has(r, e)

\* remove() drops the entries of one event and nothing else.
LEMMA WithoutDrops ==
    ASSUME NEW q \in Seq(Entries), NEW e
    PROVE  Dropped(Without(q, e), q, e)
  <1>1. CASE ~Has(q, e)
    <2>1. Without(q, e) = q
      BY Zenon, <1>1, WithoutShrinks
    <2> QED BY Zenon, <1>1, <2>1 DEF Dropped
  <1>2. CASE Has(q, e)
    <2>1. PICK x \in Elems(q) : x.ev = e /\ Shrunk(Without(q, e), q, x)
      BY Zenon, <1>2, WithoutShrinks
    <2> QED BY Zenon, <2>1 DEF Dropped, Shrunk
  <1> QED BY Zenon, <1>1, <1>2

\* The queue of u when simulate() has moved the limit event to l and put the
\* quantum event at s.
Restarted(u, l, s) ==
    /\ Entry(Limit, l) \in Elems(evq'[u]) /\ Entry(Sync, s) \in Elems(evq'[u])
    /\ \A x \in Elems(evq'[u]) : x \in Elems(evq[u]) \/ x = Entry(Limit, l) \/ x = Entry(Sync, s)
    /\ \A x \in Elems(evq[u]) : x.ev # Limit => x \in Elems(evq'[u])
    /\ Sorted(evq[u]) => Sorted(evq'[u])
    /\ Once(evq[u], Limit) => Once(evq'[u], Limit) /\ \A x \in Elems(evq'[u]) : x.ev = Limit => x = Entry(Limit, l)
    /\ ~Has(evq[u], Sync) => Once(evq'[u], Sync)
    /\ \A e : e # Limit /\ e # Sync /\ Once(evq[u], e) => Once(evq'[u], e)

\* simulate() moves the limit event and adds the quantum event on every queue.
LEMMA SimulateRestarts ==
    ASSUME Arithmetic, Places, NEW n \in Cycles, Simulate(n)
    PROVE  \E l, s \in Ticks :
              /\ l = (IF n < LastTick - curTick[0] THEN curTick[0] + n ELSE LastTick)
              /\ s = curTick[0] + Quantum
              /\ \A u \in Threads : Restarted(u, l, s)
  <1>1. PICK l : l = IF n < LastTick - curTick[0] THEN curTick[0] + n ELSE LastTick
    OBVIOUS
  <1>2. PICK s : s = curTick[0] + Quantum
    OBVIOUS
  <1>3. l \in Ticks /\ s \in Ticks
    <2>1. curTick[0] \in Nat /\ n \in Nat /\ LastTick \in Nat /\ Quantum \in Nat
      BY Zenon, Constants, DelaysAssumption DEF Places, Types, Ticks
    <2> QED BY ONLY <1>1, <1>2, <2>1 DEF Ticks
  <1>4. evq' = [u \in Threads |-> Insert(Insert(Without(evq[u], Limit), Entry(Limit, l)), Entry(Sync, s))]
    BY Zenon, <1>1, <1>2 DEF Simulate
  <1>5. ASSUME NEW u \in Threads PROVE Restarted(u, l, s)
    <2> DEFINE a == Without(evq[u], Limit)
               b == Insert(a, Entry(Limit, l))
               c == Insert(b, Entry(Sync, s))
    <2>0. /\ evq[u] \in Seq(Entries) /\ Limit # Sync
          /\ Entry(Limit, l) \in Entries /\ Entry(Limit, l).ev = Limit
          /\ Entry(Sync, s) \in Entries /\ Entry(Sync, s).ev = Sync
      BY Zenon, <1>3, Constants DEF Places, Types
    <2>1. evq'[u] = c
      BY Zenon, <1>4
    <2>2. Dropped(a, evq[u], Limit)
      BY Zenon, <2>0, WithoutDrops
    <2> HIDE DEF a
    <2>3. Grown(b, a, Entry(Limit, l)) /\ (Sorted(a) => Sorted(b))
      BY Zenon, <2>0, <2>2, InsertGrows DEF Dropped
    <2> HIDE DEF b
    <2>4. Grown(c, b, Entry(Sync, s)) /\ (Sorted(b) => Sorted(c))
      BY Zenon, <2>0, <2>3, InsertGrows DEF Grown
    <2> HIDE DEF c
    <2>5. Elems(b) = Elems(a) \cup {Entry(Limit, l)} /\ Elems(c) = Elems(b) \cup {Entry(Sync, s)}
      BY Zenon, <2>3, <2>4 DEF Grown
    <2>6. Elems(a) \subseteq Elems(evq[u]) /\ \A x \in Elems(evq[u]) : x.ev # Limit => x \in Elems(a)
      BY Zenon, <2>2 DEF Dropped
    <2>7. Sorted(evq[u]) => Sorted(c)
      BY Zenon, <2>2, <2>3, <2>4 DEF Dropped
    <2>8. ASSUME Once(evq[u], Limit)
          PROVE  Once(c, Limit) /\ \A x \in Elems(c) : x.ev = Limit => x = Entry(Limit, l)
      <3>1. ~Has(a, Limit) /\ Once(a, Limit)
        BY Zenon, <2>2, <2>8 DEF Dropped
      <3>2. Once(b, Limit)
        BY Zenon, <2>3, <3>1 DEF Grown
      <3>3. Once(c, Limit)
        BY Zenon, <2>0, <2>4, <3>2 DEF Grown
      <3>4. \A x \in Elems(a) : x.ev # Limit
        BY Zenon, <3>1, HasElems
      <3> QED BY Zenon, <2>0, <2>5, <3>3, <3>4
    <2>9. ASSUME ~Has(evq[u], Sync) PROVE Once(c, Sync)
      <3>1. \A x \in Elems(evq[u]) : x.ev # Sync
        BY Zenon, <2>9, HasElems
      <3>2. \A x \in Elems(b) : x.ev # Sync
        BY Zenon, <2>0, <2>5, <2>6, <3>1
      <3>3. ~Has(b, Sync)
        BY Zenon, <3>2, HasElems
      <3>4. Once(b, Sync)
        BY Zenon, <3>3 DEF Once, Has
      <3> QED BY Zenon, <2>4, <3>3, <3>4 DEF Grown
    <2>10. ASSUME NEW e, e # Limit, e # Sync, Once(evq[u], e) PROVE Once(c, e)
      <3>1. Once(a, e)
        BY Zenon, <2>2, <2>10 DEF Dropped
      <3>2. Once(b, e)
        BY Zenon, <2>0, <2>3, <2>10, <3>1 DEF Grown
      <3> QED BY Zenon, <2>0, <2>4, <2>10, <3>2 DEF Grown
    <2> QED BY Zenon, <2>1, <2>5, <2>6, <2>7, <2>8, <2>9, <2>10 DEF Restarted
  <1> QED BY Zenon, <1>1, <1>2, <1>3, <1>5

\* simulate() has taken the quantum event away.
LEMMA LeaveDrops ==
    ASSUME Places, LeaveLoop(0)
    PROVE  /\ \A u \in Threads : Dropped(evq'[u], evq[u], Sync)
           /\ asyncq' = asyncq /\ curTick' = curTick /\ pc[0] = "exit" /\ pc'[0] = "python"
  <1>1. evq' = [u \in Threads |-> Without(evq[u], Sync)] /\ asyncq' = asyncq /\ curTick' = curTick /\ pc[0] = "exit"
    BY Zenon DEF LeaveLoop
  <1>2. pc'[0] = "python"
    BY Constants DEF LeaveLoop, Places, Types
  <1>3. ASSUME NEW u \in Threads PROVE Dropped(evq'[u], evq[u], Sync)
    <2>1. evq'[u] = Without(evq[u], Sync) /\ evq[u] \in Seq(Entries)
      BY Zenon, <1>1 DEF Places, Types
    <2> QED BY Zenon, <2>1, WithoutDrops
  <1> QED BY Zenon, <1>1, <1>2, <1>3

\* A thread inside a global event is in one of three places.
LEMMA PlaceNames ==
    ASSUME NEW t
    PROVE  \A g : Inside(t, g) <=> Pre(t, g) \/ Mid(t, g) \/ Post(t, g)
  BY Zenon DEF Inside, InBarrier, Pre, Mid, Post

\* In a quantum that ends at S, all clocks are within a quantum of S, and a thread
\* outside the quantum event's barriers has it in its queue.
LEMMA RoundFacts ==
    ASSUME Places, NEW S \in Ticks, Round(S), NEW t \in Threads
    PROVE  /\ curTick[t] <= S /\ S <= curTick[t] + Quantum
           /\ ~Inside(t, Sync) => In(t, S)
           /\ Pre(t, Sync) => At(t, S)
           /\ Mid(t, Sync) \/ Post(t, Sync) => Old(t, S)
           /\ NotBefore(t, S)
  <1>1. (In(t, S) \/ At(t, S) \/ Old(t, S)) /\ NotBefore(t, S)
    BY Zenon DEF Round
  <1>2. Inside(t, Sync) <=> Pre(t, Sync) \/ Mid(t, Sync) \/ Post(t, Sync)
    BY Zenon, PlaceNames
  <1>3. curTick[t] <= S /\ S <= curTick[t] + Quantum
    <2>1. curTick[t] \in Nat /\ S \in Nat /\ Quantum \in Nat
      BY Zenon, Constants DEF Places, Types, Ticks
    <2>2. \/ curTick[t] <= S /\ S <= curTick[t] + Quantum
          \/ curTick[t] = S
          \/ curTick[t] + Quantum = S
      BY Zenon, <1>1 DEF In, At, Old
    <2> QED BY <2>1, <2>2
  <1>4. ~(Pre(t, Sync) /\ (Mid(t, Sync) \/ Post(t, Sync)))
    BY Zenon DEF Pre, Mid, Post
  <1> QED BY Zenon, <1>1, <1>2, <1>3, <1>4 DEF In, At, Old

\* Entries are events with ticks.
LEMMA ElemsTyped ==
    ASSUME Places, NEW t \in Threads
    PROVE  \A x \in Elems(evq[t]) \cup Elems(asyncq[t]) : x \in Entries /\ x.ev \in Events /\ x.w \in Nat
  <1>1. evq[t] \in Seq(Entries) /\ asyncq[t] \in Seq(Entries)
    BY Zenon DEF Places, Types
  <1>2. \A x \in Elems(evq[t]) \cup Elems(asyncq[t]) : x \in Entries
    BY <1>1 DEF Elems
  <1> QED BY Zenon, <1>2 DEF Entries, Ticks

\* The clock goes no further than the end of the quantum.
LEMMA PopWithin ==
    ASSUME Places, Timed, NEW t \in Threads, NEW x \in Entries, Popped(t, x)
    PROVE  /\ ~Stopped(t) /\ Entered(t) /\ ~InBarrier(t) /\ x.w \in Nat /\ x.w >= curTick[t]
           /\ \A y \in Elems(evq[t]) : x.w <= y.w
           /\ \E S \in Ticks : Round(S) /\ In(t, S) /\ x.w <= S
  <1>1. pc[t] = "loop"
    BY Zenon DEF Popped
  <1>2. ~Stopped(t) /\ Entered(t) /\ ~InBarrier(t)
    BY Zenon, <1>1 DEF Stopped, Entered, Idle, Ashore, BlockedOn, Post, InBarrier, Worker
  <1>3. pc[0] # "python"
    BY Zenon, <1>2, Running
  <1>4. PICK S \in Ticks : Round(S)
    BY Zenon, <1>3 DEF Timed, Rounds
  <1>5. In(t, S)
    BY Zenon, <1>2, <1>4, RoundFacts DEF Inside
  <1>6. ASSUME NEW y \in Elems(evq[t]) PROVE x.w <= y.w
    <2>1. ~Less(y, x) /\ y \in Entries
      BY Zenon, ElemsTyped DEF Popped, Timed, Ordered, OnTime
    <2> QED BY Zenon, <2>1, LessOrder
  <1>7. Entry(Sync, S) \in Elems(evq[t]) /\ Entry(Sync, S).w = S
    BY Zenon, <1>5, Constants DEF In
  <1>8. x.w <= S
    BY Zenon, <1>6, <1>7
  <1>9. x.w \in Nat /\ x.w >= curTick[t]
    BY Zenon, ElemsTyped DEF Popped, Timed, Ordered, OnTime
  <1> QED BY Zenon, <1>2, <1>4, <1>5, <1>6, <1>8, <1>9

\* What a thread sends is not before the end of the quantum.
LEMMA SendsAhead ==
    ASSUME Places, Timed, NEW t \in Threads, NEW u \in Threads, NEW x \in Entries, Sends(t, u, x),
           NEW S \in Ticks, Round(S)
    PROVE  Later(x.ev, x.w, S) /\ x.w >= S /\ x.w >= curTick[u] /\ x.w \in Nat
  <1>0. /\ S \in Nat /\ Quantum \in Nat /\ x.w \in Nat /\ curTick[t] \in Nat /\ curTick[u] \in Nat
        /\ curTick[u] <= S /\ S <= curTick[t] + Quantum
    <2>1. S \in Nat /\ Quantum \in Nat /\ curTick[t] \in Nat /\ curTick[u] \in Nat
      BY Zenon, Constants DEF Places, Types, Ticks
    <2>2. x.w \in Nat
      BY Zenon DEF Entries, Ticks
    <2> QED BY Zenon, <2>1, <2>2, RoundFacts
  <1>1. CASE x.w >= curTick[t] + Quantum /\ x.ev \in Locals
    <2>1. x.ev \notin Requests
      BY Zenon, <1>1, ParallelAssumption DEF Globals
    <2> QED BY <1>0, <1>1, <2>1 DEF Later
  <1>2. CASE InsertGlobal(t) /\ x = Entry(pend[t].ev, pend[t].w)
    <2>1. Scheduling(t)
      BY Zenon, <1>2 DEF InsertGlobal, Scheduling
    <2>2. Later(pend[t].ev, pend[t].w, S)
      BY Zenon, <2>1, RoundFacts DEF NotBefore
    <2>3. x.w = pend[t].w /\ x.ev = pend[t].ev
      BY Zenon, <1>2 DEF Entry
    <2>4. Later(x.ev, x.w, S)
      BY Zenon, <2>2, <2>3
    <2>5. x.w >= S
      BY Zenon, <2>4 DEF Later
    <2> QED BY <1>0, <2>4, <2>5
  <1> QED BY Zenon, <1>1, <1>2 DEF Sends

\* When one thread is stopped all are, at the same tick.
LEMMA StoppedClocks ==
    ASSUME Timed, Places, NEW t \in Threads, Stopped(t)
    PROVE  \A u \in Threads : Stopped(u) /\ curTick[u] = curTick[t]
  BY Zenon DEF Timed, SameClock, Bound, Places, StopTogether

\* In Python, all threads are stopped.
LEMMA PythonStopped ==
    ASSUME Places, Timed, pc[0] \in {"python", "exit"}
    PROVE  \A u \in Threads : Stopped(u) /\ curTick[u] = curTick[0] /\ ~Inside(u, Sync) /\ ~Scheduling(u)
  <1>1. Stopped(0)
    BY Zenon DEF Stopped, Idle, Ashore
  <1>2. ASSUME NEW u \in Threads PROVE Stopped(u) /\ curTick[u] = curTick[0] /\ ~Inside(u, Sync) /\ ~Scheduling(u)
    <2>1. Stopped(u) /\ curTick[u] = curTick[0]
      BY Zenon, <1>1, Constants, StoppedClocks
    <2>2. Idle(u) => ~InBarrier(u)
      BY Zenon, OutsideGlobals DEF Located, Places
    <2>3. ~Inside(u, Sync)
      <3>1. Sync \notin ExitEvents
        BY Zenon, Constants
      <3> QED BY Zenon, <2>1, <2>2, <3>1 DEF Stopped, Post, Inside
    <2>4. ~Scheduling(u)
      BY Zenon, <2>1, BlockedAshore DEF Stopped, Idle, Ashore, Post, Scheduling, Places
    <2> QED BY Zenon, <2>1, <2>3, <2>4
  <1> QED BY Zenon, <1>2

\* Every step keeps the queues sorted, and nothing in the past.
LEMMA OrderedStep ==
    ASSUME Arithmetic, Places, Timed, NEW t \in Threads, Acts(t)
    PROVE  Ordered'
  <1>0. Kinds(t)
    BY Zenon, ActsKinds
  <1>00. \A v \in Threads : OnTime(v)
    BY Zenon DEF Timed, Ordered
  <1>1. ASSUME NEW v \in Threads, evq'[v] = evq[v], asyncq'[v] = asyncq[v], curTick'[v] = curTick[v]
        PROVE  OnTime(v)'
    <2>1. OnTime(v)
      BY Zenon, <1>00
    <2> QED BY Zenon, <1>1, <2>1 DEF OnTime
  <1>2. CASE Calm(t)
    BY Zenon, <1>1, <1>2 DEF Calm, Ordered
  <1>3. CASE ServiceOne(t)
    <2>1. PICK x \in Entries : Popped(t, x)
      BY Zenon, <1>3, ServicePops
    <2>2. PICK S \in Ticks : Round(S) /\ In(t, S) /\ x.w <= S
      BY Zenon, <2>1, PopWithin
    <2>3. OnTime(t)'
      <3>1. Sorted(evq'[t]) /\ Elems(evq'[t]) \subseteq Elems(evq[t]) /\ asyncq' = asyncq /\ curTick'[t] = x.w
        BY Zenon, <1>00, <2>1 DEF Popped, Shrunk, OnTime
      <3>2. ASSUME NEW y \in Elems(evq[t]) PROVE y.w >= x.w
        <4>1. x.w <= y.w /\ x.w \in Nat /\ y.w \in Nat
          BY Zenon, <2>1, PopWithin, ElemsTyped
        <4> QED BY Zenon, <4>1
      <3>3. ASSUME NEW y \in Elems(asyncq[t]) PROVE y.w >= x.w
        <4>1. y.w >= S /\ y.w \in Nat /\ x.w <= S /\ x.w \in Nat /\ S \in Nat
          BY Zenon, <2>1, <2>2, PopWithin, ElemsTyped DEF In, Later, Ticks
        <4> QED BY <4>1
      <3> QED BY Zenon, <3>1, <3>2, <3>3 DEF OnTime
    <2>4. \A v \in Threads \ {t} : OnTime(v)'
      BY Zenon, <1>1, <2>1 DEF Popped
    <2> QED BY Zenon, <2>3, <2>4 DEF Ordered
  <1>4. CASE Merges(t)
    <2>1. Merged(t) /\ curTick' = curTick
      BY Zenon, <1>4, MergesUnite DEF Merges
    <2>2. OnTime(t)'
      BY Zenon, <1>00, <2>1 DEF Merged, Union, OnTime
    <2>3. \A v \in Threads \ {t} : OnTime(v)'
      BY Zenon, <1>1, <2>1 DEF Merged
    <2> QED BY Zenon, <2>2, <2>3 DEF Ordered
  <1>5. ASSUME NEW u \in Threads, NEW x \in Entries, Inserts(u, x) PROVE Ordered'
    <2>1. Filed(u, x) /\ curTick' = curTick /\ asyncq' = asyncq /\ x.w >= curTick[u]
      BY Zenon, <1>5, InsertsFile DEF Inserts
    <2>2. OnTime(u)'
      BY Zenon, <1>00, <2>1 DEF Filed, Grown, OnTime
    <2>3. \A v \in Threads \ {u} : OnTime(v)'
      BY Zenon, <1>1, <2>1 DEF Filed
    <2> QED BY Zenon, <2>2, <2>3 DEF Ordered
  <1>6. ASSUME NEW u \in Threads, NEW x \in Entries, Sends(t, u, x) PROVE Ordered'
    <2>1. Posted(u, x) /\ curTick' = curTick /\ evq' = evq /\ pc[0] # "python"
      BY Zenon, <1>6, SendsPost DEF Sends
    <2>2. PICK S \in Ticks : Round(S)
      BY Zenon, <2>1 DEF Timed, Rounds
    <2>3. x.w >= curTick[u]
      BY Zenon, <1>6, <2>2, SendsAhead
    <2>4. OnTime(u)'
      BY Zenon, <1>00, <2>1, <2>3 DEF Posted, Grown, OnTime
    <2>5. \A v \in Threads \ {u} : OnTime(v)'
      BY Zenon, <1>1, <2>1 DEF Posted
    <2> QED BY Zenon, <2>4, <2>5 DEF Ordered
  <1>7. ASSUME NEW n \in Cycles, Simulate(n) PROVE Ordered'
    <2>1. PICK l \in Ticks, s \in Ticks :
              /\ l = (IF n < LastTick - curTick[0] THEN curTick[0] + n ELSE LastTick)
              /\ s = curTick[0] + Quantum
              /\ \A u \in Threads : Restarted(u, l, s)
      BY Zenon, <1>7, SimulateRestarts
    <2>2. pc[0] = "python" /\ asyncq' = asyncq /\ curTick' = curTick
      BY Zenon, <1>7 DEF Simulate
    <2>3. l >= curTick[0] /\ s >= curTick[0]
      <3>1. /\ curTick[0] \in Nat /\ n \in Nat /\ LastTick \in Nat /\ Quantum \in Nat
            /\ curTick[0] <= LastTick
        BY Zenon, Constants, DelaysAssumption DEF Places, Types, Ticks, Timed, LimitKept
      <3> QED BY ONLY <2>1, <3>1
    <2>4. Entry(Limit, l).w = l /\ Entry(Sync, s).w = s
      BY Zenon, <2>1, Constants
    <2>5. ASSUME NEW u \in Threads PROVE OnTime(u)'
      <3>1. curTick[u] = curTick[0]
        BY Zenon, <2>2, PythonStopped
      <3>2. Restarted(u, l, s) /\ OnTime(u)
        BY Zenon, <1>00, <2>1
      <3> QED BY Zenon, <2>2, <2>3, <2>4, <3>1, <3>2 DEF Restarted, OnTime
    <2> QED BY Zenon, <2>5 DEF Ordered
  <1>8. CASE t = 0 /\ LeaveLoop(0)
    <2>1. /\ \A u \in Threads : Dropped(evq'[u], evq[u], Sync)
          /\ asyncq' = asyncq /\ curTick' = curTick
      BY Zenon, <1>8, LeaveDrops
    <2>2. ASSUME NEW u \in Threads PROVE OnTime(u)'
      <3>1. Dropped(evq'[u], evq[u], Sync) /\ OnTime(u)
        BY Zenon, <1>00, <2>1
      <3> QED BY Zenon, <2>1, <3>1 DEF Dropped, OnTime
    <2> QED BY Zenon, <2>2 DEF Ordered
  <1> QED BY Zenon, <1>0, <1>2, <1>3, <1>4, <1>5, <1>6, <1>7, <1>8 DEF Kinds

\* In the loop a thread does nothing but service events.
LEMMA LoopServes ==
    ASSUME Arithmetic, Places, NEW t \in Threads, Acts(t), ~ServiceOne(t)
    PROVE  pc[t] # "loop" /\ ~Arrive1(t) /\ Carries(t)
  <1>1. pc[t] # "loop"
    <2>1. CASE t = 0 /\ Python
      BY Zenon, <2>1 DEF Python, Simulate, Startup
    <2>2. CASE Step(t)
      BY Zenon, <2>2 DEF Step, ThreadWait, ThreadReleased, EnterLoop, LeaveLoop, ScheduleOwn, Send, SetFlag,
         Request, ProcessReturns, LockGlobalQ, InsertGlobal, Work, RunProcess, Released1, Arrive2, Return
    <2> QED BY Zenon, <2>1, <2>2 DEF Acts
  <1>2. ~Arrive1(t)
    BY Zenon, <1>1 DEF Arrive1
  <1> QED BY Zenon, <1>1, <1>2, ActsCarries

\* A schedule() in progress keeps its event and tick.
SchedKept(t) ==
    \A v \in Threads :
        Scheduling(v)' => \/ v = t /\ Begins(t)
                          \/ /\ Scheduling(v) /\ (Worker(v)' <=> Worker(v))
                             /\ pend'[v].ev = pend[v].ev /\ pend'[v].w = pend[v].w

\* A schedule() in progress keeps its event and its tick.
LEMMA ActsSched ==
    ASSUME Arithmetic, Places, NEW t \in Threads, Acts(t)
    PROVE  SchedKept(t)
  <1>0. Kinds(t) /\ Only(t)
    BY Zenon, ActsKinds, ActsMoves DEF Places, Moves
  <1>1. \A v \in Threads \ {t} : Scheduling(v)' => /\ Scheduling(v) /\ (Worker(v)' <=> Worker(v))
                                                   /\ pend'[v].ev = pend[v].ev /\ pend'[v].w = pend[v].w
    BY Zenon, <1>0 DEF Only, Scheduling, Worker
  <1> DEFINE Goal == Scheduling(t)' => \/ Begins(t)
                                       \/ /\ Scheduling(t) /\ (Worker(t)' <=> Worker(t))
                                          /\ pend'[t].ev = pend[t].ev /\ pend'[t].w = pend[t].w
  <1>2. ASSUME Calm(t) PROVE Goal
    BY Zenon, <1>2 DEF Calm, Worker, Scheduling
  <1>3. ASSUME ServiceOne(t) PROVE Goal
    <2>1. PICK x \in Entries : Popped(t, x)
      BY Zenon, <1>3, ServicePops
    <2> QED BY Zenon, <2>1 DEF Popped, Scheduling
  <1>4. ASSUME Merges(t) PROVE Goal
    BY Zenon, <1>4 DEF Merges
  <1>5. ASSUME NEW u \in Threads, NEW x \in Entries, Inserts(u, x) PROVE Goal
    BY Zenon, <1>5 DEF Inserts, Scheduling, Worker
  <1>6. ASSUME NEW u \in Threads, NEW x \in Entries, Sends(t, u, x) PROVE Goal
    <2>1. CASE pc'[t] = "flag"
      BY Zenon, <2>1 DEF Scheduling
    <2>2. CASE InsertGlobal(t)
      <3>1. /\ pend \in [Threads -> [ev : Events, w : Ticks, i : Threads, ret : PCs]]
            /\ pc \in [Threads -> PCs] /\ Placed(t)
        BY Zenon DEF Places, Types, Control
      <3>2. pc[t] = "insert" /\ Scheduling(t)
        BY Zenon, <2>2 DEF InsertGlobal, Scheduling
      <3>3. CASE pend[t].i < N - 1
        <4>1. /\ pend' = [pend EXCEPT ![t].i = pend[t].i + 1] /\ pc' = pc
          BY Zenon, <2>2, <3>3 DEF InsertGlobal
        <4>2. pend'[t].ev = pend[t].ev /\ pend'[t].w = pend[t].w /\ pend'[t].ret = pend[t].ret
          BY ONLY <3>1, <4>1, t \in Threads
        <4> QED BY Zenon, <3>2, <4>1, <4>2 DEF Worker
      <3>4. CASE ~(pend[t].i < N - 1)
        <4>1. pc'[t] = pend[t].ret
          BY Zenon, <2>2, <3>1, <3>4 DEF InsertGlobal
        <4> QED BY Zenon, <3>1, <3>2, <4>1 DEF Placed, Scheduling
      <3> QED BY Zenon, <3>3, <3>4
    <2> QED BY Zenon, <1>6, <2>1, <2>2 DEF Sends
  <1>7. ASSUME NEW n \in Cycles, Simulate(n), t = 0 PROVE Goal
    BY Zenon, <1>7 DEF Simulate, Scheduling, Places, Types
  <1>8. ASSUME t = 0, LeaveLoop(0) PROVE Goal
    BY Zenon, <1>8, LeaveDrops DEF Scheduling
  <1>9. Goal
    <2> HIDE DEF Goal
    <2> QED BY Zenon, <1>0, <1>2, <1>3, <1>4, <1>5, <1>6, <1>7, <1>8 DEF Kinds
  <1> QED BY Zenon, <1>1, <1>9 DEF SchedKept

\* Two entries of an event that is in a queue once are one.
LEMMA OnceElem ==
    ASSUME NEW q, NEW e, Once(q, e), NEW x \in Elems(q), NEW y \in Elems(q), x.ev = e, y.ev = e
    PROVE  x = y
  BY Zenon DEF Elems, Once

\* Only serviceOne() advances a clock.
LEMMA ClockKept ==
    ASSUME Places, NEW t \in Threads, Acts(t), ~ServiceOne(t)
    PROVE  curTick' = curTick
  <1>1. Kinds(t)
    BY Zenon, ActsKinds
  <1> QED BY Zenon, <1>1, LeaveDrops DEF Kinds, Calm, Merges, Inserts, Sends, Simulate

\* Nobody is bound while a thread is in the loop.
LEMMA PopUnbound ==
    ASSUME Places, Timed, NEW t \in Threads, NEW x \in Entries, Popped(t, x)
    PROVE  \A u \in Threads : ~Bound(u)
  <1>1. ~Stopped(t) /\ ~InBarrier(t)
    BY Zenon, PopWithin
  <1>2. \A g \in Globals : ~Mid(t, g)
    BY Zenon, <1>1 DEF Mid, Inside
  <1>3. \A u \in Threads : ~Stopped(u)
    BY Zenon, <1>1, Running
  <1> QED BY Zenon, <1>2, <1>3 DEF Bound, Places, Barred, Together

\* The threads meet at one tick, in the first barrier of a global event; nobody
\* moves on while others wait in it, and an exit event stops all of them.
LEMMA SameClockStep ==
    ASSUME Arithmetic, Places, Timed, NEW t \in Threads, Acts(t)
    PROVE  SameClock'
  \* Popping an event that all threads wait for.
  <1>PopMeets. ASSUME NEW x \in Entries, Popped(t, x), x.ev \in Globals, NEW u \in Threads,
                      Pre(u, x.ev)
               PROVE  curTick[u] = x.w
    <2> USE <1>PopMeets
    <2>1. CASE x.ev = Sync
      <3>1. PICK S \in Ticks : Round(S) /\ In(t, S)
        BY Zenon, PopWithin
      <3>2. curTick[u] = S
        BY Zenon, <2>1, <3>1, RoundFacts DEF At
      <3>3. Once(evq[t], Sync) /\ Entry(Sync, S) \in Elems(evq[t]) /\ Entry(Sync, S).ev = Sync /\ Entry(Sync, S).w = S
        BY Zenon, <3>1, Constants DEF In
      <3>4. x = Entry(Sync, S)
        BY Zenon, <2>1, <3>3, OnceElem DEF Popped
      <3> QED BY Zenon, <3>2, <3>3, <3>4
    <2>2. CASE x.ev # Sync
      <3>1. PICK w \in Ticks : \A v \in Threads : AllAt(v, x.ev, w)
        BY Zenon, <2>2 DEF Timed, OneTick
      <3> QED BY Zenon, <3>1 DEF AllAt, Popped
    <2> QED BY Zenon, <2>1, <2>2
  <1>0. Stops(t) /\ Only(t) /\ Types /\ Control /\ Barred
    BY Zenon, ActsStops, ActsMoves DEF Places, Moves
  <1>1. CASE ~ServiceOne(t)
    <2>1. curTick' = curTick /\ Carries(t)
      BY Zenon, <1>1, ClockKept, LoopServes
    <2>2. ASSUME NEW u \in Threads, Bound(u)' PROVE Bound(u)
      <3>1. CASE Halts(t)
        <4>1. PICK g : g = cur[t]
          OBVIOUS
        <4>2. Arrived2(t, g) /\ numLeft[g] = 1
          BY Zenon, <1>0, <3>1, <4>1, Arrive2Keeps DEF Halts
        <4> QED BY Zenon, <4>2 DEF Arrived2, Bound
      <3>2. CASE ~Halts(t)
        <4>1. Stopped(u)' => Stopped(u)
          BY Zenon, <1>0, <3>2 DEF Stops
        <4>2. \A g \in Globals : Mid(u, g)' => Mid(u, g)
          BY Zenon, <2>1 DEF Carries
        <4> QED BY Zenon, <2>2, <4>1, <4>2 DEF Bound
      <3> QED BY Zenon, <3>1, <3>2
    <2> QED BY Zenon, <2>1, <2>2 DEF Timed, SameClock
  <1>2. CASE ServiceOne(t)
    <2>1. PICK x \in Entries : Popped(t, x)
      BY Zenon, <1>2, ServicePops
    <2>2. \A u \in Threads : ~Bound(u)
      BY Zenon, <2>1, PopUnbound
    <2>3. \A u \in Threads : ~Stopped(u)'
      <3>1. ~Halts(t)
        BY Zenon, <2>1 DEF Popped, Halts, Arrive2
      <3> QED BY Zenon, <1>0, <2>2, <3>1 DEF Stops, Bound
    <2>4. CASE ~Arrive1(t)
      <3>1. \A u \in Threads, g \in Globals : ~Mid(u, g)'
        BY Zenon, <2>2, <2>4, ActsCarries DEF Carries, Bound
      <3> QED BY Zenon, <2>3, <3>1 DEF SameClock, Bound
    <2>5. CASE Arrive1(t)
      <3>1. PICK g : g = cur'[t]
        OBVIOUS
      <3>2. Arrived1(t, g) /\ g = x.ev /\ g \in Globals
        <4>1. Arrived1(t, g)
          BY Zenon, <1>0, <2>5, <3>1, Arrive1Keeps
        <4>2. g = x.ev
          BY Zenon, <2>1, <3>1 DEF Popped
        <4> QED BY Zenon, <4>1, <4>2 DEF Arrived1
      <3>3. CASE numLeft[g] # 1
        <4>1. \A c \in Globals : ~Mid(t, c)'
          <5>1. Pre(t, g)'
            BY Zenon, <3>2, <3>3 DEF Arrived1
          <5> QED BY Zenon, <5>1 DEF Mid, Pre, Inside
        <4>2. \A u \in Threads \ {t}, c \in Globals : ~Mid(u, c)'
          BY Zenon, <2>2, <3>2, <3>3 DEF Arrived1, SamePlace, Bound
        <4> QED BY Zenon, <2>3, <4>1, <4>2 DEF SameClock, Bound
      <3>4. CASE numLeft[g] = 1
        <4>1. ASSUME NEW u \in Threads PROVE curTick'[u] = x.w
          <5>1. CASE u = t
            BY Zenon, <2>1, <5>1 DEF Popped
          <5>2. CASE u # t
            <6>1. Pre(u, g)
              BY Zenon, <3>2, <3>4, <5>2 DEF Arrived1
            <6>2. curTick[u] = x.w
              BY Zenon, <2>1, <3>2, <6>1, <1>PopMeets
            <6> QED BY Zenon, <2>1, <5>2, <6>2 DEF Popped
          <5> QED BY Zenon, <5>1, <5>2
        <4> QED BY Zenon, <4>1 DEF SameClock
      <3> QED BY Zenon, <3>3, <3>4
    <2> QED BY Zenon, <2>4, <2>5
  <1> QED BY Zenon, <1>1, <1>2

\* The entries that a step leaves of global event g were there before, or are of
\* its own schedule().
Traced(g) ==
    \A u \in Threads :
        /\ \A x \in Elems(evq'[u]) : x.ev = g => x \in Elems(evq[u]) \/ x \in Elems(asyncq[u])
        /\ \A x \in Elems(asyncq'[u]) :
             x.ev = g => \/ x \in Elems(asyncq[u])
                         \/ \E v \in Threads : Scheduling(v) /\ pend[v].ev = g /\ pend[v].w = x.w

\* process() of the quantum event starts to schedule it for the end of the next quantum.
LEMMA Repeats ==
    ASSUME Types, NEW t \in Threads, Work(t), cur[t] = Sync
    PROVE  /\ pend'[t].ev = Sync /\ pend'[t].w = curTick[t] + Quantum /\ pend'[t].i = 0
           /\ pend'[t].ret = "arrive2" /\ pc'[t] = "lock"
  <1>1. /\ pend' = [pend EXCEPT ![t] = [ev |-> Sync, w |-> curTick[t] + Quantum, i |-> 0, ret |-> "arrive2"]]
        /\ pc' = [pc EXCEPT ![t] = "lock"]
    BY Zenon DEF Work, RunProcess
  <1>2. t \in DOMAIN pend /\ t \in DOMAIN pc
    BY Zenon DEF Types
  <1>3. pend'[t] = [ev |-> Sync, w |-> curTick[t] + Quantum, i |-> 0, ret |-> "arrive2"] /\ pc'[t] = "lock"
    BY Zenon, <1>1, <1>2
  <1> QED BY ONLY <1>3

\* All barrier events of one global event, wherever they are, are for one tick.
LEMMA OneTickStep ==
    ASSUME Arithmetic, Places, Timed, NEW t \in Threads, Acts(t)
    PROVE  OneTick'
  \* A begun schedule() is Request()'s or the quantum event's.
  <1>BegunEvent. ASSUME Begins(t)
                 PROVE  \/ pend'[t].ev = Sync
                        \/ pend'[t].ev \in Requests /\ ~InUse(pend'[t].ev)
    <2> USE <1>BegunEvent
    <2>0. pend \in [Threads -> [ev : Events, w : Ticks, i : Threads, ret : PCs]]
      BY Zenon DEF Places, Types
    <2>1. CASE Work(t) /\ cur[t] = Sync
      BY Zenon, <2>1, Repeats DEF Places
    <2>2. ASSUME NEW g \in Requests, NEW d \in RequestDelays, Request(t, g, d)
          PROVE  pend'[t].ev = g /\ ~InUse(g)
      BY Zenon, <2>0, <2>2 DEF Request
    <2> QED BY Zenon, <2>1, <2>2 DEF Begins
  \* Every step but simulate()'s only moves the entries of a global event.
  <1>ActsTraced. ASSUME NEW g \in Globals,
                        ~(t = 0 /\ g \in {Sync, Limit} /\ \E n \in Cycles : Simulate(n))
                 PROVE  Traced(g)
    <2> USE <1>ActsTraced
    <2>1. CASE Calm(t)
      BY Zenon, <2>1 DEF Calm, Traced
    <2>2. CASE ServiceOne(t)
      <3>1. PICK x \in Entries : Popped(t, x)
        BY Zenon, <2>2, ServicePops
      <3>2. Elems(evq'[t]) \subseteq Elems(evq[t])
        BY Zenon, <3>1 DEF Popped, Shrunk
      <3> QED BY Zenon, <3>1, <3>2 DEF Popped, Traced
    <2>3. CASE Merges(t)
      <3>1. Merged(t)
        BY Zenon, <2>3, MergesUnite DEF Merges
      <3>2. Elems(evq'[t]) = Elems(evq[t]) \cup Elems(asyncq[t]) /\ Elems(asyncq'[t]) = {}
        BY Zenon, <3>1 DEF Merged, Union
      <3> QED BY Zenon, <3>1, <3>2 DEF Merged, Traced
    <2>4. ASSUME NEW u \in Threads, NEW x \in Entries, Inserts(u, x) PROVE Traced(g)
      <3>1. Filed(u, x) /\ asyncq' = asyncq
        BY Zenon, <2>4, InsertsFile DEF Inserts
      <3>2. x.ev # g
        BY Zenon, <2>4, ParallelAssumption DEF Inserts
      <3> QED BY Zenon, <3>1, <3>2 DEF Filed, Grown, Traced
    <2>5. ASSUME NEW u \in Threads, NEW x \in Entries, Sends(t, u, x) PROVE Traced(g)
      <3>1. Posted(u, x) /\ evq' = evq
        BY Zenon, <2>5, SendsPost DEF Sends
      <3>2. x.ev = g => Scheduling(t) /\ pend[t].ev = g /\ pend[t].w = x.w
        <4>1. CASE x.ev \in Locals
          BY Zenon, <4>1, ParallelAssumption
        <4>2. CASE InsertGlobal(t) /\ x = Entry(pend[t].ev, pend[t].w)
          BY Zenon, <4>2 DEF InsertGlobal, Entry, Scheduling
        <4> QED BY Zenon, <2>5, <4>1, <4>2 DEF Sends
      <3> QED BY Zenon, <3>1, <3>2 DEF Posted, Grown, Traced
    <2>6. ASSUME t = 0, NEW n \in Cycles, Simulate(n) PROVE Traced(g)
      <3>1. g \notin {Sync, Limit}
        BY Zenon, <2>6
      <3>2. PICK l, s \in Ticks : \A u \in Threads : Restarted(u, l, s)
        BY Zenon, <2>6, SimulateRestarts
      <3>3. asyncq' = asyncq
        BY Zenon, <2>6 DEF Simulate
      <3>4. Entry(Limit, l).ev # g /\ Entry(Sync, s).ev # g
        BY Zenon, <3>1 DEF Entry
      <3>5. \A u \in Threads : \A x \in Elems(evq'[u]) : x.ev = g => x \in Elems(evq[u])
        BY Zenon, <3>2, <3>4 DEF Restarted
      <3> QED BY Zenon, <3>3, <3>5 DEF Traced
    <2>7. CASE t = 0 /\ LeaveLoop(0)
      BY Zenon, <2>7, LeaveDrops DEF Traced, Dropped
    <2> QED BY Zenon, <2>1, <2>2, <2>3, <2>4, <2>5, <2>6, <2>7, ActsKinds DEF Kinds
  <1> SUFFICES ASSUME NEW g \in Globals \ {Sync}
               PROVE  \E w \in Ticks : \A u \in Threads : AllAt(u, g, w)'
    BY Zenon DEF OneTick
  <1>1. PICK w \in Ticks : \A u \in Threads : AllAt(u, g, w)
    BY Zenon DEF Timed, OneTick
  <1>2. ASSUME Traced(g), ~(Begins(t) /\ pend'[t].ev = g), NEW u \in Threads PROVE AllAt(u, g, w)'
    <2>1. /\ \A x \in Elems(evq'[u]) : x.ev = g => x.w = w
          /\ \A x \in Elems(asyncq'[u]) : x.ev = g => x.w = w
      BY Zenon, <1>1, <1>2 DEF AllAt, Traced
    <2>2. Scheduling(u)' /\ pend'[u].ev = g => pend'[u].w = w
      BY Zenon, <1>1, <1>2, ActsSched DEF AllAt, SchedKept
    <2>3. ASSUME Pre(u, g)' PROVE curTick'[u] = w
      <3>1. CASE ~ServiceOne(t)
        BY Zenon, <1>1, <2>3, <3>1, ClockKept, LoopServes DEF Carries, AllAt
      <3>2. CASE ServiceOne(t)
        <4>1. PICK x \in Entries : Popped(t, x)
          BY Zenon, <3>2, ServicePops
        <4>2. CASE u = t
          BY Zenon, <1>1, <2>3, <4>1, <4>2 DEF Popped, Pre, AllAt
        <4>3. CASE u # t
          <5>1. Pre(u, g)
            <6>1. CASE ~Arrive1(t)
              BY Zenon, <2>3, <6>1, ActsCarries DEF Carries
            <6>2. CASE Arrive1(t)
              <7>0. Types /\ Control /\ Barred /\ Only(t)
                BY Zenon, ActsMoves DEF Places, Moves
              <7>1. PICK h : h = cur'[t]
                OBVIOUS
              <7>2. Arrived1(t, h)
                BY Zenon, <6>2, <7>0, <7>1, Arrive1Keeps
              <7>3. CASE numLeft[h] # 1
                BY Zenon, <2>3, <4>3, <7>2, <7>3 DEF Arrived1, SamePlace
              <7>4. CASE numLeft[h] = 1
                <8>1. Mid(u, h)'
                  BY Zenon, <7>2, <7>4 DEF Arrived1
                <8> QED BY Zenon, <2>3, <8>1 DEF Mid, Inside, Pre
              <7> QED BY Zenon, <7>3, <7>4
            <6> QED BY Zenon, <6>1, <6>2
          <5> QED BY Zenon, <1>1, <4>1, <4>3, <5>1 DEF Popped, AllAt
        <4> QED BY Zenon, <4>2, <4>3
      <3> QED BY Zenon, <3>1, <3>2
    <2> QED BY Zenon, <2>1, <2>2, <2>3 DEF AllAt
  <1>3. CASE Begins(t) /\ pend'[t].ev = g
    <2>1. ~InUse(g)
      BY Zenon, <1>3, <1>BegunEvent
    <2>2. \A u \in Threads : /\ ~Has(evq[u], g) /\ ~Has(asyncq[u], g) /\ ~(Scheduling(u) /\ pend[u].ev = g)
                             /\ ~Pre(u, g)
      BY Zenon, <2>1 DEF InUse, Scheduling, Pre
    <2>3. evq' = evq /\ asyncq' = asyncq
      BY Zenon, <1>3 DEF Begins, Request, Work, RunProcess, queues
    <2>4. ~ServiceOne(t)
      BY Zenon, <1>3 DEF Begins, Request, Work, RunProcess, ServiceOne
    <2>5. PICK p \in Ticks : p = pend'[t].w
      <3>1. Types'
        BY Zenon, TypesStep DEF Places
      <3> QED BY Zenon, <3>1 DEF Types
    <2>6. ASSUME NEW u \in Threads PROVE AllAt(u, g, p)'
      <3>1. ~Pre(u, g)'
        BY Zenon, <2>2, <2>4, LoopServes DEF Carries
      <3>2. Scheduling(u)' /\ pend'[u].ev = g => pend'[u].w = p
        BY Zenon, <2>2, <2>5, ActsSched DEF SchedKept
      <3>3. \A x \in Elems(evq[u]) \cup Elems(asyncq[u]) : x.ev # g
        BY Zenon, <2>2, HasElems
      <3> QED BY Zenon, <2>3, <3>1, <3>2, <3>3 DEF AllAt
    <2> QED BY Zenon, <2>6
  <1>4. CASE t = 0 /\ g = Limit /\ \E n \in Cycles : Simulate(n)
    <2>1. PICK n \in Cycles : Simulate(n)
      BY Zenon, <1>4
    <2>2. PICK l, s \in Ticks : \A u \in Threads : Restarted(u, l, s)
      BY Zenon, <2>1, SimulateRestarts
    <2>3. asyncq' = asyncq /\ curTick' = curTick /\ pend' = pend /\ pc[0] = "python"
      BY Zenon, <2>1 DEF Simulate
    <2>4. ASSUME NEW u \in Threads PROVE AllAt(u, g, l)'
      <3>1. Once(evq[u], Limit) /\ ~Has(asyncq[u], Limit)
        BY Zenon DEF Timed, LimitKept
      <3>2. \A x \in Elems(evq'[u]) : x.ev = Limit => x.w = l
        <4>1. \A x \in Elems(evq'[u]) : x.ev = Limit => x = Entry(Limit, l)
          BY Zenon, <2>2, <3>1 DEF Restarted
        <4> QED BY <4>1 DEF Entry
      <3>3. \A x \in Elems(asyncq'[u]) : x.ev # Limit
        BY Zenon, <2>3, <3>1, HasElems
      <3>4. ~Scheduling(u) /\ Stopped(u)
        BY Zenon, <2>3, PythonStopped
      <3>5. ~Scheduling(u)' /\ ~Pre(u, Limit)'
        <4>1. ~Pre(u, Limit)
          BY Zenon, <3>4, OutsideGlobals DEF Located, Places
        <4>2. ~ServiceOne(0)
          BY Zenon, <2>3 DEF ServiceOne
        <4>3. Carries(0)
          BY Zenon, <1>4, <4>2, LoopServes
        <4>4. ~Pre(u, Limit)'
          BY Zenon, <1>4, <4>1, <4>3 DEF Carries
        <4>5. ~Begins(0)
          BY Zenon, <2>3 DEF Begins, Request, Work, RunProcess
        <4> QED BY Zenon, <1>4, <3>4, <4>4, <4>5, ActsSched DEF SchedKept
      <3> QED BY Zenon, <1>4, <3>2, <3>3, <3>5 DEF AllAt
    <2> QED BY Zenon, <2>2, <2>4
  <1>5. CASE ~(Begins(t) /\ pend'[t].ev = g) /\ ~(t = 0 /\ g = Limit /\ \E n \in Cycles : Simulate(n))
    <2>1. g \in {Sync, Limit} => g = Limit
      BY Zenon
    <2>2. Traced(g)
      BY Zenon, <1>5, <2>1, <1>ActsTraced
    <2> QED BY Zenon, <1>2, <1>5, <2>2
  <1> QED BY Zenon, <1>3, <1>4, <1>5

\* The limit event leaves a queue for its own barrier only; simulate() puts it back.
LimitThere(u) == Has(evq[u], Limit) \/ Pre(u, Limit) \/ Mid(u, Limit) \/ (Stopped(u) /\ AtRest)

\* Every step keeps what is known of the limit event.
LEMMA LimitKeptStep ==
    ASSUME Arithmetic, Places, Timed, NEW t \in Threads, Acts(t)
    PROVE  LimitKept'
  \* simulate_limit_event is at most once in a queue, never in an async_queue, and no
  \* clock passes it.
  <1>LimitEntries. ASSUME NEW u \in Threads
                   PROVE  /\ curTick'[u] <= LastTick
                          /\ Once(evq'[u], Limit) /\ ~Has(asyncq'[u], Limit)
                          /\ \A x \in Elems(evq'[u]) : x.ev = Limit => x.w <= LastTick
    <2> DEFINE Goal == /\ curTick'[u] <= LastTick
                       /\ Once(evq'[u], Limit) /\ ~Has(asyncq'[u], Limit)
                       /\ \A x \in Elems(evq'[u]) : x.ev = Limit => x.w <= LastTick
    <2> SUFFICES Goal
      OBVIOUS
    <2>0. /\ curTick[u] <= LastTick
          /\ Once(evq[u], Limit) /\ ~Has(asyncq[u], Limit)
          /\ \A x \in Elems(evq[u]) : x.ev = Limit => x.w <= LastTick
          /\ Has(evq[u], Limit) \/ Pre(u, Limit) \/ Mid(u, Limit) \/ (Stopped(u) /\ AtRest)
      BY Zenon DEF Timed, LimitKept
    <2>00. \A x \in Elems(asyncq[u]) : x.ev # Limit
      BY Zenon, <2>0, HasElems
    <2>1. ASSUME Calm(t) PROVE Goal
      BY Zenon, <2>0, <2>1 DEF Calm
    <2>2. ASSUME ServiceOne(t) PROVE Goal
      <3>1. PICK x \in Entries : Popped(t, x)
        BY Zenon, <2>2, ServicePops
      <3>2. CASE u # t
        BY Zenon, <2>0, <3>1, <3>2 DEF Popped
      <3>3. CASE u = t
        <4>1. x.w <= LastTick
          <5>1. ~Stopped(t) /\ ~InBarrier(t) /\ x.w \in Nat /\ \A y \in Elems(evq[t]) : x.w <= y.w
            BY Zenon, <3>1, PopWithin
          <5>2. Has(evq[t], Limit)
            BY Zenon, <2>0, <3>3, <5>1, OutsideGlobals DEF Located, Places
          <5>3. PICK y \in Elems(evq[t]) : y.ev = Limit
            BY Zenon, <5>2, HasElems
          <5>4. y.w <= LastTick /\ x.w <= y.w /\ y.w \in Nat
            BY Zenon, <2>0, <3>3, <5>1, <5>3, ElemsTyped
          <5>5. LastTick \in Nat
            BY Zenon, ParallelAssumption
          <5> QED BY ONLY <5>1, <5>4, <5>5
        <4>2. Once(evq'[u], Limit) /\ Elems(evq'[u]) \subseteq Elems(evq[u])
          BY Zenon, <2>0, <3>1, <3>3 DEF Popped, Shrunk
        <4> QED BY Zenon, <2>0, <3>1, <3>3, <4>1, <4>2 DEF Popped
      <3> QED BY Zenon, <3>2, <3>3
    <2>3. ASSUME Merges(t) PROVE Goal
      <3>1. Merged(t) /\ curTick' = curTick
        BY Zenon, <2>3, MergesUnite DEF Merges
      <3>2. CASE u # t
        BY Zenon, <2>0, <3>1, <3>2 DEF Merged
      <3>3. CASE u = t
        <4>1. Elems(evq'[u]) = Elems(evq[u]) \cup Elems(asyncq[u]) /\ ~Has(asyncq'[u], Limit)
          BY Zenon, <3>1, <3>3 DEF Merged, Union
        <4>2. Once(asyncq[u], Limit)
          BY Zenon, <2>0 DEF Once, Has
        <4>3. Once(evq'[u], Limit)
          BY Zenon, <2>0, <3>1, <3>3, <4>2 DEF Merged, Union
        <4> QED BY Zenon, <2>0, <2>00, <3>1, <4>1, <4>3
      <3> QED BY Zenon, <3>2, <3>3
    <2>4. ASSUME NEW v \in Threads, NEW x \in Entries, Inserts(v, x) PROVE Goal
      <3>1. Filed(v, x) /\ asyncq' = asyncq /\ curTick' = curTick
        BY Zenon, <2>4, InsertsFile DEF Inserts
      <3>2. x.ev # Limit
        BY Zenon, <2>4, ParallelAssumption DEF Inserts, Globals
      <3>3. CASE u # v
        BY Zenon, <2>0, <3>1, <3>3 DEF Filed
      <3>4. CASE u = v
        BY Zenon, <2>0, <3>1, <3>2, <3>4 DEF Filed, Grown
      <3> QED BY Zenon, <3>3, <3>4
    <2>5. ASSUME NEW v \in Threads, NEW x \in Entries, Sends(t, v, x) PROVE Goal
      <3>1. Posted(v, x) /\ evq' = evq /\ curTick' = curTick
        BY Zenon, <2>5, SendsPost DEF Sends
      <3>2. x.ev # Limit
        <4>1. CASE x.ev \in Locals
          BY Zenon, <4>1, ParallelAssumption DEF Globals
        <4>2. CASE InsertGlobal(t) /\ x = Entry(pend[t].ev, pend[t].w)
          <5>1. Placed(t)
            BY Zenon DEF Places, Control
          <5>2. pend[t].ev \in Requests \cup {Sync} /\ x.ev = pend[t].ev
            BY Zenon, <4>2, <5>1 DEF Placed, InsertGlobal, Scheduling, Entry
          <5> QED BY Zenon, <5>2, ParallelAssumption
        <4> QED BY Zenon, <2>5, <4>1, <4>2 DEF Sends
      <3>3. CASE u # v
        BY Zenon, <2>0, <3>1, <3>3 DEF Posted
      <3>4. CASE u = v
        <4>1. Elems(asyncq'[u]) = Elems(asyncq[u]) \cup {x}
          BY Zenon, <3>1, <3>4 DEF Posted, Grown
        <4>2. ~Has(asyncq'[u], Limit)
          BY Zenon, <2>00, <3>2, <4>1, HasElems
        <4> QED BY Zenon, <2>0, <3>1, <4>2
      <3> QED BY Zenon, <3>3, <3>4
    <2>6. ASSUME NEW n \in Cycles, Simulate(n) PROVE Goal
      <3>1. PICK l, s \in Ticks :
              /\ l = (IF n < LastTick - curTick[0] THEN curTick[0] + n ELSE LastTick)
              /\ \A v \in Threads : Restarted(v, l, s)
        BY Zenon, <2>6, SimulateRestarts
      <3>2. asyncq' = asyncq /\ curTick' = curTick
        BY Zenon, <2>6 DEF Simulate
      <3>3. l <= LastTick
        <4>1. LastTick \in Nat /\ curTick[0] \in Nat /\ n \in Nat
          BY ParallelAssumption, DelaysAssumption DEF Places, Types, Ticks, Threads
        <4> QED BY <3>1, <4>1
      <3>4. Once(evq'[u], Limit) /\ \A x \in Elems(evq'[u]) : x.ev = Limit => x = Entry(Limit, l)
        BY Zenon, <2>0, <3>1 DEF Restarted
      <3>5. \A x \in Elems(evq'[u]) : x.ev = Limit => x.w <= LastTick
        BY <3>3, <3>4 DEF Entry
      <3> QED BY Zenon, <2>0, <3>2, <3>4, <3>5
    <2>7. ASSUME LeaveLoop(0) PROVE Goal
      <3>1. Dropped(evq'[u], evq[u], Sync) /\ asyncq' = asyncq /\ curTick' = curTick
        BY Zenon, <2>7, LeaveDrops
      <3>2. Once(evq'[u], Limit) /\ Elems(evq'[u]) \subseteq Elems(evq[u])
        BY Zenon, <2>0, <3>1 DEF Dropped
      <3> QED BY Zenon, <2>0, <3>1, <3>2
    <2> QED BY Zenon, <2>1, <2>2, <2>3, <2>4, <2>5, <2>6, <2>7, ActsKinds DEF Kinds
  \* Only serviceOne() takes the limit event from a queue.
  <1>LimitStays. ASSUME ~ServiceOne(t), NEW u \in Threads, Has(evq[u], Limit)
                 PROVE  Has(evq'[u], Limit)
    <2> USE <1>LimitStays
    <2> SUFFICES ASSUME NEW y \in Elems(evq[u]), y.ev = Limit PROVE \E x \in Elems(evq'[u]) : x.ev = Limit
      BY Zenon, HasElems
    <2>1. CASE Calm(t) \/ \E v \in Threads, x \in Entries : Sends(t, v, x)
      BY Zenon, <2>1 DEF Calm, Sends
    <2>2. CASE Merges(t)
      <3>1. Merged(t)
        BY Zenon, <2>2, MergesUnite DEF Merges
      <3> QED BY Zenon, <3>1 DEF Merged, Union
    <2>3. ASSUME NEW v \in Threads, NEW x \in Entries, Inserts(v, x) PROVE Elems(evq[u]) \subseteq Elems(evq'[u])
      BY Zenon, <2>3, InsertsFile DEF Inserts, Filed, Grown
    <2>4. ASSUME NEW n \in Cycles, Simulate(n) PROVE \E x \in Elems(evq'[u]) : x.ev = Limit
      <3>1. PICK l, s \in Ticks : \A v \in Threads : Restarted(v, l, s)
        BY Zenon, <2>4, SimulateRestarts
      <3> QED BY Zenon, <3>1, Constants DEF Restarted
    <2>5. CASE LeaveLoop(0)
      BY Zenon, <2>5, LeaveDrops, Constants DEF Dropped
    <2> QED BY Zenon, <2>1, <2>2, <2>3, <2>4, <2>5, ActsKinds DEF Kinds
  \* Stopped threads stay so until simulate() is called again.
  <1>RestStays. ASSUME NEW u \in Threads, Stopped(u), AtRest
                PROVE  \/ Stopped(u)' /\ AtRest'
                       \/ t = 0 /\ \E n \in Cycles : Simulate(n)
    <2> USE <1>RestStays
    <2>0. /\ pc \in [Threads -> PCs] /\ 0 \in Threads /\ cur \in [Threads -> Events]
          /\ Stops(t) /\ Only(t) /\ Placed(0)
      BY Zenon, ActsStops, ActsMoves, Constants DEF Places, Types, Control, Moves
    <2>1. \A v \in Threads : Stopped(v)
      BY Zenon, StoppedClocks
    <2>2. ASSUME pc[0] = "wait2" PROVE cur[0] \in ExitEvents /\ Post(0, cur[0])
      <3>1. InBarrier(0)
        BY Zenon, <2>2 DEF InBarrier
      <3>2. ~Idle(0)
        BY Zenon, <2>0, <3>1, OutsideGlobals DEF Located, Places
      <3> QED BY Zenon, <2>0, <2>1, <3>2 DEF Stopped, Post
    <2>3. ~Halts(t)
      BY Zenon, <2>1 , <2>0 DEF Stops
    <2>4. ~Starts(t)
      <3> SUFFICES ASSUME Starts(t) PROVE FALSE
        OBVIOUS
      <3>1. ThreadWait(t) /\ ~Stopped(0)'
        BY Zenon, <2>0 DEF Starts, Stops
      <3>2. t # 0 /\ pc'[0] = pc[0] /\ cur'[0] = cur[0] /\ gen'[0] = gen[0]
        BY Zenon, <2>0, <3>1 DEF ThreadWait, AtRest, Only
      <3>3. pc[0] = "wait2"
        BY Zenon, <3>1, <3>2 DEF AtRest, Stopped, Idle, Ashore
      <3>4. generation'[cur[0]] = generation[cur[0]]
        <4>1. cur[0] # ThreadBarrier /\ cur[0] \in Barriers
          BY <2>2, <3>3, Constants
        <4>2. generation \in [Barriers -> Generations]
          BY Zenon DEF Places, Types
        <4> QED BY Zenon, <3>1, <4>1, <4>2 DEF ThreadWait, wait
      <3>5. Post(0, cur[0])'
        BY Zenon, <2>2, <3>2, <3>3, <3>4 DEF Post
      <3>6. \E g \in ExitEvents : Post(0, g)'
        BY Zenon, <2>2, <3>2, <3>3, <3>5 DEF Post
      <3> QED BY Zenon, <3>1, <3>6 DEF Stopped
    <2>5. Stopped(u)'
      BY Zenon, <2>0, <2>3, <2>4 DEF Stops
    <2>6. CASE t # 0
      BY Zenon, <2>0, <2>5, <2>6 DEF Only, AtRest
    <2>7. CASE t = 0
      <3>1. CASE Step(0)
        BY <2>0, <2>2, <3>1 DEF AtRest, Step, ThreadWait, ThreadReleased, EnterLoop, ServiceOne, LeaveLoop,
           ScheduleOwn, Send, SetFlag, Request, ProcessReturns, LockGlobalQ, InsertGlobal, Work, RunProcess,
           Released1, Arrive2, Return
      <3>2. ASSUME NEW e \in Locals, NEW d \in LocalDelays, Startup(e, d) PROVE AtRest'
        BY Zenon, <3>2 DEF Startup, AtRest
      <3> QED BY Zenon, <2>5, <2>7, <3>1, <3>2 DEF Acts, Python, AtRest
    <2> QED BY Zenon, <2>6, <2>7
  \* Every step leaves the limit event somewhere.
  <1>LimitThereStep. ASSUME NEW u \in Threads
                     PROVE  LimitThere(u)'
    <2>0. /\ Stops(t) /\ Only(t) /\ Types /\ Control /\ Barred /\ Located /\ 0 \in Threads /\ Limit \in Globals
          /\ Limit \in ExitEvents /\ LimitThere(u)
      BY Zenon, ActsStops, ActsMoves, OutsideGlobals, Constants DEF Places, Moves, Timed, LimitKept, LimitThere
    <2>1. CASE ServiceOne(t)
      <3>1. PICK x \in Entries : Popped(t, x)
        BY Zenon, <2>1, ServicePops
      <3>2. ~Stopped(u) /\ ~Mid(u, Limit)
        BY Zenon, <2>0, <3>1, PopUnbound DEF Bound
      <3>3. CASE Has(evq[u], Limit) /\ (u # t \/ x.ev # Limit)
        <4>1. PICK y \in Elems(evq[u]) : y.ev = Limit
          BY Zenon, <3>3, HasElems
        <4>2. y \in Elems(evq'[u])
          BY Zenon, <3>1, <3>3, <4>1 DEF Popped, Shrunk
        <4> QED BY Zenon, <4>1, <4>2, HasElems DEF LimitThere
      <3>4. CASE u = t /\ x.ev = Limit
        <4>1. Arrive1(t) /\ Limit = cur'[t]
          BY Zenon, <3>1, <3>4, <2>0, ParallelAssumption DEF Popped
        <4>2. Arrived1(t, Limit)
          BY Zenon, <2>0, <4>1, Arrive1Keeps
        <4> QED BY Zenon, <3>4, <4>2 DEF Arrived1, LimitThere
      <3>5. CASE Pre(u, Limit)
        <4>1. u # t
          BY Zenon, <3>1, <3>5 DEF Popped, Pre
        <4>2. CASE ~Arrive1(t)
          BY Zenon, <2>0, <3>5, <4>2, ActsCarries DEF Carries, LimitThere
        <4>3. CASE Arrive1(t)
          <5>1. PICK h : h = cur'[t]
            OBVIOUS
          <5>2. Arrived1(t, h)
            BY Zenon, <2>0, <4>3, <5>1, Arrive1Keeps
          <5>3. CASE numLeft[h] # 1
            BY Zenon, <2>0, <3>5, <4>1, <5>2, <5>3 DEF Arrived1, SamePlace, LimitThere
          <5>4. CASE numLeft[h] = 1
            <6>1. Pre(u, h) /\ Mid(u, h)'
              BY Zenon, <4>1, <5>2, <5>4 DEF Arrived1
            <6>2. h = Limit
              BY Zenon, <3>5, <6>1 DEF Pre
            <6> QED BY Zenon, <6>1, <6>2 DEF LimitThere
          <5> QED BY Zenon, <5>3, <5>4
        <4> QED BY Zenon, <4>2, <4>3
      <3> QED BY Zenon, <2>0, <3>2, <3>3, <3>4, <3>5 DEF LimitThere
    <2>2. CASE ~ServiceOne(t)
      <3>0. Carries(t)
        BY Zenon, <2>2, LoopServes
      <3>1. CASE Has(evq[u], Limit)
        BY Zenon, <2>2, <3>1, <1>LimitStays DEF LimitThere
      <3>2. CASE Pre(u, Limit)
        BY Zenon, <2>0, <3>0, <3>2 DEF Carries, LimitThere
      <3>3. CASE Mid(u, Limit)
        <4>1. ~(u = t /\ Return(t) /\ cur[t] = Limit)
          BY Zenon, <3>3 DEF Mid, Post, Return, Released
        <4>2. Mid(u, Limit)' \/ Post(u, Limit)'
          BY Zenon, <2>0, <3>0, <3>3, <4>1 DEF Carries
        <4>3. ASSUME Post(u, Limit)' PROVE Stopped(u)' /\ AtRest'
          <5>1. Stopped(u)' /\ ~Stopped(u)
            BY Zenon, <2>0, <3>3, <4>3 DEF Located, Stopped
          <5>2. Halts(t)
            BY Zenon, <2>0, <5>1 DEF Stops
          <5>3. PICK g : g = cur[t]
            OBVIOUS
          <5>4. Arrived2(t, g) /\ numLeft[g] = 1
            BY Zenon, <2>0, <5>2, <5>3, Arrive2Keeps DEF Halts
          <5>5. Post(0, g)'
            BY Zenon, <2>0, <5>4 DEF Arrived2
          <5> QED BY Zenon, <5>1, <5>5 DEF Post, AtRest
        <4> QED BY Zenon, <4>2, <4>3 DEF LimitThere
      <3>4. CASE Stopped(u) /\ AtRest
        <4>1. ASSUME NEW n \in Cycles, Simulate(n) PROVE Has(evq'[u], Limit)
          <5>1. PICK l, s \in Ticks : \A v \in Threads : Restarted(v, l, s)
            BY Zenon, <4>1, SimulateRestarts
          <5>2. Entry(Limit, l) \in Elems(evq'[u]) /\ Entry(Limit, l).ev = Limit
            BY Zenon, <5>1 DEF Restarted, Entry
          <5> QED BY Zenon, <5>2, HasElems
        <4> QED BY Zenon, <3>4, <4>1, <1>RestStays DEF LimitThere
      <3> QED BY Zenon, <2>0, <3>1, <3>2, <3>3, <3>4 DEF LimitThere
    <2> QED BY Zenon, <2>1, <2>2
  <1>1. \A u \in Threads : LimitThere(u)'
    BY Zenon, <1>LimitThereStep
  <1> QED BY Zenon, <1>1, <1>LimitEntries DEF LimitKept, LimitThere

\* Thread v is not, or no longer, to schedule the quantum event on queue u.
Pushed(v, u) == Worker(v) /\ cur[v] = Sync => pc[v] # "work" /\ u < pend[v].i

Spot(u, S) == In(u, S) \/ At(u, S) \/ Old(u, S)

\* What a step leaves of queue q, r, holds the quantum event as q does.
SyncKept(r, q, S) ==
    /\ Has(r, Sync) <=> Has(q, Sync)
    /\ Once(q, Sync) => Once(r, Sync)
    /\ Entry(Sync, S) \in Elems(q) => Entry(Sync, S) \in Elems(r)

\* Thread u is where it was.
Still(u) ==
    /\ Pre(u, Sync)' <=> Pre(u, Sync)
    /\ Mid(u, Sync)' \/ Post(u, Sync)' <=> Mid(u, Sync) \/ Post(u, Sync)
    /\ Entered(u)' => Entered(u)
    /\ curTick'[u] = curTick[u]

\* Every step keeps the threads in one quantum.
LEMMA RoundsStep ==
    ASSUME Arithmetic, Places, Timed, NEW t \in Threads, Acts(t)
    PROVE  Rounds'
  \* Inserted(u), thread by thread.
  <1>InsertedPushed. ASSUME NEW u
                     PROVE  /\ Inserted(u) <=> \A v \in Threads : Pushed(v, u)
                            /\ Inserted(u)' <=> \A v \in Threads : Pushed(v, u)'
    BY Zenon DEF Inserted, Pushed
  \* Which queues have the next quantum's event depends on the thread that steps.
  <1>InsertedKept. ASSUME NEW u \in Threads, Pushed(t, u)' <=> Pushed(t, u)
                   PROVE  Inserted(u)' <=> Inserted(u)
    <2> USE <1>InsertedKept
    <2>1. Only(t)
      BY Zenon, ActsMoves DEF Places, Moves
    <2>2. \A v \in Threads \ {t} : Pushed(v, u)' <=> Pushed(v, u)
      BY Zenon, <2>1 DEF Only, Pushed, Worker
    <2> QED BY Zenon, <2>2, <1>InsertedPushed
  \* Only a turn of BaseGlobalEvent::schedule()'s loop passes on to the next queue.
  <1>PushedKept. ASSUME ~ServiceOne(t), ~InsertGlobal(t), NEW u \in Threads
                 PROVE  Pushed(t, u)' <=> Pushed(t, u)
    <2> USE <1>PushedKept
    <2>0. /\ pc \in [Threads -> PCs] /\ cur \in [Threads -> Events] /\ u \in Nat /\ Placed(t)
          /\ pend \in [Threads -> [ev : Events, w : Ticks, i : Threads, ret : PCs]]
      BY Zenon, Constants DEF Places, Types, Control
    <2>1. CASE Work(t)
      <3>1. pc[t] = "work" /\ cur' = cur
        BY Zenon, <2>1 DEF Work, RunProcess
      <3>2. CASE cur[t] = Sync
        <4>1. pend'[t].i = 0 /\ pend'[t].ret = "arrive2" /\ pc'[t] = "lock"
          BY Zenon, <2>1, <3>2, Repeats DEF Places
        <4>2. ~(u < 0)
          BY ONLY <2>0
        <4> QED BY Zenon, <3>1, <3>2, <4>1, <4>2 DEF Pushed, Worker
      <3> QED BY Zenon, <3>1, <3>2 DEF Pushed
    <2>2. CASE LockGlobalQ(t)
      BY Zenon, <2>0, <2>2 DEF LockGlobalQ, Pushed, Worker
    <2>3. ASSUME NEW g \in Requests, NEW d \in RequestDelays, Request(t, g, d) PROVE Pushed(t, u)' /\ Pushed(t, u)
      BY Zenon, <2>0, <2>3 DEF Request, Pushed, Worker
    <2>4. ASSUME ~Worker(t), ~Worker(t)' PROVE Pushed(t, u)' /\ Pushed(t, u)
      BY Zenon, <2>4 DEF Pushed
    <2>5. CASE ThreadWait(t) \/ ThreadReleased(t) \/ EnterLoop(t)
      <3>1. ~Worker(t) /\ ~Worker(t)'
        BY Zenon, <2>0, <2>5 DEF ThreadWait, wait, ThreadReleased, EnterLoop, Worker
      <3> QED BY Zenon, <2>4, <3>1
    <2>6. CASE LeaveLoop(t) \/ ProcessReturns(t) \/ Released1(t) \/ Arrive2(t) \/ Return(t)
      <3>1. ~Worker(t) /\ ~Worker(t)'
        BY Zenon, <2>0, <2>6 DEF LeaveLoop, ProcessReturns, Released1, Arrive2, wait, Return, Worker
      <3> QED BY Zenon, <2>4, <3>1
    <2>7. ASSUME NEW e \in Locals, NEW d \in LocalDelays, ScheduleOwn(t, e, d) PROVE Pushed(t, u)' <=> Pushed(t, u)
      BY Zenon, <2>7 DEF ScheduleOwn, Pushed, Worker
    <2>8. ASSUME NEW e \in Locals, NEW d \in AsyncDelays, Send(t, e, d) PROVE Pushed(t, u)' /\ Pushed(t, u)
      BY Zenon, <2>0, <2>8 DEF Send, Pushed, Worker
    <2>9. CASE SetFlag(t)
      BY Zenon, <2>0, <2>9 DEF SetFlag, Placed, Pushed, Worker
    <2>10. CASE t = 0 /\ Python
      <3>1. ASSUME NEW n \in Cycles, Simulate(n) PROVE Pushed(0, u)' /\ Pushed(0, u)
        BY Zenon, <2>0, <2>10, <3>1 DEF Simulate, Pushed, Worker
      <3>2. ASSUME NEW e \in Locals, NEW d \in LocalDelays, Startup(e, d) PROVE Pushed(0, u)' <=> Pushed(0, u)
        BY Zenon, <3>2 DEF Startup, Pushed, Worker
      <3> QED BY Zenon, <2>10, <3>1, <3>2 DEF Python
    <2> QED BY Zenon, <2>1, <2>2, <2>3, <2>5, <2>6, <2>7, <2>8, <2>9, <2>10 DEF Acts, Step
  \* A schedule() of a global event is for the end of the quantum or later, the
  \* quantum event's own for exactly that.
  <1>NotBeforeKept. ASSUME NEW S \in Ticks, Round(S), NEW v \in Threads
                    PROVE  NotBefore(v, S)'
    <2> USE <1>NotBeforeKept
    <2> SUFFICES ASSUME Scheduling(v)' PROVE Later(pend'[v].ev, pend'[v].w, S) /\ (Worker(v)' => pend'[v].w = S)
      BY Zenon DEF NotBefore
    <2>1. CASE Scheduling(v) /\ (Worker(v)' <=> Worker(v)) /\ pend'[v].w = pend[v].w /\ pend'[v].ev = pend[v].ev
      BY Zenon, <2>1 DEF Round, NotBefore
    <2>2. CASE v = t /\ Begins(t)
      <3>0. /\ pend \in [Threads -> [ev : Events, w : Ticks, i : Threads, ret : PCs]] /\ pc \in [Threads -> PCs]
            /\ curTick[t] \in Nat /\ S \in Nat /\ Quantum \in Nat
        <4>1. curTick \in [Threads -> Ticks]
          BY Zenon DEF Places, Types
        <4> QED BY Zenon, <4>1, Constants DEF Places, Types, Ticks
      <3>1. curTick[t] <= S /\ S <= curTick[t] + Quantum
        BY Zenon, RoundFacts
      <3>2. ASSUME NEW g \in Requests, NEW d \in RequestDelays, Request(t, g, d)
            PROVE  Later(pend'[t].ev, pend'[t].w, S) /\ ~Worker(t)'
        <4>1. d \in Nat
          BY Zenon, DelaysAssumption DEF Ticks
        <4>2. pend'[t].w = curTick[t] + d + Quantum
          BY Zenon, <3>0, <3>2 DEF Request
        <4>3. ~Worker(t)'
          BY Zenon, <3>0, <3>2 DEF Request, Worker
        <4>4. pend'[t].w >= S /\ (0 \notin RequestDelays => pend'[t].w > S)
          <5>1. 0 \notin RequestDelays => d # 0
            BY Zenon
          <5> QED BY ONLY <3>0, <3>1, <4>1, <4>2, <5>1
        <4> QED BY Zenon, <4>3, <4>4 DEF Later
      <3>3. CASE Work(t) /\ cur[t] = Sync
        <4>1. Mid(t, Sync)
          BY Zenon, <3>3 DEF Work, RunProcess, Mid, Inside, Pre, Post, InBarrier, Worker
        <4>2. Old(t, S)
          BY Zenon, <4>1, RoundFacts
        <4>3. curTick[t] + Quantum = S
          BY Zenon, <4>2 DEF Old
        <4>4. pend'[t].w = curTick[t] + Quantum /\ pend'[t].ev = Sync
          BY Zenon, <3>3, Repeats DEF Places
        <4>5. Sync \notin Requests
          BY Zenon, Constants
        <4>6. pend'[t].w >= S
          BY ONLY <3>0, <4>3, <4>4
        <4> QED BY Zenon, <2>2, <4>3, <4>4, <4>5, <4>6 DEF Later
      <3> QED BY Zenon, <2>2, <3>2, <3>3 DEF Begins
    <2> QED BY Zenon, <2>1, <2>2, ActsSched DEF SchedKept
  \* Adding an entry of another event leaves the quantum event alone.
  <1>GrownKept. ASSUME NEW r, NEW q, NEW x, Grown(r, q, x), x.ev # Sync, NEW S
                PROVE  SyncKept(r, q, S)
    <2> USE <1>GrownKept
    <2>1. Has(r, Sync) <=> Has(q, Sync)
      BY Zenon, HasElems DEF Grown
    <2> QED BY Zenon, <2>1 DEF Grown, SyncKept
  \* A thread that is where it was, with its queues as they were of the quantum event,
  \* is in its round as it was.
  <1>SpotKept. ASSUME NEW S \in Ticks, NEW u \in Threads, Spot(u, S), Still(u),
                      Inserted(u)' <=> Inserted(u), SyncKept(evq'[u], evq[u], S),
                      SyncKept(asyncq'[u], asyncq[u], S),
                      \A x \in Elems(asyncq'[u]) : x \in Elems(asyncq[u]) \/ Later(x.ev, x.w, S)
               PROVE  Spot(u, S)'
    <2> USE <1>SpotKept
    <2>0. Inside(u, Sync)' <=> Inside(u, Sync)
      <3>1. Inside(u, Sync)' <=> Pre(u, Sync)' \/ Mid(u, Sync)' \/ Post(u, Sync)'
        BY Zenon DEF Inside, Pre, Mid, Post, InBarrier
      <3> QED BY Zenon, <3>1, PlaceNames DEF Still
    <2>1. CASE In(u, S)
      <3>1. ~Inside(u, Sync)' /\ Once(evq'[u], Sync) /\ Entry(Sync, S) \in Elems(evq'[u]) /\ ~Has(asyncq'[u], Sync)
        BY Zenon, <2>0, <2>1 DEF In, SyncKept
      <3>2. curTick'[u] <= S /\ S <= curTick'[u] + Quantum
        BY Zenon, <2>1 DEF In, Still
      <3>3. Entered(u)' => \A x \in Elems(asyncq'[u]) : Later(x.ev, x.w, S)
        BY Zenon, <2>1 DEF In, Still
      <3> QED BY Zenon, <3>1, <3>2, <3>3 DEF Spot, In
    <2>2. CASE At(u, S)
      BY Zenon, <2>2 DEF Spot, At, Still, SyncKept
    <2>3. CASE Old(u, S)
      <3>1. (Mid(u, Sync)' \/ Post(u, Sync)') /\ curTick'[u] + Quantum = S /\ ~Has(evq'[u], Sync)
        BY Zenon, <2>3 DEF Old, Still, SyncKept
      <3>2. Inserted(u)' => Once(asyncq'[u], Sync) /\ Entry(Sync, S) \in Elems(asyncq'[u])
        BY Zenon, <2>3 DEF Old, SyncKept
      <3>3. ~Inserted(u)' => ~Has(asyncq'[u], Sync)
        BY Zenon, <2>3 DEF Old, SyncKept
      <3> QED BY Zenon, <3>1, <3>2, <3>3 DEF Spot, Old
    <2> QED BY Zenon, <2>1, <2>2, <2>3 DEF Spot
  \* A step other than serviceOne() leaves the others, and mostly its own thread, in place.
  <1>StillThere. ASSUME ~ServiceOne(t), NEW u \in Threads,
                        u # t \/ (~EnterLoop(t) /\ ~(Return(t) /\ cur[t] = Sync))
                 PROVE  Still(u)
    <2> USE <1>StillThere
    <2>1. Carries(t) /\ curTick' = curTick /\ Stops(t) /\ Sync \in Globals
      BY Zenon, LoopServes, ClockKept, ActsStops, Constants DEF Places
    <2>2. Entered(u)' => Entered(u)
      BY Zenon, <2>1 DEF Stops
    <2>3. Pre(u, Sync)' <=> Pre(u, Sync)
      BY Zenon, <2>1 DEF Carries
    <2>4. Mid(u, Sync)' \/ Post(u, Sync)' <=> Mid(u, Sync) \/ Post(u, Sync)
      BY Zenon, <2>1 DEF Carries
    <2> QED BY Zenon, <2>1, <2>2, <2>3, <2>4 DEF Still
  \* Nobody runs the quantum event's process() when a thread is at its end or out of it.
  <1>NoPusher. ASSUME ~Mid(t, Sync)
               PROVE  \A v \in Threads : ~(Worker(v) /\ cur[v] = Sync) /\ Inserted(v)
    <2> USE <1>NoPusher
    <2>1. ASSUME NEW v \in Threads, Worker(v), cur[v] = Sync PROVE FALSE
      <3>1. Mid(v, Sync)
        BY Zenon, <2>1 DEF Mid, Inside, Pre, Post, InBarrier, Worker
      <3> QED BY Zenon, <3>1, Constants DEF Places, Barred, Together
    <2> QED BY Zenon, <2>1 DEF Inserted
  \* A step that touches no queue stays in the round.
  <1>CalmRound. ASSUME ~ServiceOne(t), ~InsertGlobal(t), evq' = evq, asyncq' = asyncq,
                       ~EnterLoop(t), ~(Return(t) /\ cur[t] = Sync), NEW S \in Ticks, Round(S)
                PROVE  Round(S)'
    <2> USE <1>CalmRound
    <2>1. ASSUME NEW u \in Threads PROVE Spot(u, S)'
      <3>1. Still(u) /\ (Inserted(u)' <=> Inserted(u)) /\ Spot(u, S)
        BY Zenon, <1>StillThere, <1>InsertedKept, <1>PushedKept DEF Round, Spot
      <3>2. SyncKept(evq'[u], evq[u], S) /\ SyncKept(asyncq'[u], asyncq[u], S)
        BY Zenon DEF SyncKept
      <3> QED BY Zenon, <3>1, <3>2, <1>SpotKept
    <2> QED BY Zenon, <2>1, <1>NotBeforeKept DEF Round, Spot
  \* An event scheduled on the thread's own queue stays in the round.
  <1>InsertsRound. ASSUME NEW v \in Threads, NEW x \in Entries, Inserts(v, x), NEW S \in Ticks,
                          Round(S)
                   PROVE  Round(S)'
    <2> USE <1>InsertsRound
    <2>0. /\ evq' = [evq EXCEPT ![v] = Insert(@, x)] /\ asyncq' = asyncq /\ curTick' = curTick
          /\ pc' = pc /\ cur' = cur /\ pend' = pend /\ UNCHANGED barriers
      BY Zenon DEF Inserts
    <2>1. ASSUME NEW u \in Threads PROVE Spot(u, S)'
      <3>1. Still(u)
        BY Zenon, <2>0 DEF Still, Pre, Mid, Post, Inside, InBarrier, Worker, Entered, Stopped, Idle, Ashore,
           BlockedOn, Released, barriers
      <3>2. Inserted(u)' <=> Inserted(u)
        BY Zenon, <2>0 DEF Inserted, Worker
      <3>3. SyncKept(asyncq'[u], asyncq[u], S)
        BY Zenon, <2>0 DEF SyncKept
      <3>4. SyncKept(evq'[u], evq[u], S)
        <4>1. Filed(v, x)
          BY Zenon, <2>0, InsertsFile
        <4>2. x.ev # Sync
          BY Zenon, ParallelAssumption DEF Inserts, Globals
        <4>3. CASE u = v
          BY Zenon, <4>1, <4>2, <4>3, <1>GrownKept DEF Filed
        <4>4. CASE u # v
          BY Zenon, <4>1, <4>4 DEF Filed, SyncKept
        <4> QED BY Zenon, <4>3, <4>4
      <3> QED BY Zenon, <2>0, <3>1, <3>2, <3>3, <3>4, <1>SpotKept DEF Round, Spot
    <2> QED BY Zenon, <2>1, <1>NotBeforeKept DEF Round, Spot
  \* An entry of another event reaches an async_queue.
  <1>SendsRound. ASSUME NEW v \in Threads, NEW x \in Entries, Sends(t, v, x), NEW S \in Ticks,
                        Round(S), x.ev # Sync
                 PROVE  Round(S)'
    <2> USE <1>SendsRound
    <2>0. /\ evq' = evq /\ Posted(v, x) /\ Later(x.ev, x.w, S) /\ pc[t] \in {"process", "insert"}
          /\ ~(Worker(t) /\ cur[t] = Sync)
      <3>1. evq' = evq /\ Posted(v, x) /\ Later(x.ev, x.w, S)
        BY Zenon, SendsPost, SendsAhead DEF Sends
      <3>2. CASE pc[t] = "process"
        BY Zenon, <3>1, <3>2 DEF Worker
      <3>3. CASE InsertGlobal(t) /\ x = Entry(pend[t].ev, pend[t].w)
        <4>1. Placed(t)
          BY Zenon DEF Places, Control
        <4>2. x.ev = pend[t].ev /\ pc[t] = "insert"
          BY Zenon, <3>3 DEF InsertGlobal, Entry
        <4>3. ~Worker(t)
          BY Zenon, <4>1, <4>2 DEF Placed, Scheduling, Worker
        <4> QED BY Zenon, <3>1, <4>2, <4>3
      <3> QED BY Zenon, <3>2, <3>3 DEF Sends
    <2>00. ~ServiceOne(t) /\ ~EnterLoop(t) /\ ~Return(t)
      BY Zenon, <2>0 DEF ServiceOne, EnterLoop, Return
    <2>1. ASSUME NEW u \in Threads PROVE Spot(u, S)'
      <3>1. Still(u)
        BY Zenon, <2>00, <1>StillThere
      <3>2. Inserted(u)' <=> Inserted(u)
        <4>1. Pushed(t, u)' <=> Pushed(t, u)
          <5>1. CASE ~InsertGlobal(t)
            BY Zenon, <2>00, <5>1, <1>PushedKept
          <5>2. CASE InsertGlobal(t)
            <6>1. /\ pend \in [Threads -> [ev : Events, w : Ticks, i : Threads, ret : PCs]]
                  /\ pc \in [Threads -> PCs] /\ Placed(t)
              BY Zenon DEF Places, Types, Control
            <6>2. (~Worker(t) /\ pend[t].ret = "process") \/ cur[t] # Sync
              BY Zenon, <2>0, <5>2, <6>1 DEF Worker, Placed, Scheduling, InsertGlobal
            <6>3. cur' = cur
              BY Zenon, <5>2 DEF InsertGlobal
            <6>4. ASSUME pend[t].ret = "process" PROVE ~Worker(t)'
              BY <5>2, <6>1, <6>4 DEF InsertGlobal, Worker
            <6> QED BY Zenon, <6>2, <6>3, <6>4 DEF Pushed
          <5> QED BY Zenon, <5>1, <5>2
        <4> QED BY Zenon, <4>1, <1>InsertedKept
      <3>3. SyncKept(evq'[u], evq[u], S)
        BY Zenon, <2>0 DEF SyncKept
      <3>4. /\ SyncKept(asyncq'[u], asyncq[u], S)
            /\ \A y \in Elems(asyncq'[u]) : y \in Elems(asyncq[u]) \/ Later(y.ev, y.w, S)
        <4>1. CASE u = v
          BY Zenon, <2>0, <4>1, <1>GrownKept DEF Posted, Grown
        <4>2. CASE u # v
          BY Zenon, <2>0, <4>2 DEF Posted, SyncKept
        <4> QED BY Zenon, <4>1, <4>2
      <3> QED BY Zenon, <3>1, <3>2, <3>3, <3>4, <1>SpotKept DEF Round, Spot
    <2> QED BY Zenon, <2>1, <1>NotBeforeKept DEF Round, Spot
  \* The quantum event's process() puts the next quantum's barrier event on queue i.
  <1>RepeatsRound. ASSUME NEW v \in Threads, NEW x \in Entries, Sends(t, v, x), NEW S \in Ticks,
                          Round(S), x.ev = Sync
                   PROVE  Round(S)'
    <2> USE <1>RepeatsRound
    <2>0. /\ pend \in [Threads -> [ev : Events, w : Ticks, i : Threads, ret : PCs]]
          /\ pc \in [Threads -> PCs] /\ Placed(t) /\ Only(t) /\ Sync \in Globals /\ N \in Nat
      BY Zenon, ActsMoves, Constants DEF Places, Types, Control, Moves
    <2>1. InsertGlobal(t) /\ v = pend[t].i /\ x = Entry(pend[t].ev, pend[t].w)
      <3>1. x.ev \notin Locals
        BY Zenon, ParallelAssumption DEF Globals
      <3> QED BY Zenon, <3>1 DEF Sends
    <2>2. pc[t] = "insert" /\ pend[t].ev = Sync /\ pend[t].ret = "arrive2" /\ cur[t] = Sync /\ cur'[t] = Sync
      <3>1. pc[t] = "insert" /\ pend[t].ev = Sync /\ cur' = cur
        BY Zenon, <2>1 DEF InsertGlobal, Entry
      <3> QED BY <2>0, <3>1, Constants DEF Placed, Scheduling
    <2>3. Worker(t) /\ Scheduling(t) /\ Mid(t, Sync)
      BY Zenon, <2>2 DEF Worker, Scheduling, Mid, Inside, InBarrier, Pre, Post
    <2>4. x = Entry(Sync, S)
      <3>1. pend[t].w = S
        BY Zenon, <2>3 DEF Round, NotBefore
      <3> QED BY Zenon, <2>1, <2>2, <3>1
    <2>5. evq' = evq /\ Posted(v, x)
      BY Zenon, SendsPost DEF Sends
    <2>6. ASSUME NEW u \in Threads PROVE Inserted(u)' <=> Inserted(u) \/ u = v
      <3>1. \A w \in Threads \ {t} : Pushed(w, u)' /\ Pushed(w, u)
        <4>1. \A w \in Threads \ {t} : ~Worker(w)
          BY Zenon, <2>3 DEF Places, Barred, OneWorker
        <4> QED BY Zenon, <2>0, <4>1 DEF Only, Worker, Pushed
      <3>2. Pushed(t, u) <=> u < v
        BY Zenon, <2>1, <2>2, <2>3 DEF Pushed
      <3>3. Pushed(t, u)' <=> u < v \/ u = v
        <4>0. u \in Nat /\ v \in Nat /\ v <= N - 1 /\ u <= N - 1
          BY ParallelAssumption DEF Threads
        <4>1. CASE v < N - 1
          <5>0. pend' = [pend EXCEPT ![t].i = @ + 1] /\ pc' = pc
            BY Zenon, <2>1, <4>1 DEF InsertGlobal
          <5>1. pend'[t].i = v + 1 /\ pc'[t] = "insert" /\ pend'[t].ret = "arrive2"
            BY ONLY <2>0, <2>1, <2>2, <5>0, t \in Threads
          <5>2. Pushed(t, u)' <=> u < v + 1
            BY Zenon, <2>2, <5>1 DEF Pushed, Worker
          <5> QED BY <4>0, <5>2
        <4>2. CASE ~(v < N - 1)
          <5>1. pc'[t] = "arrive2"
            BY Zenon, <2>0, <2>1, <2>2, <4>2 DEF InsertGlobal
          <5>2. Pushed(t, u)'
            BY Zenon, <5>1 DEF Pushed, Worker
          <5> QED BY <2>0, <4>0, <4>2, <5>2
        <4> QED BY Zenon, <4>1, <4>2
      <3> QED BY Zenon, <3>1, <3>2, <3>3, <1>InsertedPushed
    <2>7. ~ServiceOne(t) /\ ~EnterLoop(t) /\ ~Return(t)
      BY Zenon, <2>2 DEF ServiceOne, EnterLoop, Return
    <2>8. ASSUME NEW u \in Threads PROVE Spot(u, S)'
      <3>1. Still(u)
        BY Zenon, <2>7, <1>StillThere
      <3>2. CASE u # v
        <4>1. SyncKept(evq'[u], evq[u], S) /\ asyncq'[u] = asyncq[u]
          BY Zenon, <2>5, <3>2 DEF SyncKept, Posted
        <4>2. SyncKept(asyncq'[u], asyncq[u], S)
          BY Zenon, <4>1 DEF SyncKept
        <4> QED BY Zenon, <2>6, <3>1, <3>2, <4>1, <4>2, <1>SpotKept DEF Round, Spot
      <3>3. CASE u = v
        <4>1. Mid(u, Sync)
          BY Zenon, <2>0, <2>3 DEF Places, Barred, Together
        <4>2. Old(u, S)
          BY Zenon, <4>1, RoundFacts
        <4>3. ~Inserted(u)
          <5>1. u \in Nat
            BY Zenon, Constants
          <5>2. ~(u < u)
            BY ONLY <5>1
          <5> QED BY Zenon, <2>1, <2>2, <2>3, <3>3, <5>2 DEF Inserted
        <4>4. ~Has(asyncq[u], Sync) /\ ~Has(evq'[u], Sync)
          BY Zenon, <2>5, <4>2, <4>3 DEF Old
        <4>5. Once(asyncq[u], Sync)
          BY Zenon, <4>4 DEF Once, Has
        <4>6. Once(asyncq'[u], Sync) /\ Entry(Sync, S) \in Elems(asyncq'[u])
          BY Zenon, <2>4, <2>5, <3>3, <4>4, <4>5 DEF Posted, Grown
        <4>7. (Mid(u, Sync)' \/ Post(u, Sync)') /\ curTick'[u] + Quantum = S
          BY Zenon, <3>1, <4>2 DEF Still, Old
        <4> QED BY Zenon, <2>6, <3>3, <4>4, <4>6, <4>7 DEF Spot, Old
      <3> QED BY Zenon, <3>2, <3>3
    <2> QED BY Zenon, <2>8, <1>NotBeforeKept DEF Round, Spot
  \* A merge takes the next quantum's barrier event from the async_queue to the queue.
  <1>MergesRound. ASSUME Merges(t), NEW S \in Ticks, Round(S)
                  PROVE  Round(S)'
    <2> USE <1>MergesRound
    <2>0. /\ Merged(t) /\ curTick' = curTick /\ ~InsertGlobal(t) /\ ~ServiceOne(t) /\ Only(t)
          /\ pc \in [Threads -> PCs]
      <3>1. ~InsertGlobal(t) /\ ~ServiceOne(t)
        BY Zenon DEF Merges, EnterLoop, Return, InsertGlobal, ServiceOne
      <3> QED BY Zenon, <3>1, MergesUnite, ActsMoves DEF Merges, Places, Moves, Types
    <2>1. ASSUME NEW u \in Threads \ {t} PROVE Spot(u, S)'
      <3>1. Still(u) /\ (Inserted(u)' <=> Inserted(u)) /\ Spot(u, S)
        BY Zenon, <2>0, <1>StillThere, <1>InsertedKept, <1>PushedKept DEF Round, Spot
      <3>2. SyncKept(evq'[u], evq[u], S) /\ asyncq'[u] = asyncq[u]
        BY Zenon, <2>0 DEF SyncKept, Merged
      <3>3. SyncKept(asyncq'[u], asyncq[u], S)
        BY Zenon, <3>2 DEF SyncKept
      <3> QED BY Zenon, <3>1, <3>2, <3>3, <1>SpotKept
    <2>2. ~Inside(t, Sync)'
      <3>1. pc'[t] \in {"loop", "exit"}
        BY Zenon, <2>0 DEF Merges, EnterLoop, Return
      <3> QED BY Zenon, <3>1 DEF Inside, InBarrier, Worker
    <2>3. curTick'[t] <= S /\ S <= curTick'[t] + Quantum
      BY Zenon, <2>0, RoundFacts
    <2>4. Once(evq[t], Sync) /\ Once(asyncq[t], Sync) /\ ~(Has(evq[t], Sync) /\ Has(asyncq[t], Sync))
          /\ Entry(Sync, S) \in Elems(evq[t]) \cup Elems(asyncq[t])
      <3>1. CASE EnterLoop(t)
        <4>1. ~Inside(t, Sync)
          BY Zenon, <3>1 DEF EnterLoop, Inside, InBarrier, Worker
        <4>2. In(t, S)
          BY Zenon, <4>1, RoundFacts
        <4> QED BY Zenon, <4>2 DEF In, Once, Has
      <3>2. CASE Return(t) /\ cur[t] = Sync
        <4>1. Post(t, Sync) /\ ~Mid(t, Sync)
          BY Zenon, <3>2 DEF Return, Released, Post, Mid
        <4>2. Old(t, S) /\ Inserted(t)
          BY Zenon, <4>1, RoundFacts, <1>NoPusher
        <4> QED BY Zenon, <4>2 DEF Old, Once, Has
      <3> QED BY Zenon, <3>1, <3>2 DEF Merges
    <2>5. In(t, S)'
      <3>1. Once(evq'[t], Sync) /\ Entry(Sync, S) \in Elems(evq'[t]) /\ ~Has(asyncq'[t], Sync) /\ Elems(asyncq'[t]) = {}
        BY Zenon, <2>0, <2>4 DEF Merged, Union
      <3> QED BY Zenon, <2>2, <2>3, <3>1 DEF In
    <2> QED BY Zenon, <2>1, <2>5, <1>NotBeforeKept DEF Round, Spot
  \* Where the threads are when one takes the next event from its queue.
  <1>PopPlaces. ASSUME NEW x \in Entries, Popped(t, x), NEW u \in Threads \ {t}
                PROVE  \/ Still(u)
                       \/ x.ev = Sync /\ numLeft[Sync] = 1
    <2> USE <1>PopPlaces
    <2>0. /\ Stops(t) /\ Only(t) /\ Types /\ Control /\ Barred /\ Sync \in Globals /\ curTick'[u] = curTick[u]
          /\ pc[t] = "loop"
      BY Zenon, ActsStops, ActsMoves, Constants DEF Places, Moves, Popped
    <2>1. Entered(u)' => Entered(u)
      BY Zenon, <2>0 DEF Stops
    <2>2. CASE ~Arrive1(t)
      <3>1. Carries(t)
        BY Zenon, <2>2, ActsCarries
      <3> QED BY Zenon, <2>0, <2>1, <3>1 DEF Carries, Still
    <2>3. CASE Arrive1(t)
      <3>1. PICK g : g = cur'[t]
        OBVIOUS
      <3>2. Arrived1(t, g) /\ g = x.ev
        BY Zenon, <2>0, <2>3, <3>1, Arrive1Keeps DEF Popped
      <3>3. CASE numLeft[g] # 1
        <4>1. SamePlace(u)
          BY Zenon, <3>2, <3>3 DEF Arrived1
        <4> QED BY Zenon, <2>0, <2>1, <4>1 DEF SamePlace, Still
      <3>4. CASE numLeft[g] = 1 /\ g # Sync
        <4>1. Pre(u, g) /\ Mid(u, g)'
          BY Zenon, <3>2, <3>4 DEF Arrived1
        <4>2. cur[u] # Sync /\ cur'[u] # Sync
          BY Zenon, <3>4, <4>1 DEF Pre, Mid, Inside
        <4>3. /\ ~Pre(u, Sync) /\ ~Mid(u, Sync) /\ ~Post(u, Sync)
              /\ ~Pre(u, Sync)' /\ ~Mid(u, Sync)' /\ ~Post(u, Sync)'
          BY Zenon, <4>2 DEF Pre, Mid, Inside, Post
        <4> QED BY Zenon, <2>0, <2>1, <4>3 DEF Still
      <3> QED BY Zenon, <3>2, <3>3, <3>4
    <2> QED BY Zenon, <2>2, <2>3
  \* A thread takes an event, other than the last barrier event of the quantum.
  <1>ServiceRound. ASSUME NEW x \in Entries, Popped(t, x), NEW S \in Ticks, Round(S),
                          ~(x.ev = Sync /\ numLeft[Sync] = 1)
                   PROVE  Round(S)'
    <2> USE <1>ServiceRound
    <2>0. /\ Only(t) /\ Types /\ Control /\ Barred /\ ~InBarrier(t) /\ Entered(t) /\ Sync \in Globals
          /\ x.w \in Nat /\ x.w >= curTick[t]
      BY Zenon, ActsMoves, PopWithin, Constants DEF Places, Moves
    <2>1. In(t, S)
      BY Zenon, <2>0, RoundFacts DEF Inside
    <2>2. Entry(Sync, S) \in Elems(evq[t]) /\ Once(evq[t], Sync) /\ Entry(Sync, S).ev = Sync /\ Entry(Sync, S).w = S
      BY Zenon, <2>1 DEF In, Entry
    <2>3. x.w <= S
      BY Zenon, <2>2, PopWithin
    <2>4. ~(Worker(t)' /\ cur'[t] = Sync)
      <3>1. CASE x.ev # Sync
        BY Zenon, <3>1 DEF Popped
      <3>2. CASE x.ev = Sync /\ numLeft[Sync] # 1
        <4>1. Arrive1(t) /\ Sync = cur'[t]
          BY Zenon, <3>2, ParallelAssumption DEF Popped, Globals
        <4>2. Arrived1(t, Sync)
          BY Zenon, <2>0, <4>1, Arrive1Keeps
        <4>3. Pre(t, Sync)'
          BY Zenon, <3>2, <4>2 DEF Arrived1
        <4> QED BY Zenon, <4>3 DEF Pre, Worker
      <3> QED BY Zenon, <3>1, <3>2
    <2>5. ASSUME NEW u \in Threads PROVE Inserted(u)' <=> Inserted(u)
      <3>1. ~Worker(t)
        BY Zenon, <2>0 DEF InBarrier
      <3>2. Pushed(t, u)' /\ Pushed(t, u)
        BY Zenon, <2>4, <3>1 DEF Pushed
      <3> QED BY Zenon, <3>2, <1>InsertedKept
    <2>6. ASSUME NEW u \in Threads \ {t} PROVE Spot(u, S)'
      <3>1. Still(u)
        BY Zenon, <1>PopPlaces
      <3>2. SyncKept(evq'[u], evq[u], S) /\ SyncKept(asyncq'[u], asyncq[u], S) /\ asyncq'[u] = asyncq[u]
        BY Zenon DEF Popped, SyncKept
      <3> QED BY Zenon, <2>5, <3>1, <3>2, <1>SpotKept DEF Round, Spot
    <2>7. \A y \in Elems(asyncq'[t]) : Later(y.ev, y.w, S)
      BY Zenon, <2>0, <2>1 DEF Popped, In
    <2>8. ~Has(asyncq'[t], Sync)
      BY Zenon, <2>1 DEF Popped, In
    <2>9. CASE x.ev # Sync
      <3>1. ~Inside(t, Sync)'
        BY Zenon, <2>9 DEF Popped, Inside
      <3>2. Once(evq'[t], Sync) /\ Entry(Sync, S) \in Elems(evq'[t])
        BY Zenon, <2>2, <2>9 DEF Popped, Shrunk
      <3>3. curTick'[t] <= S /\ S <= curTick'[t] + Quantum
        <4>1. S <= curTick[t] + Quantum /\ curTick'[t] = x.w
          BY Zenon, <2>1 DEF In, Popped
        <4>2. curTick[t] \in Nat /\ S \in Nat /\ Quantum \in Nat
          BY Zenon, <2>0, Constants DEF Types, Ticks
        <4> QED BY ONLY <2>0, <2>3, <4>1, <4>2
      <3>4. In(t, S)'
        BY Zenon, <2>7, <2>8, <3>1, <3>2, <3>3 DEF In
      <3> QED BY Zenon, <2>6, <3>4, <1>NotBeforeKept DEF Round, Spot
    <2>10. CASE x.ev = Sync
      <3>1. x = Entry(Sync, S)
        BY Zenon, <2>2, <2>10, OnceElem DEF Popped
      <3>2. curTick'[t] = S
        BY Zenon, <2>2, <3>1 DEF Popped
      <3>3. ~Has(evq'[t], Sync)
        BY Zenon, <2>2, <2>10 DEF Popped, Shrunk
      <3>4. Pre(t, Sync)'
        <4>1. Arrive1(t) /\ Sync = cur'[t]
          BY Zenon, <2>10, ParallelAssumption DEF Popped, Globals
        <4>2. Arrived1(t, Sync)
          BY Zenon, <2>0, <4>1, Arrive1Keeps
        <4> QED BY Zenon, <2>10, <4>2 DEF Arrived1
      <3>5. At(t, S)'
        BY Zenon, <2>7, <2>8, <3>2, <3>3, <3>4 DEF At
      <3> QED BY Zenon, <2>6, <3>5, <1>NotBeforeKept DEF Round, Spot
    <2> QED BY Zenon, <2>9, <2>10
  \* The last thread reaches the end of the quantum: the next round begins.
  <1>LastRound. ASSUME NEW x \in Entries, Popped(t, x), NEW S \in Ticks, Round(S), x.ev = Sync,
                       numLeft[Sync] = 1
                PROVE  \E R \in Ticks : Round(R)'
    <2> USE <1>LastRound
    <2>0. Only(t) /\ Types /\ Control /\ Barred /\ ~InBarrier(t)
      BY Zenon, ActsMoves, PopWithin DEF Places, Moves
    <2>1. In(t, S)
      BY Zenon, <2>0, RoundFacts DEF Inside
    <2>2. x.w = S /\ ~Has(evq'[t], Sync)
      <3>1. Entry(Sync, S) \in Elems(evq[t]) /\ Once(evq[t], Sync) /\ Entry(Sync, S).ev = Sync /\ Entry(Sync, S).w = S
        BY Zenon, <2>1 DEF In, Entry
      <3>2. x = Entry(Sync, S)
        BY Zenon, <3>1, OnceElem DEF Popped
      <3> QED BY Zenon, <3>1, <3>2 DEF Popped, Shrunk
    <2>3. Arrived1(t, Sync) /\ cur'[t] = Sync
      <3>1. Arrive1(t) /\ Sync = cur'[t]
        BY Zenon, ParallelAssumption DEF Popped, Globals
      <3> QED BY Zenon, <2>0, <3>1, Arrive1Keeps
    <2>4. pc'[t] = "work" /\ \A u \in Threads : Mid(u, Sync)'
      BY Zenon, <2>3 DEF Arrived1
    <2>5. \A u \in Threads : ~Inserted(u)'
      <3>1. Worker(t)'
        BY Zenon, <2>4 DEF Worker
      <3> QED BY Zenon, <2>3, <2>4, <3>1 DEF Inserted
    <2>6. PICK R \in Ticks : R = S + Quantum
      <3>1. S \in Nat /\ Quantum \in Nat
        BY Zenon, Constants DEF Ticks
      <3>2. S + Quantum \in Nat
        BY ONLY <3>1
      <3> QED BY Zenon, <3>2 DEF Ticks
    <2>7. ASSUME NEW u \in Threads PROVE Old(u, R)' /\ NotBefore(u, R)'
      <3>1. CASE u = t
        <4>1. curTick'[u] + Quantum = R /\ ~Has(evq'[u], Sync) /\ ~Has(asyncq'[u], Sync)
          BY Zenon, <2>1, <2>2, <2>6, <3>1 DEF Popped, In
        <4>2. ~Scheduling(u)'
          BY Zenon, <2>4, <3>1 DEF Scheduling
        <4> QED BY Zenon, <2>4, <2>5, <4>1, <4>2 DEF Old, NotBefore
      <3>2. CASE u # t
        <4>1. Pre(u, Sync) /\ pc'[u] = "wait1"
          BY Zenon, <2>3, <3>2 DEF Arrived1
        <4>2. At(u, S)
          BY Zenon, <4>1, RoundFacts
        <4>3. curTick'[u] + Quantum = R /\ ~Has(evq'[u], Sync) /\ ~Has(asyncq'[u], Sync)
          BY Zenon, <2>6, <3>2, <4>2 DEF Popped, At
        <4>4. ~Scheduling(u)'
          BY Zenon, <4>1 DEF Scheduling
        <4> QED BY Zenon, <2>4, <2>5, <4>3, <4>4 DEF Old, NotBefore
      <3> QED BY Zenon, <3>1, <3>2
    <2> QED BY Zenon, <2>7 DEF Round
  \* Between two calls of simulate() there is no quantum event; simulate() puts one on
  \* every queue.
  <1>PythonRounds. ASSUME pc[0] = "python"
                   PROVE  Rounds'
    <2> USE <1>PythonRounds
    <2>0. \A u \in Threads : Stopped(u) /\ curTick[u] = curTick[0] /\ ~Inside(u, Sync) /\ ~Scheduling(u)
      BY Zenon, PythonStopped
    <2>00. Types /\ Control /\ Stops(t) /\ Only(t) /\ NoSync /\ 0 \in Threads /\ pc \in [Threads -> PCs]
      BY Zenon, ActsMoves, ActsStops, Constants DEF Places, Moves, Timed, Rounds, Types
    <2>1. ~ServiceOne(t)
      <3>1. ASSUME NEW x \in Entries, Popped(t, x) PROVE FALSE
        BY Zenon, <2>0, <3>1, PopWithin
      <3> QED BY Zenon, <3>1, ServicePops
    <2>2. CASE Calm(t)
      BY Zenon, <2>00, <2>2 DEF Calm, Rounds, NoSync
    <2>3. CASE Merges(t)
      <3>1. CASE EnterLoop(t)
        <4>1. ~InBarrier(t) /\ ~Idle(t)
          <5>1. ~BlockedOn(t, ThreadBarrier)
            BY Zenon, <3>1 DEF EnterLoop, BlockedOn
          <5> QED BY Zenon, <3>1, <5>1 DEF EnterLoop, InBarrier, Worker, Idle, Ashore
        <4>2. \A g : ~Post(t, g)
          BY Zenon, <2>00, <4>1, OutsideGlobals DEF Located
        <4> QED BY Zenon, <2>0, <4>1, <4>2 DEF Stopped
      <3>2. CASE Return(t) /\ cur[t] = Sync
        <4>1. Inside(t, Sync)
          BY Zenon, <3>2 DEF Return, Inside, InBarrier
        <4> QED BY Zenon, <2>0, <4>1
      <3> QED BY Zenon, <2>3, <3>1, <3>2 DEF Merges
    <2>4. ASSUME NEW v \in Threads, NEW x \in Entries, Inserts(v, x) PROVE Rounds'
      <3>1. Filed(v, x) /\ asyncq' = asyncq /\ pc' = pc
        BY Zenon, <2>4, InsertsFile DEF Inserts
      <3>2. x.ev # Sync
        BY Zenon, <2>4, ParallelAssumption DEF Inserts, Globals
      <3>3. ASSUME NEW u \in Threads PROVE ~Has(evq'[u], Sync)
        <4>1. CASE u = v
          BY Zenon, <2>00, <3>1, <3>2, <4>1, HasElems DEF NoSync, Filed, Grown
        <4>2. CASE u # v
          BY Zenon, <2>00, <3>1, <4>2 DEF NoSync, Filed
        <4> QED BY Zenon, <4>1, <4>2
      <3> QED BY Zenon, <2>00, <3>1, <3>3 DEF Rounds, NoSync
    <2>5. ASSUME t = 0, NEW n \in Cycles, Simulate(n) PROVE Rounds'
      <3>1. PICK l, s \in Ticks : s = curTick[0] + Quantum /\ \A u \in Threads : Restarted(u, l, s)
        BY Zenon, <2>5, SimulateRestarts
      <3>2. /\ asyncq' = asyncq /\ curTick' = curTick /\ cur' = cur /\ pend' = pend /\ UNCHANGED barriers
            /\ pc' = [pc EXCEPT ![0] = "thread"]
        BY Zenon, <2>5 DEF Simulate
      <3>3. pc'[0] = "thread" /\ \A u \in Threads : u # 0 => pc'[u] = pc[u]
        BY Zenon, <2>00, <3>2
      <3>4. ASSUME NEW u \in Threads PROVE In(u, s)' /\ NotBefore(u, s)'
        <4>1. ~Inside(u, Sync)' /\ ~Scheduling(u)'
          <5>1. CASE u = 0
            BY Zenon, <3>3, <5>1 DEF Inside, InBarrier, Worker, Scheduling
          <5>2. CASE u # 0
            BY Zenon, <2>0, <3>2, <3>3, <5>2 DEF Inside, InBarrier, Worker, Scheduling
          <5> QED BY Zenon, <5>1, <5>2
        <4>2. ~Entered(u)'
          <5>1. ~EnterLoop(t)
            BY Zenon, <2>5 DEF EnterLoop
          <5> QED BY Zenon, <2>0, <2>00, <5>1 DEF Stops, Entered
        <4>3. Once(evq'[u], Sync) /\ Entry(Sync, s) \in Elems(evq'[u]) /\ ~Has(asyncq'[u], Sync)
          BY Zenon, <2>00, <3>1, <3>2 DEF NoSync, Restarted
        <4>4. curTick'[u] <= s /\ s <= curTick'[u] + Quantum
          <5>1. curTick'[u] = curTick[0]
            BY Zenon, <2>0, <3>2
          <5>2. curTick[0] \in Nat /\ Quantum \in Nat
            BY Zenon, <2>00, Constants DEF Types, Ticks
          <5> QED BY <3>1, <5>1, <5>2
        <4> QED BY Zenon, <4>1, <4>2, <4>3, <4>4 DEF In, NotBefore
      <3>5. pc'[0] # "python"
        BY Zenon, <3>3
      <3>6. Round(s)'
        BY Zenon, <3>4 DEF Round
      <3> QED BY Zenon, <3>5, <3>6 DEF Rounds
    <2>6. ~(t = 0 /\ LeaveLoop(0)) /\ ~\E u \in Threads, x \in Entries : Sends(t, u, x)
      BY Zenon DEF LeaveLoop, Sends
    <2> QED BY Zenon, <2>1, <2>2, <2>3, <2>4, <2>5, <2>6, ActsKinds DEF Kinds
  \* InsertGlobal() is not calm.
  <1>CalmInserts. ASSUME pc[0] # "python", Calm(t)
                  PROVE  ~InsertGlobal(t)
    <2> USE <1>CalmInserts
    <2> SUFFICES ASSUME InsertGlobal(t) PROVE FALSE
      OBVIOUS
    <2>1. PICK i, x : i = pend[t].i /\ x = Entry(pend[t].ev, pend[t].w)
      OBVIOUS
    <2>2. asyncq' = [asyncq EXCEPT ![i] = Append(@, x)] /\ asyncq' = asyncq
      BY Zenon, <2>1 DEF InsertGlobal, schedule, inParallelMode, Calm
    <2>3. i \in Threads /\ asyncq \in [Threads -> Seq(Entries)]
      BY Zenon, <2>1 DEF Places, Types
    <2>4. asyncq[i] = Append(asyncq[i], x) /\ asyncq[i] \in Seq(Entries)
      BY Zenon, <2>2, <2>3
    <2>5. Len(Append(asyncq[i], x)) = Len(asyncq[i]) + 1 /\ Len(asyncq[i]) \in Nat
      BY <2>4
    <2> QED BY <2>4, <2>5
  \* Entering the loop and leaving the quantum event merge the async_queue.
  <1>EntersMerge. ASSUME EnterLoop(t) \/ (Return(t) /\ cur[t] = Sync)
                  PROVE  Merges(t)
    <2> USE <1>EntersMerge
    <2>0. pc \in [Threads -> PCs]
      BY Zenon DEF Places, Types
    <2>1. CASE EnterLoop(t)
      <3>1. pc[t] = "enter" /\ handleAsyncInsertions(t) /\ curTick' = curTick /\ pc' = [pc EXCEPT ![t] = "loop"]
        BY Zenon, <2>1 DEF EnterLoop
      <3>2. pc'[t] = "loop" /\ (pc'[0] = "python" <=> pc[0] = "python")
        BY ONLY <2>0, <3>1
      <3> QED BY Zenon, <2>1, <3>1, <3>2 DEF Merges, Scheduling, Worker
    <2>2. CASE Return(t) /\ cur[t] = Sync
      <3>1. /\ pc[t] = "wait2" /\ handleAsyncInsertions(t) /\ curTick' = curTick
            /\ pc' = [pc EXCEPT ![t] = IF cur[t] \in ExitEvents THEN "exit" ELSE "loop"]
        BY Zenon, <2>2 DEF Return
      <3>2. pc'[t] \in {"exit", "loop"} /\ (pc'[0] = "python" <=> pc[0] = "python")
        BY ONLY <2>0, <3>1
      <3> QED BY Zenon, <2>2, <3>1, <3>2 DEF Merges, Scheduling, Worker
    <2> QED BY Zenon, <2>1, <2>2
  <1>1. CASE pc[0] = "python"
    BY Zenon, <1>1, <1>PythonRounds
  <1>2. CASE pc[0] # "python"
    <2>0. PICK S \in Ticks : Round(S)
      BY Zenon, <1>2 DEF Timed, Rounds
    <2>1. ASSUME Calm(t), ~ServiceOne(t), ~Merges(t), ~\E u \in Threads, x \in Entries : Sends(t, u, x) PROVE Rounds'
      <3>1. ~InsertGlobal(t)
        BY Zenon, <1>2, <2>1, <1>CalmInserts
      <3>2. ~EnterLoop(t) /\ ~(Return(t) /\ cur[t] = Sync)
        BY Zenon, <2>1, <1>EntersMerge
      <3> QED BY Zenon, <1>2, <2>0, <2>1, <3>1, <3>2, <1>CalmRound DEF Rounds, Calm
    <2>2. ASSUME ServiceOne(t) PROVE Rounds'
      <3>1. PICK x \in Entries : Popped(t, x)
        BY Zenon, <2>2, ServicePops
      <3>2. pc'[0] # "python"
        <4>1. CASE t = 0
          BY Zenon, <3>1, <4>1 DEF Popped
        <4>2. CASE t # 0
          <5>1. Only(t)
            BY Zenon, ActsMoves DEF Places, Moves
          <5> QED BY Zenon, <1>2, <4>2, <5>1, Constants DEF Only
        <4> QED BY Zenon, <4>1, <4>2
      <3>3. \E R \in Ticks : Round(R)'
        BY Zenon, <2>0, <3>1, <1>ServiceRound, <1>LastRound
      <3> QED BY Zenon, <3>2, <3>3 DEF Rounds
    <2>3. ASSUME Merges(t) PROVE Rounds'
      BY Zenon, <1>2, <2>0, <2>3, <1>MergesRound DEF Merges, Rounds
    <2>4. ASSUME NEW u \in Threads, NEW x \in Entries, Inserts(u, x) PROVE Rounds'
      BY Zenon, <1>2, <2>0, <2>4, <1>InsertsRound DEF Inserts, Rounds
    <2>5. ASSUME NEW u \in Threads, NEW x \in Entries, Sends(t, u, x) PROVE Rounds'
      BY Zenon, <1>2, <2>0, <2>5, <1>SendsRound, <1>RepeatsRound DEF Sends, Rounds
    <2>6. ~\E n \in Cycles : Simulate(n)
      BY Zenon, <1>2 DEF Simulate
    <2>7. ASSUME t = 0, LeaveLoop(0) PROVE Rounds'
      <3>1. /\ \A u \in Threads : Dropped(evq'[u], evq[u], Sync)
            /\ asyncq' = asyncq /\ pc[0] = "exit" /\ pc'[0] = "python"
        BY Zenon, <2>7, LeaveDrops
      <3>2. \A u \in Threads : ~Inside(u, Sync)
        <4>1. pc[0] \in {"python", "exit"}
          BY Zenon, <3>1
        <4> QED BY Zenon, <4>1, PythonStopped
      <3>3. \A u \in Threads : In(u, S)
        BY Zenon, <2>0, <3>2, RoundFacts
      <3> QED BY Zenon, <3>1, <3>3 DEF Rounds, NoSync, Dropped, In
    <2> QED BY Zenon, <2>1, <2>2, <2>3, <2>4, <2>5, <2>6, <2>7, ActsKinds DEF Kinds
  <1> QED BY Zenon, <1>1, <1>2

\* The second invariant holds initially.
LEMMA TimedInit ==
    Init => Timed
  <1> SUFFICES ASSUME Init PROVE Timed
    OBVIOUS
  <1> DEFINE q == <<Entry(Limit, 0)>>
  <1>0. /\ \A t \in Threads : evq[t] = q /\ asyncq[t] = <<>> /\ curTick[t] = 0
        /\ pc[0] = "python" /\ \A t \in Threads : pc[t] \in {"python", "thread"}
    BY Zenon, Constants DEF Init
  <1>1. Elems(q) = {Entry(Limit, 0)} /\ Has(q, Limit) /\ ~Has(q, Sync) /\ Once(q, Limit) /\ Sorted(q)
    <2>1. Len(q) = 1 /\ q[1] = Entry(Limit, 0) /\ q[1].ev = Limit
      BY Zenon DEF Entry
    <2>2. 1 .. Len(q) = {1}
      BY <2>1
    <2> HIDE DEF q
    <2>3. Elems(q) = {Entry(Limit, 0)}
      BY Zenon, <2>1, <2>2 DEF Elems
    <2>4. Has(q, Limit) /\ ~Has(q, Sync) /\ Once(q, Limit)
      BY Zenon, <2>1, <2>2, Constants DEF Has, Once
    <2>5. Sorted(q)
      BY <2>2 DEF Sorted
    <2> QED BY Zenon, <2>3, <2>4, <2>5
  <1>2. Elems(<<>>) = {} /\ \A e : ~Has(<<>>, e)
    BY DEF Elems, Has
  <1>3. Entry(Limit, 0).ev = Limit /\ Entry(Limit, 0).w = 0 /\ 0 \in Ticks /\ 0 <= LastTick
    BY ParallelAssumption DEF Entry, Ticks
  <1> HIDE DEF q
  <1>4. Ordered
    <2>1. 0 >= 0
      OBVIOUS
    <2>2. ASSUME NEW t \in Threads PROVE OnTime(t)
      <3>1. \A x \in Elems(q) : x.w >= 0
        BY Zenon, <1>1, <1>3, <2>1
      <3> QED BY Zenon, <1>0, <1>1, <1>2, <3>1 DEF OnTime
    <2> QED BY Zenon, <2>2 DEF Ordered
  <1>5. SameClock
    BY Zenon, <1>0 DEF SameClock
  <1>6. OneTick
    <2>1. ASSUME NEW t \in Threads, NEW g \in Globals PROVE AllAt(t, g, 0)
      <3>1. ~Scheduling(t) /\ ~Pre(t, g)
        BY Zenon, <1>0 DEF Scheduling, Pre
      <3> QED BY Zenon, <1>0, <1>1, <1>2, <1>3, <3>1 DEF AllAt
    <2> QED BY Zenon, <1>3, <2>1 DEF OneTick
  <1>7. LimitKept
    <2>1. \A x \in Elems(q) : x.w <= LastTick
      BY Zenon, <1>1, <1>3
    <2>2. ASSUME NEW t \in Threads
          PROVE  /\ curTick[t] <= LastTick /\ Once(evq[t], Limit) /\ ~Has(asyncq[t], Limit)
                 /\ Has(evq[t], Limit) /\ \A x \in Elems(evq[t]) : x.w <= LastTick
      BY Zenon, <1>0, <1>1, <1>2, <1>3, <2>1
    <2> QED BY Zenon, <2>2 DEF LimitKept
  <1>8. Rounds
    BY Zenon, <1>0, <1>1, <1>2 DEF Rounds, NoSync
  <1> QED BY Zenon, <1>4, <1>5, <1>6, <1>7, <1>8 DEF Timed

\* Every step keeps it.
LEMMA TimedStep ==
    ASSUME Arithmetic, Places, Timed, NEW t \in Threads, Acts(t)
    PROVE  Timed'
  BY Zenon, OrderedStep, SameClockStep, OneTickStep, LimitKeptStep, RoundsStep DEF Timed

\* A step of the program is one thread's step.
LEMMA NextActs ==
    ASSUME Next
    PROVE  \E t \in Threads : Acts(t)
  BY Zenon, Constants DEF Next, Acts

\* A stuttering step.
LEMMA StillHolds ==
    ASSUME Places, Timed, UNCHANGED vars
    PROVE  Places' /\ Timed'
  <1>0. /\ evq' = evq /\ asyncq' = asyncq /\ curTick' = curTick /\ pc' = pc /\ cur' = cur /\ pend' = pend
        /\ gen' = gen /\ generation' = generation /\ numLeft' = numLeft /\ globalQMutex' = globalQMutex
        /\ scheduled' = scheduled /\ deleted' = deleted
    BY Zenon DEF vars
  <1>1. Types' /\ Control'
    BY Zenon, <1>0 DEF Places, Types, Control, Placed, InBarrier, Worker, Scheduling
  <1>2. \A u, g : /\ Pre(u, g)' <=> Pre(u, g)
                  /\ Post(u, g)' <=> Post(u, g)
                  /\ Inside(u, g)' <=> Inside(u, g)
                  /\ BlockedOn(u, g)' <=> BlockedOn(u, g)
                  /\ Worker(u)' <=> Worker(u)
                  /\ Scheduling(u)' <=> Scheduling(u)
                  /\ Ashore(u)' <=> Ashore(u)
    BY ZenonT(30), <1>0 DEF Pre, Post, Inside, InBarrier, BlockedOn, Released, Worker, Scheduling, Ashore
  <1>3. \A u : \A g : Mid(u, g)' <=> Mid(u, g)
    BY Zenon, <1>2 DEF Mid
  <1>4. \A u : Idle(u)' <=> Idle(u)
    BY Zenon, <1>2 DEF Idle
  <1>5. \A u : Stopped(u)' <=> Stopped(u)
    BY Zenon, <1>2, <1>4 DEF Stopped
  <1>6. \A u : (Entered(u)' <=> Entered(u)) /\ (Bound(u)' <=> Bound(u)) /\ (Inserted(u)' <=> Inserted(u))
    <2>1. \A u : Entered(u)' <=> Entered(u)
      BY Zenon, <1>0, <1>5 DEF Entered
    <2>2. \A u : Bound(u)' <=> Bound(u)
      BY Zenon, <1>3, <1>5 DEF Bound
    <2>3. \A u : Inserted(u)' <=> Inserted(u)
      BY Zenon, <1>0, <1>2 DEF Inserted
    <2> QED BY Zenon, <2>1, <2>2, <2>3
  <1>7. Barred'
    <2>1. \A b : Waiters(b)' = Waiters(b)
      BY Zenon, <1>2 DEF Waiters
    <2>2. Counted'
      BY Zenon, <1>0, <2>1 DEF Places, Barred, Counted
    <2>3. Together' /\ OneWorker'
      BY Zenon, <1>2, <1>3 DEF Places, Barred, Together, OneWorker
    <2> QED BY Zenon, <2>2, <2>3 DEF Barred
  <1>8. StopTogether'
    BY Zenon, <1>5 DEF Places, StopTogether
  <1>9. Ordered' /\ SameClock'
    BY Zenon, <1>0, <1>6 DEF Timed, Ordered, OnTime, SameClock
  <1>10. OneTick'
    <2>1. \A u, g, w : AllAt(u, g, w)' <=> AllAt(u, g, w)
      BY ZenonT(30), <1>0, <1>2 DEF AllAt
    <2> QED BY Zenon, <2>1 DEF Timed, OneTick
  <1>11. LimitKept'
    <2>1. AtRest' <=> AtRest
      BY Zenon, <1>0 DEF AtRest
    <2>2. \A u : LimitThere(u)' <=> LimitThere(u)
      BY Zenon, <1>0, <1>2, <1>3, <1>5, <2>1 DEF LimitThere
    <2> QED BY Zenon, <1>0, <2>2 DEF Timed, LimitKept, LimitThere
  <1>12. Rounds'
    <2>1. \A u, S : /\ In(u, S)' <=> In(u, S)
                    /\ At(u, S)' <=> At(u, S)
                    /\ NotBefore(u, S)' <=> NotBefore(u, S)
      BY Zenon, <1>0, <1>2, <1>6 DEF In, At, NotBefore
    <2>2. \A u, S : Old(u, S)' <=> Old(u, S)
      BY Zenon, <1>0, <1>2, <1>3, <1>6 DEF Old
    <2>3. \A S : Round(S)' <=> Round(S)
      BY Zenon, <2>1, <2>2 DEF Round
    <2>4. NoSync' <=> NoSync
      BY Zenon, <1>0 DEF NoSync
    <2> QED BY Zenon, <1>0, <2>3, <2>4 DEF Timed, Rounds
  <1> QED BY Zenon, <1>1, <1>7, <1>8, <1>9, <1>10, <1>11, <1>12 DEF Places, Timed

\* The module's type invariant, from the one used here.
LEMMA TypesOK ==
    ASSUME Types
    PROVE  TypeOK
  <1>1. ASSUME NEW q \in Seq(Entries) PROVE \A i \in DOMAIN q : EntryOK(q[i])
    <2>1. \A x \in Entries : EntryOK(x)
      BY Zenon DEF EntryOK, Entries
    <2>2. \A i \in DOMAIN q : q[i] \in Entries
      OBVIOUS
    <2> QED BY Zenon, <2>1, <2>2
  <1>2. \A t \in Threads : evq[t] \in Seq(Entries) /\ asyncq[t] \in Seq(Entries)
    BY Zenon DEF Types
  <1>3. DOMAIN evq = Threads /\ DOMAIN asyncq = Threads
    BY Zenon DEF Types
  <1> QED BY Zenon, <1>1, <1>2, <1>3 DEF Types, TypeOK

\* No entry and no event under way is in the past, by the second invariant.
LEMMA Causal ==
    ASSUME Places, Timed
    PROVE  TimeIsCausal
  <1>0. /\ curTick \in [Threads -> Ticks] /\ evq \in [Threads -> Seq(Entries)]
        /\ asyncq \in [Threads -> Seq(Entries)]
        /\ pend \in [Threads -> [ev : Events, w : Ticks, i : Threads, ret : PCs]]
        /\ 0 \in Threads /\ Quantum \in Nat
    BY Zenon, Constants DEF Places, Types
  <1>1. NothingInThePast
    <2> SUFFICES ASSUME NEW t \in Threads, evq[t] # <<>> PROVE curTick[t] <= Head(evq[t]).w
      BY Zenon DEF NothingInThePast
    <2>1. evq[t] \in Seq(Entries) /\ curTick[t] \in Nat
      BY Zenon, <1>0 DEF Ticks
    <2>2. Head(evq[t]) = evq[t][1] /\ 1 \in 1 .. Len(evq[t]) /\ evq[t][1] \in Entries
      BY <2>1
    <2>3. Head(evq[t]) \in Elems(evq[t]) /\ Head(evq[t]).w \in Nat
      BY Zenon, <2>2 DEF Elems, Entries, Ticks
    <2>4. Head(evq[t]).w >= curTick[t]
      BY Zenon, <2>3 DEF Timed, Ordered, OnTime
    <2> QED BY Zenon, <2>1, <2>3, <2>4
  <1>2. NotInTargetsPast
    <2>1. ASSUME NEW t \in Threads, pc[t] = "insert" PROVE pend[t].w >= curTick[pend[t].i]
      <3>1. ~Stopped(t) /\ Scheduling(t)
        BY Zenon, <2>1 DEF Stopped, Idle, Ashore, BlockedOn, Post, Scheduling
      <3>2. PICK S \in Ticks : Round(S)
        BY Zenon, <3>1, Running DEF Timed, Rounds
      <3>3. pend[t].w >= S
        BY Zenon, <3>1, <3>2 DEF Round, NotBefore, Later
      <3>4. pend[t].i \in Threads /\ pend[t].w \in Nat /\ S \in Nat
        BY Zenon, <1>0 DEF Ticks
      <3>5. curTick[pend[t].i] <= S
        BY Zenon, <3>2, <3>4, RoundFacts
      <3>6. curTick[pend[t].i] \in Nat
        BY Zenon, <1>0, <3>4 DEF Ticks
      <3> QED BY ONLY <3>3, <3>4, <3>5, <3>6
    <2>2. ASSUME NEW t \in Threads, NEW i \in DOMAIN asyncq[t] PROVE asyncq[t][i].w >= curTick[t]
      <3>1. asyncq[t][i] \in Elems(asyncq[t])
        BY <1>0 DEF Elems
      <3> QED BY Zenon, <3>1 DEF Timed, Ordered, OnTime
    <2> QED BY Zenon, <2>1, <2>2 DEF NotInTargetsPast
  <1>3. WithinAQuantum
    <2> SUFFICES ASSUME NEW t \in Threads, NEW u \in Threads PROVE curTick[t] <= curTick[u] + Quantum
      BY Zenon DEF WithinAQuantum
    <2>0. curTick[t] \in Nat /\ curTick[u] \in Nat
      BY Zenon, <1>0 DEF Ticks
    <2>1. CASE pc[0] = "python"
      <3>1. pc[0] \in {"python", "exit"}
        BY Zenon, <2>1
      <3>2. curTick[t] = curTick[u]
        BY Zenon, <3>1, PythonStopped
      <3> QED BY <1>0, <2>0, <3>2
    <2>2. CASE pc[0] # "python"
      <3>1. PICK S \in Ticks : Round(S)
        BY Zenon, <2>2 DEF Timed, Rounds
      <3>2. curTick[t] <= S /\ S <= curTick[u] + Quantum
        BY Zenon, <3>1, RoundFacts
      <3>3. S \in Nat
        BY Zenon DEF Ticks
      <3> QED BY ONLY <1>0, <2>0, <3>2, <3>3
    <2> QED BY Zenon, <2>1, <2>2
  <1> QED BY Zenon, <1>1, <1>2, <1>3, TypesOK DEF TimeIsCausal, Places

\* Who leaves the loop has the quantum event in its queue, by the second invariant.
LEMMA InSync ==
    ASSUME Places, Timed
    PROVE  ReturnsInSync
  <1> SUFFICES ASSUME pc[0] = "exit", NEW t \in Threads
               PROVE  Has(evq[t], Sync) /\ ~Has(asyncq[t], Sync) /\ curTick[t] = curTick[0]
    BY Zenon DEF ReturnsInSync
  <1>1. curTick[t] = curTick[0] /\ ~Inside(t, Sync)
    <2>1. pc[0] \in {"python", "exit"}
      OBVIOUS
    <2> QED BY Zenon, <2>1, PythonStopped
  <1>2. PICK S \in Ticks : Round(S)
    BY Zenon DEF Timed, Rounds
  <1>3. In(t, S)
    BY Zenon, <1>1, <1>2, RoundFacts
  <1>4. Entry(Sync, S) \in Elems(evq[t]) /\ Entry(Sync, S).ev = Sync
    BY Zenon, <1>3 DEF In, Entry
  <1>5. Has(evq[t], Sync)
    BY Zenon, <1>4, HasElems
  <1> QED BY Zenon, <1>1, <1>3, <1>5 DEF In

\* The thread past the barrier has the others in it, by the first invariant.
LEMMA Alone ==
    ASSUME Places, Timed
    PROVE  ProcessRunsAlone
  <1> SUFFICES ASSUME NEW t \in Threads, Worker(t), NEW u \in Threads \ {t}
               PROVE  /\ pc[u] \in {"wait1", "arrive2", "wait2"} /\ cur[u] = cur[t]
                      /\ curTick[u] = curTick[t]
    BY Zenon DEF ProcessRunsAlone, Worker
  <1>1. cur[t] \in Globals
    BY Zenon DEF Places, Control, Placed, InBarrier
  <1>2. Mid(t, cur[t])
    BY Zenon DEF Mid, Inside, InBarrier, Worker, Pre, Post
  <1>3. Mid(u, cur[t])
    BY Zenon, <1>1, <1>2 DEF Places, Barred, Together
  <1>4. ~Worker(u)
    BY Zenon DEF Places, Barred, OneWorker
  <1>5. curTick[u] = curTick[t]
    BY Zenon, <1>1, <1>2 DEF Timed, SameClock, Bound
  <1> QED BY Zenon, <1>3, <1>4, <1>5 DEF Mid, Inside, InBarrier

--------------------------------------------------------------------------------
(* Global events in one order *)

\* The barrier event of g is in thread t's queues, or t waits in its first barrier.
Here(t, g) == Has(evq[t], g) \/ Has(asyncq[t], g) \/ Pre(t, g)

\* Thread v is scheduling g on the queues from pend[v].i on.
Pending(v, g) == Scheduling(v) /\ pend[v].ev = g

\* A requested global event has one barrier event per thread.
Single(g) ==
    \A t \in Threads :
        /\ Once(evq[t], g) /\ Once(asyncq[t], g) /\ ~(Has(evq[t], g) /\ Has(asyncq[t], g))
        /\ Has(evq[t], g) \/ Has(asyncq[t], g) => ~Inside(t, g)

\* While it is being scheduled it is in the queues up to the next one; then it is
\* at all threads or at none.
Whole(g) ==
    /\ \A v \in Threads : Pending(v, g) =>
            /\ \A u \in Threads : Here(u, g) <=> u < pend[v].i
            /\ \A u \in Threads : Pending(u, g) => u = v
            /\ \A u \in Threads : Inside(u, g) => Pre(u, g)
    /\ (\A v \in Threads : ~Pending(v, g)) => \A t, u \in Threads : Here(t, g) => Here(u, g)

\* A thread in the first barrier of g has nothing in its queue that goes before g.
Passed ==
    \A t \in Threads, g \in Globals :
        Pre(t, g) => \A x \in Elems(evq[t]) : ~Less(x, Entry(g, curTick[t]))

Agreed == Passed /\ \A g \in Requests : Single(g) /\ Whole(g)

\* A thread that another one's step finds in a first barrier was there before.
LEMMA PreBefore ==
    ASSUME Arithmetic, Places, NEW t \in Threads, Acts(t), NEW u \in Threads \ {t}, NEW g \in Globals, Pre(u, g)'
    PROVE  Pre(u, g)
  <1>0. Only(t) /\ Types /\ Control /\ Barred
    BY Zenon, ActsMoves DEF Places, Moves
  <1>1. CASE ~Arrive1(t)
    BY Zenon, <1>1, ActsCarries DEF Carries
  <1>2. CASE Arrive1(t)
    <2>1. PICK h : h = cur'[t]
      OBVIOUS
    <2>2. Arrived1(t, h)
      BY Zenon, <1>0, <1>2, <2>1, Arrive1Keeps
    <2>3. CASE numLeft[h] # 1
      BY Zenon, <2>2, <2>3 DEF Arrived1, SamePlace
    <2>4. CASE numLeft[h] = 1
      <3>1. Mid(u, h)'
        BY Zenon, <2>2, <2>4 DEF Arrived1
      <3> QED BY Zenon, <3>1 DEF Mid, Inside, Pre
    <2> QED BY Zenon, <2>3, <2>4
  <1> QED BY Zenon, <1>1, <1>2

\* A thread stays in a first barrier unless the last thread arrives at it.
LEMMA PreAfter ==
    ASSUME Arithmetic, Places, NEW t \in Threads, Acts(t), NEW x \in Entries, Popped(t, x), NEW u \in Threads \ {t},
           NEW g \in Globals, Pre(u, g), x.ev # g \/ numLeft[g] # 1
    PROVE  Pre(u, g)'
  <1>0. Only(t) /\ Types /\ Control /\ Barred
    BY Zenon, ActsMoves DEF Places, Moves
  <1>1. CASE ~Arrive1(t)
    BY Zenon, <1>1, ActsCarries DEF Carries
  <1>2. CASE Arrive1(t)
    <2>1. PICK h : h = cur'[t]
      OBVIOUS
    <2>2. Arrived1(t, h) /\ h = x.ev
      BY Zenon, <1>0, <1>2, <2>1, Arrive1Keeps DEF Popped
    <2>3. CASE numLeft[h] # 1
      BY Zenon, <2>2, <2>3 DEF Arrived1, SamePlace
    <2>4. CASE numLeft[h] = 1
      <3>1. Pre(u, h)
        BY Zenon, <2>2, <2>4 DEF Arrived1
      <3> QED BY Zenon, <2>2, <2>4, <3>1 DEF Pre
    <2> QED BY Zenon, <2>3, <2>4
  <1> QED BY Zenon, <1>1, <1>2

\* Passed holds of the next state.
LEMMA PassedStep ==
    ASSUME Arithmetic, Places, Timed, Agreed, NEW t \in Threads, Acts(t)
    PROVE  Passed'
  <1> SUFFICES ASSUME NEW u \in Threads, NEW g \in Globals, Pre(u, g)'
               PROVE  \A x \in Elems(evq'[u]) : ~Less(x, Entry(g, curTick'[u]))
    BY Zenon DEF Passed
  <1>0. Only(t) /\ Types /\ Control /\ Barred /\ Located
    BY Zenon, ActsMoves, OutsideGlobals DEF Places, Moves
  <1>1. ASSUME evq'[u] = evq[u], curTick'[u] = curTick[u], Pre(u, g)
        PROVE  \A x \in Elems(evq'[u]) : ~Less(x, Entry(g, curTick'[u]))
    BY Zenon, <1>1 DEF Agreed, Passed
  <1>2. CASE ServiceOne(t)
    <2>1. PICK x \in Entries : Popped(t, x)
      BY Zenon, <1>2, ServicePops
    <2>2. CASE u = t
      <3>1. g = x.ev /\ curTick'[u] = x.w
        BY Zenon, <2>1, <2>2 DEF Popped, Pre
      <3>2. x = Entry(g, curTick'[u])
        BY Zenon, <3>1 DEF Entries, Entry
      <3>3. Sorted(evq[t])
        BY Zenon DEF Timed, Ordered, OnTime
      <3>4. \A y \in Elems(evq[t]) : ~Less(y, x)
        BY Zenon, <2>1, <3>3 DEF Popped
      <3>5. Elems(evq'[t]) \subseteq Elems(evq[t])
        BY Zenon, <2>1 DEF Popped, Shrunk
      <3> QED BY Zenon, <2>2, <3>2, <3>4, <3>5
    <2>3. CASE u # t
      <3>1. Pre(u, g)
        BY Zenon, <2>1, <2>3, PreBefore
      <3> QED BY Zenon, <1>1, <2>1, <2>3, <3>1 DEF Popped
    <2> QED BY Zenon, <2>2, <2>3
  <1>3. CASE ~ServiceOne(t)
    <2>1. Pre(u, g) /\ curTick' = curTick
      BY Zenon, <1>3, LoopServes, ClockKept DEF Carries
    <2>2. pc[u] = "wait1" /\ ~Stopped(u)
      BY Zenon, <1>0, <2>1 DEF Pre, Located
    <2>3. pc[0] \notin {"python", "exit"}
      BY Zenon, <2>2, PythonStopped
    <2>4. evq'[u] = evq[u]
      <3>1. CASE Calm(t) \/ \E v \in Threads, x \in Entries : Sends(t, v, x)
        BY Zenon, <3>1 DEF Calm, Sends
      <3>2. CASE Merges(t)
        <4>1. u # t
          BY Zenon, <2>2, <3>2 DEF Merges, EnterLoop, Return
        <4> QED BY Zenon, <3>2, <4>1, MergesUnite DEF Merges, Merged
      <3>3. ASSUME NEW v \in Threads, NEW x \in Entries, Inserts(v, x) PROVE evq'[u] = evq[u]
        <4>1. u # v
          BY Zenon, <2>2, <2>3, <3>3 DEF Inserts
        <4> QED BY Zenon, <3>3, <4>1, InsertsFile DEF Inserts, Filed
      <3>4. ~LeaveLoop(0) /\ ~\E n \in Cycles : Simulate(n)
        BY Zenon, <2>3 DEF LeaveLoop, Simulate
      <3> QED BY Zenon, <1>3, <3>1, <3>2, <3>3, <3>4, ActsKinds DEF Kinds
    <2> QED BY Zenon, <1>1, <2>1, <2>4
  <1> QED BY Zenon, <1>2, <1>3

\* Where the barrier events of g are changes in two steps only: one that puts g in an
\* async_queue, and the arrival of the last thread at g's first barrier.
LEMMA HereKept ==
    ASSUME Arithmetic, Places, Timed, NEW g \in Requests, Single(g), NEW t \in Threads, Acts(t), NEW u \in Threads,
           ~\E v \in Threads, x \in Entries : Sends(t, v, x) /\ x.ev = g,
           ~\E x \in Entries : Popped(t, x) /\ x.ev = g
    PROVE  /\ Here(u, g)' <=> Here(u, g)
           /\ Pre(u, g)' <=> Pre(u, g)
           /\ Has(evq'[u], g) \/ Has(asyncq'[u], g) <=> Has(evq[u], g) \/ Has(asyncq[u], g)
           /\ Once(evq'[u], g) /\ Once(asyncq'[u], g) /\ ~(Has(evq'[u], g) /\ Has(asyncq'[u], g))
  <1> DEFINE Queued == /\ Has(evq'[u], g) \/ Has(asyncq'[u], g) <=> Has(evq[u], g) \/ Has(asyncq[u], g)
                       /\ Once(evq'[u], g) /\ Once(asyncq'[u], g) /\ ~(Has(evq'[u], g) /\ Has(asyncq'[u], g))
  <1>0. g \in Globals /\ g # Sync /\ g # Limit /\ g \notin Locals
    BY Zenon, ParallelAssumption DEF Globals
  <1>00. Once(evq[u], g) /\ Once(asyncq[u], g) /\ ~(Has(evq[u], g) /\ Has(asyncq[u], g))
    BY Zenon DEF Single
  <1>1. Queued
    <2>1. ASSUME Calm(t) PROVE Queued
      BY Zenon, <1>00, <2>1 DEF Calm
    <2>2. ASSUME ServiceOne(t) PROVE Queued
      <3>1. PICK x \in Entries : Popped(t, x)
        BY Zenon, <2>2, ServicePops
      <3>2. x.ev # g
        BY Zenon, <3>1
      <3>3. CASE u # t
        BY Zenon, <1>00, <3>1, <3>3 DEF Popped
      <3>4. CASE u = t
        <4>1. Has(evq'[u], g) <=> Has(evq[u], g)
          BY Zenon, <3>1, <3>2, <3>4, HasElems DEF Popped, Shrunk
        <4>2. Once(evq'[u], g) /\ asyncq' = asyncq
          BY Zenon, <1>00, <3>1, <3>4 DEF Popped, Shrunk
        <4> QED BY Zenon, <1>00, <4>1, <4>2
      <3> QED BY Zenon, <3>3, <3>4
    <2>3. ASSUME Merges(t) PROVE Queued
      <3>1. Merged(t)
        BY Zenon, <2>3, MergesUnite DEF Merges
      <3>2. CASE u # t
        BY Zenon, <1>00, <3>1, <3>2 DEF Merged
      <3>3. CASE u = t
        <4>1. Has(evq'[u], g) <=> Has(evq[u], g) \/ Has(asyncq[u], g)
          BY Zenon, <3>1, <3>3, HasElems DEF Merged, Union
        <4>2. Once(evq'[u], g) /\ Once(asyncq'[u], g) /\ ~Has(asyncq'[u], g)
          BY Zenon, <1>00, <3>1, <3>3 DEF Merged, Union
        <4> QED BY Zenon, <4>1, <4>2
      <3> QED BY Zenon, <3>2, <3>3
    <2>4. ASSUME NEW v \in Threads, NEW x \in Entries, Inserts(v, x) PROVE Queued
      <3>1. Filed(v, x) /\ asyncq' = asyncq
        BY Zenon, <2>4, InsertsFile DEF Inserts
      <3>2. x.ev # g
        BY Zenon, <1>0, <2>4 DEF Inserts
      <3>3. CASE u # v
        BY Zenon, <1>00, <3>1, <3>3 DEF Filed
      <3>4. CASE u = v
        <4>1. Has(evq'[u], g) <=> Has(evq[u], g)
          BY Zenon, <3>1, <3>2, <3>4, HasElems DEF Filed, Grown
        <4>2. Once(evq'[u], g)
          BY Zenon, <1>00, <3>1, <3>2, <3>4 DEF Filed, Grown
        <4> QED BY Zenon, <1>00, <3>1, <4>1, <4>2
      <3> QED BY Zenon, <3>3, <3>4
    <2>5. ASSUME NEW v \in Threads, NEW x \in Entries, Sends(t, v, x) PROVE Queued
      <3>1. Posted(v, x) /\ evq' = evq
        BY Zenon, <2>5, SendsPost DEF Sends
      <3>2. x.ev # g
        BY Zenon, <2>5
      <3>3. CASE u # v
        BY Zenon, <1>00, <3>1, <3>3 DEF Posted
      <3>4. CASE u = v
        <4>1. Has(asyncq'[u], g) <=> Has(asyncq[u], g)
          BY Zenon, <3>1, <3>2, <3>4, HasElems DEF Posted, Grown
        <4>2. Once(asyncq'[u], g)
          BY Zenon, <1>00, <3>1, <3>2, <3>4 DEF Posted, Grown
        <4> QED BY Zenon, <1>00, <3>1, <4>1, <4>2
      <3> QED BY Zenon, <3>3, <3>4
    <2>6. ASSUME NEW n \in Cycles, Simulate(n) PROVE Queued
      <3>1. PICK l, s \in Ticks : \A v \in Threads : Restarted(v, l, s)
        BY Zenon, <2>6, SimulateRestarts
      <3>2. asyncq' = asyncq
        BY Zenon, <2>6 DEF Simulate
      <3>3. Entry(Limit, l).ev # g /\ Entry(Sync, s).ev # g
        BY Zenon, <1>0 DEF Entry
      <3>4. Has(evq'[u], g) <=> Has(evq[u], g)
        BY Zenon, <1>0, <3>1, <3>3, HasElems DEF Restarted
      <3>5. Once(evq'[u], g)
        BY Zenon, <1>0, <1>00, <3>1 DEF Restarted
      <3> QED BY Zenon, <1>00, <3>2, <3>4, <3>5
    <2>7. ASSUME LeaveLoop(0) PROVE Queued
      <3>1. Dropped(evq'[u], evq[u], Sync) /\ asyncq' = asyncq
        BY Zenon, <2>7, LeaveDrops
      <3>2. Has(evq'[u], g) <=> Has(evq[u], g)
        BY Zenon, <1>0, <3>1, HasElems DEF Dropped
      <3>3. Once(evq'[u], g)
        BY Zenon, <1>00, <3>1 DEF Dropped
      <3> QED BY Zenon, <1>00, <3>1, <3>2, <3>3
    <2> QED BY Zenon, <2>1, <2>2, <2>3, <2>4, <2>5, <2>6, <2>7, ActsKinds DEF Kinds
  <1>2. Pre(u, g)' <=> Pre(u, g)
    <2>1. CASE ~ServiceOne(t)
      BY Zenon, <1>0, <2>1, LoopServes DEF Carries
    <2>2. CASE ServiceOne(t)
      <3>1. PICK x \in Entries : Popped(t, x)
        BY Zenon, <2>2, ServicePops
      <3>2. x.ev # g
        BY Zenon, <3>1
      <3>3. CASE u = t
        BY Zenon, <3>1, <3>2, <3>3 DEF Popped, Pre
      <3>4. CASE u # t
        <4>1. Pre(u, g)' => Pre(u, g)
          BY Zenon, <1>0, <3>4, PreBefore
        <4>2. Pre(u, g) => Pre(u, g)'
          BY Zenon, <1>0, <3>1, <3>2, <3>4, PreAfter
        <4> QED BY Zenon, <4>1, <4>2
      <3> QED BY Zenon, <3>3, <3>4
    <2> QED BY Zenon, <2>1, <2>2
  <1> QED BY Zenon, <1>1, <1>2 DEF Here

\* A thread is inside g's barriers because it was, or because it took g from its queue.
LEMMA InsideBefore ==
    ASSUME Arithmetic, Places, NEW t \in Threads, Acts(t), NEW u \in Threads, NEW g \in Globals, Inside(u, g)',
           u # t \/ ~\E x \in Entries : Popped(t, x) /\ x.ev = g
    PROVE  Inside(u, g)
  <1>1. CASE u # t
    <2>1. Only(t)
      BY Zenon, ActsMoves DEF Places, Moves
    <2> QED BY Zenon, <1>1, <2>1 DEF Only, Inside, InBarrier, Worker
  <1>2. CASE u = t /\ ~ServiceOne(t)
    <2>1. Carries(t)
      BY Zenon, <1>2, LoopServes
    <2>2. Pre(u, g)' \/ Mid(u, g)' \/ Post(u, g)'
      BY Zenon DEF Mid
    <2>3. Pre(u, g) \/ Mid(u, g) \/ Post(u, g)
      BY Zenon, <2>1, <2>2 DEF Carries
    <2> QED BY Zenon, <2>3, PlaceNames
  <1>3. CASE u = t /\ ServiceOne(t)
    BY Zenon, <1>3, ServicePops DEF Popped, Inside
  <1> QED BY Zenon, <1>1, <1>2, <1>3

\* InsertGlobal(t) puts g in the async_queue of the thread it is at, which has none.
LEMMA SendsGlobal ==
    ASSUME Places, NEW g \in Requests, Whole(g), NEW t \in Threads, NEW v \in Threads, NEW x \in Entries,
           Sends(t, v, x), x.ev = g
    PROVE  /\ InsertGlobal(t) /\ v = pend[t].i /\ Pending(t, g)
           /\ ~Here(v, g) /\ ~Inside(v, g)
           /\ \A u \in Threads : Here(u, g) <=> u < v
           /\ Posted(v, x) /\ evq' = evq
  <1>1. InsertGlobal(t) /\ v = pend[t].i /\ x = Entry(pend[t].ev, pend[t].w)
    <2>1. x.ev \notin Locals
      BY Zenon, ParallelAssumption DEF Globals
    <2> QED BY Zenon, <2>1 DEF Sends
  <1>2. Pending(t, g)
    BY Zenon, <1>1 DEF InsertGlobal, Entry, Pending, Scheduling
  <1>3. \A u \in Threads : Here(u, g) <=> u < v
    BY Zenon, <1>1, <1>2 DEF Whole
  <1>4. ~(v < v)
    BY Constants
  <1>5. ~Here(v, g)
    BY Zenon, <1>3, <1>4
  <1>6. ~Inside(v, g)
    BY Zenon, <1>2, <1>5 DEF Whole, Here
  <1> QED BY Zenon, <1>1, <1>2, <1>3, <1>5, <1>6, SendsPost DEF Sends

\* Every step keeps one barrier event of g per thread.
LEMMA SingleStep ==
    ASSUME Arithmetic, Places, Timed, NEW g \in Requests, Single(g), Whole(g), NEW t \in Threads, Acts(t)
    PROVE  Single(g)'
  <1>0. g \in Globals
    BY Zenon, Constants
  <1> DEFINE One(u) == /\ Once(evq'[u], g) /\ Once(asyncq'[u], g) /\ ~(Has(evq'[u], g) /\ Has(asyncq'[u], g))
                       /\ Has(evq'[u], g) \/ Has(asyncq'[u], g) => ~Inside(u, g)'
  <1> SUFFICES ASSUME NEW u \in Threads PROVE One(u)
    BY Zenon DEF Single
  <1>00. /\ Once(evq[u], g) /\ Once(asyncq[u], g) /\ ~(Has(evq[u], g) /\ Has(asyncq[u], g))
         /\ Has(evq[u], g) \/ Has(asyncq[u], g) => ~Inside(u, g)
    BY Zenon DEF Single
  <1>1. ASSUME NEW v \in Threads, NEW x \in Entries, Sends(t, v, x), x.ev = g PROVE One(u)
    <2>0. InsertGlobal(t) /\ ~Here(v, g) /\ ~Inside(v, g) /\ Posted(v, x) /\ evq' = evq
      BY Zenon, <1>1, SendsGlobal
    <2>1. Inside(u, g)' => Inside(u, g)
      <3>1. ~\E y \in Entries : Popped(t, y) /\ y.ev = g
        BY Zenon, <2>0 DEF InsertGlobal, Popped
      <3> QED BY Zenon, <1>0, <3>1, InsideBefore
    <2>2. CASE u # v
      BY Zenon, <1>00, <2>0, <2>1, <2>2 DEF Posted
    <2>3. CASE u = v
      <3>1. Once(asyncq'[u], g) /\ ~Has(evq'[u], g)
        BY Zenon, <1>00, <2>0, <2>3 DEF Posted, Grown, Here
      <3> QED BY Zenon, <1>00, <2>0, <2>1, <2>3, <3>1
    <2> QED BY Zenon, <2>2, <2>3
  <1>2. ASSUME NEW x \in Entries, Popped(t, x), x.ev = g PROVE One(u)
    <2>1. CASE u # t
      <3>1. Inside(u, g)' => Inside(u, g)
        BY Zenon, <1>0, <2>1, InsideBefore
      <3> QED BY Zenon, <1>00, <1>2, <2>1, <3>1 DEF Popped
    <2>2. CASE u = t
      <3>1. Has(evq[u], g)
        BY Zenon, <1>2, <2>2, HasElems DEF Popped
      <3>2. ~Has(evq'[u], g) /\ Once(evq'[u], g) /\ asyncq' = asyncq
        BY Zenon, <1>00, <1>2, <2>2 DEF Popped, Shrunk
      <3> QED BY Zenon, <1>00, <3>1, <3>2
    <2> QED BY Zenon, <2>1, <2>2
  <1>3. ASSUME ~\E v \in Threads, x \in Entries : Sends(t, v, x) /\ x.ev = g,
               ~\E x \in Entries : Popped(t, x) /\ x.ev = g
        PROVE  One(u)
    <2>1. Inside(u, g)' => Inside(u, g)
      BY Zenon, <1>0, <1>3, InsideBefore
    <2>2. /\ Has(evq'[u], g) \/ Has(asyncq'[u], g) <=> Has(evq[u], g) \/ Has(asyncq[u], g)
          /\ Once(evq'[u], g) /\ Once(asyncq'[u], g) /\ ~(Has(evq'[u], g) /\ Has(asyncq'[u], g))
      BY Zenon, <1>3, HereKept
    <2> QED BY Zenon, <1>00, <2>1, <2>2
  <1> QED BY Zenon, <1>1, <1>2, <1>3

\* A thread inside BaseGlobalEvent::schedule() takes the mutex or inserts.
LEMMA SchedulingActs ==
    ASSUME Places, NEW t \in Threads, Acts(t), Scheduling(t)
    PROVE  \/ InsertGlobal(t)
           \/ pend' = pend /\ Scheduling(t)'
  <1>0. pc \in [Threads -> PCs]
    BY Zenon DEF Places, Types
  <1>1. CASE t = 0 /\ Python
    BY Zenon, <1>1 DEF Python, Simulate, Startup, Scheduling
  <1>2. CASE Step(t)
    BY Zenon, <1>0, <1>2 DEF Step, Scheduling, ThreadWait, ThreadReleased, EnterLoop, ServiceOne, LeaveLoop, ScheduleOwn,
       Send, SetFlag, Request, ProcessReturns, LockGlobalQ, Work, RunProcess, Released1, Arrive2, Return
  <1> QED BY Zenon, <1>1, <1>2 DEF Acts

\* The last thread's arrival at g's first barrier: g was at every thread, and is gone.
LEMMA LastArrival ==
    ASSUME Arithmetic, Places, NEW g \in Requests, Single(g), Single(g)', NEW t \in Threads, Acts(t), NEW x \in Entries,
           Popped(t, x), x.ev = g, numLeft[g] = 1
    PROVE  \A u \in Threads : Here(u, g) /\ ~Here(u, g)'
  <1>0. Only(t) /\ Types /\ Control /\ Barred /\ g \in Globals /\ g \notin Locals
    <2>1. g \in Globals /\ g \notin Locals
      BY Zenon, ParallelAssumption DEF Globals
    <2> QED BY Zenon, <2>1, ActsMoves DEF Places, Moves
  <1>1. Arrived1(t, g)
    <2>1. Arrive1(t) /\ g = cur'[t]
      BY Zenon, <1>0 DEF Popped
    <2> QED BY Zenon, <1>0, <2>1, Arrive1Keeps
  <1>2. \A u \in Threads : Mid(u, g)' /\ (u # t => Pre(u, g))
    BY Zenon, <1>1 DEF Arrived1
  <1>3. ASSUME NEW u \in Threads PROVE Here(u, g) /\ ~Here(u, g)'
    <2>1. Here(u, g)
      BY Zenon, <1>2, HasElems DEF Popped, Here
    <2>2. ~Pre(u, g)' /\ Inside(u, g)'
      BY Zenon, <1>2 DEF Mid
    <2> QED BY Zenon, <2>1, <2>2 DEF Here, Single
  <1> QED BY Zenon, <1>3

\* The arrival of another thread.
LEMMA EarlyArrival ==
    ASSUME Arithmetic, Places, NEW g \in Requests, NEW t \in Threads, Acts(t), NEW x \in Entries,
           Popped(t, x), x.ev = g, numLeft[g] # 1, NEW u \in Threads
    PROVE  /\ Here(u, g)' <=> Here(u, g)
           /\ Pre(u, g) => Pre(u, g)'
           /\ u = t => Pre(u, g)'
  <1>0. Only(t) /\ Types /\ Control /\ Barred /\ g \in Globals /\ g \notin Locals
    <2>1. g \in Globals /\ g \notin Locals
      BY Zenon, ParallelAssumption DEF Globals
    <2> QED BY Zenon, <2>1, ActsMoves DEF Places, Moves
  <1>1. Arrived1(t, g)
    <2>1. Arrive1(t) /\ g = cur'[t]
      BY Zenon, <1>0 DEF Popped
    <2> QED BY Zenon, <1>0, <2>1, Arrive1Keeps
  <1>2. CASE u = t
    <2>1. Pre(u, g)'
      BY Zenon, <1>1, <1>2 DEF Arrived1
    <2>2. Has(evq[u], g)
      BY Zenon, <1>2, HasElems DEF Popped
    <2> QED BY Zenon, <2>1, <2>2 DEF Here
  <1>3. CASE u # t
    <2>1. SamePlace(u)
      BY Zenon, <1>1, <1>3 DEF Arrived1
    <2>2. Pre(u, g)' <=> Pre(u, g)
      BY Zenon, <1>0, <2>1 DEF SamePlace
    <2> QED BY Zenon, <1>3, <2>2 DEF Popped, Here
  <1> QED BY Zenon, <1>2, <1>3

\* What Whole(g) needs of a step that leaves g where it is, or takes one queue's entry.
LEMMA WholeKept ==
    ASSUME NEW g, Whole(g),
           \A u \in Threads : Here(u, g)' <=> Here(u, g),
           \A v \in Threads : Pending(v, g)' => Pending(v, g) /\ pend'[v].i = pend[v].i,
           \A v \in Threads : Pending(v, g) => Pending(v, g)',
           \A u \in Threads : Inside(u, g)' => Pre(u, g)' \/ Inside(u, g),
           \A u \in Threads : Pre(u, g) => Pre(u, g)'
    PROVE  Whole(g)'
  <1>1. ASSUME NEW v \in Threads, Pending(v, g)'
        PROVE  /\ \A u \in Threads : Here(u, g)' <=> u < pend'[v].i
               /\ \A u \in Threads : Pending(u, g)' => u = v
               /\ \A u \in Threads : Inside(u, g)' => Pre(u, g)'
    <2>1. Pending(v, g) /\ pend'[v].i = pend[v].i
      BY Zenon, <1>1
    <2>2. /\ \A u \in Threads : Here(u, g) <=> u < pend[v].i
          /\ \A u \in Threads : Pending(u, g) => u = v
          /\ \A u \in Threads : Inside(u, g) => Pre(u, g)
      BY Zenon, <2>1 DEF Whole
    <2> QED BY Zenon, <2>1, <2>2
  <1>2. (\A v \in Threads : ~Pending(v, g)') => \A t, u \in Threads : Here(t, g)' => Here(u, g)'
    BY Zenon DEF Whole
  <1> QED BY Zenon, <1>1, <1>2 DEF Whole

\* Every step keeps g at the threads it has reached.
LEMMA WholeStep ==
    ASSUME Arithmetic, Places, Timed, NEW g \in Requests, Single(g), Whole(g), NEW t \in Threads, Acts(t)
    PROVE  Whole(g)'
  <1>0. /\ g \in Globals /\ g # Sync /\ Only(t) /\ SchedKept(t) /\ Single(g)' /\ N - 1 \in Threads
        /\ pend \in [Threads -> [ev : Events, w : Ticks, i : Threads, ret : PCs]] /\ pc \in [Threads -> PCs]
    <2>1. N - 1 \in Threads
      BY ParallelAssumption DEF Threads
    <2>2. g \in Globals /\ g # Sync
      BY Zenon, Constants
    <2> QED BY Zenon, <2>1, <2>2, ActsMoves, ActsSched, SingleStep DEF Places, Moves, Types
  <1>1. CASE Begins(t) /\ pend'[t].ev = g
    <2>1. ~InUse(g) /\ evq' = evq /\ asyncq' = asyncq /\ pend'[t].i = 0 /\ ~ServiceOne(t)
      <3>1. CASE Work(t) /\ cur[t] = Sync
        <4>1. pend'[t].ev = Sync
          BY Zenon, <3>1, Repeats DEF Places
        <4> QED BY Zenon, <1>0, <1>1, <4>1
      <3>2. ASSUME NEW h \in Requests, NEW d \in RequestDelays, Request(t, h, d)
            PROVE  pend'[t].ev = h /\ ~InUse(h) /\ evq' = evq /\ asyncq' = asyncq /\ pend'[t].i = 0 /\ ~ServiceOne(t)
        BY Zenon, <1>0, <3>2 DEF Request, queues, ServiceOne
      <3> QED BY Zenon, <1>1, <3>1, <3>2 DEF Begins
    <2>2. ASSUME NEW u \in Threads PROVE ~Here(u, g) /\ ~Pending(u, g) /\ ~Inside(u, g)
      <3>1. ~Here(u, g) /\ ~Pending(u, g)
        BY Zenon, <2>1 DEF InUse, Here, Pending, Scheduling, Pre
      <3>2. Placed(u)
        BY Zenon DEF Places, Control
      <3>3. ~Inside(u, g)
        BY Zenon, <1>0, <2>1, <3>2 DEF InUse, Inside, InBarrier, Worker, Placed, Scheduling
      <3> QED BY Zenon, <3>1, <3>3
    <2>3. \A u \in Threads : ~Here(u, g)'
      BY Zenon, <1>0, <2>1, <2>2, LoopServes DEF Here, Carries
    <2>4. \A u \in Threads : ~Inside(u, g)'
      <3>1. ~\E x \in Entries : Popped(t, x)
        BY Zenon, <1>1 DEF Begins, Request, Work, RunProcess, Popped
      <3> QED BY Zenon, <1>0, <2>2, <3>1, InsideBefore
    <2>5. \A u \in Threads : Pending(u, g)' => u = t
      BY Zenon, <1>0, <2>2 DEF SchedKept, Pending
    <2>6. \A u \in Threads : ~(u < 0)
      BY DEF Threads
    <2> QED BY Zenon, <2>1, <2>3, <2>4, <2>5, <2>6 DEF Whole
  <1>2. ASSUME NEW v \in Threads, NEW x \in Entries, Sends(t, v, x), x.ev = g PROVE Whole(g)'
    <2>1. /\ InsertGlobal(t) /\ v = pend[t].i /\ Pending(t, g) /\ ~Inside(v, g)
          /\ \A u \in Threads : Here(u, g) <=> u < v
          /\ Posted(v, x) /\ evq' = evq
      BY Zenon, <1>2, SendsGlobal
    <2>2. ~ServiceOne(t) /\ ~Begins(t) /\ ~\E y \in Entries : Popped(t, y)
      BY Zenon, <2>1 DEF InsertGlobal, ServiceOne, Begins, Request, Work, RunProcess, Popped
    <2>3. \A u \in Threads : (Pre(u, g)' <=> Pre(u, g)) /\ (Inside(u, g)' => Inside(u, g))
      BY Zenon, <1>0, <2>2, LoopServes, InsideBefore DEF Carries
    <2>4. \A u \in Threads : Inside(u, g)' => Pre(u, g)'
      BY Zenon, <2>1, <2>3 DEF Whole
    <2>5. \A u \in Threads : Pending(u, g)' => u = t
      <3>1. \A u \in Threads : Pending(u, g)' => Pending(u, g)
        BY Zenon, <1>0, <2>2 DEF SchedKept, Pending
      <3> QED BY Zenon, <2>1, <3>1 DEF Whole
    <2>6. ASSUME NEW u \in Threads PROVE Here(u, g)' <=> u < v \/ u = v
      <3>1. CASE u = v
        BY Zenon, <1>2, <2>1, <3>1, HasElems DEF Posted, Grown, Here
      <3>2. CASE u # v
        BY Zenon, <2>1, <2>3, <3>2 DEF Posted, Here
      <3> QED BY Zenon, <3>1, <3>2
    <2>7. \A u \in Threads : u \in Nat /\ v \in Nat /\ u <= N - 1 /\ v <= N - 1 /\ N \in Nat
      BY ParallelAssumption DEF Threads
    <2>8. CASE v < N - 1
      <3>1. pend'[t].i = v + 1
        BY <1>0, <2>1, <2>8 DEF InsertGlobal
      <3>2. \A u \in Threads : u < v \/ u = v <=> u < v + 1
        BY <2>7
      <3>3. \A u \in Threads : Here(u, g)' <=> u < pend'[t].i
        BY Zenon, <2>6, <3>1, <3>2
      <3>4. Pending(t, g)'
        BY Zenon, <1>0, <2>1, <2>8 DEF InsertGlobal, Pending, Scheduling
      <3> QED BY Zenon, <2>4, <2>5, <3>3, <3>4 DEF Whole
    <2>9. CASE ~(v < N - 1)
      <3>1. \A u \in Threads : u < v \/ u = v
        BY <2>7, <2>9
      <3>2. \A u \in Threads : Here(u, g)'
        BY Zenon, <2>6, <3>1
      <3>3. ~Scheduling(t)'
        <4>1. pend[t].ret \in {"process", "arrive2"}
          BY Zenon, <2>1 DEF Places, Control, Placed, Pending
        <4>2. pc'[t] = pend[t].ret
          BY Zenon, <1>0, <2>1, <2>9 DEF InsertGlobal
        <4> QED BY Zenon, <4>1, <4>2 DEF Scheduling
      <3>4. \A u \in Threads : ~Pending(u, g)'
        BY Zenon, <2>5, <3>3 DEF Pending
      <3> QED BY Zenon, <3>2, <3>4 DEF Whole
    <2> QED BY Zenon, <2>8, <2>9
  <1>3. ASSUME NEW x \in Entries, Popped(t, x), x.ev = g PROVE Whole(g)'
    <2>0. ~Begins(t) /\ pend' = pend /\ ~Scheduling(t)
      BY Zenon, <1>3 DEF Popped, Begins, Request, Work, RunProcess, Scheduling
    <2>1. \A v \in Threads : Pending(v, g)' => Pending(v, g)
      BY Zenon, <1>0, <2>0 DEF SchedKept, Pending
    <2>2. CASE numLeft[g] = 1
      <3>1. \A u \in Threads : Here(u, g) /\ ~Here(u, g)'
        BY Zenon, <1>0, <1>3, <2>2, LastArrival
      <3>2. ASSUME NEW v \in Threads, Pending(v, g) PROVE FALSE
        <4>1. N - 1 < pend[v].i
          BY Zenon, <1>0, <3>1, <3>2 DEF Whole
        <4>2. pend[v].i \in 0 .. N - 1 /\ N \in Nat
          BY Zenon, <1>0, ParallelAssumption DEF Threads
        <4> QED BY <4>1, <4>2
      <3> QED BY Zenon, <2>1, <3>1, <3>2 DEF Whole
    <2>3. CASE numLeft[g] # 1
      <3>1. \A u \in Threads : (Here(u, g)' <=> Here(u, g)) /\ (Pre(u, g) => Pre(u, g)') /\ (u = t => Pre(u, g)')
        BY Zenon, <1>3, <2>3, EarlyArrival
      <3>2. \A u \in Threads : Inside(u, g)' => Pre(u, g)' \/ Inside(u, g)
        BY Zenon, <1>0, <3>1, InsideBefore
      <3>3. \A v \in Threads : Pending(v, g) => Pending(v, g)'
        BY Zenon, <1>0, <2>0 DEF Pending, Scheduling, Only
      <3> QED BY Zenon, <2>0, <2>1, <3>1, <3>2, <3>3, WholeKept
    <2> QED BY Zenon, <2>2, <2>3
  <1>4. ASSUME ~(Begins(t) /\ pend'[t].ev = g),
               ~\E v \in Threads, x \in Entries : Sends(t, v, x) /\ x.ev = g,
               ~\E x \in Entries : Popped(t, x) /\ x.ev = g
        PROVE  Whole(g)'
    <2>1. \A u \in Threads : (Here(u, g)' <=> Here(u, g)) /\ (Pre(u, g)' <=> Pre(u, g)) /\ (Inside(u, g)' => Inside(u, g))
      BY Zenon, <1>0, <1>4, HereKept, InsideBefore
    <2>2. ASSUME Pending(t, g) PROVE pend' = pend /\ Scheduling(t)'
      <3>1. ASSUME InsertGlobal(t) PROVE FALSE
        <4>1. /\ pend[t].i \in Threads /\ Entry(pend[t].ev, pend[t].w) \in Entries
              /\ Sends(t, pend[t].i, Entry(pend[t].ev, pend[t].w))
          BY Zenon, <3>1, InsertSends
        <4>2. Entry(pend[t].ev, pend[t].w).ev = g
          BY Zenon, <2>2 DEF Pending, Entry
        <4> QED BY Zenon, <1>4, <4>1, <4>2
      <3> QED BY Zenon, <2>2, <3>1, SchedulingActs DEF Pending
    <2>3. \A v \in Threads : Pending(v, g)' => Pending(v, g)
      BY Zenon, <1>0, <1>4 DEF SchedKept, Pending
    <2>4. \A v \in Threads : Pending(v, g) => Pending(v, g)' /\ pend'[v].i = pend[v].i
      <3>1. \A v \in Threads \ {t} : Pending(v, g) => Pending(v, g)' /\ pend'[v].i = pend[v].i
        BY Zenon, <1>0 DEF Pending, Scheduling, Only
      <3>2. Pending(t, g) => Pending(t, g)' /\ pend'[t].i = pend[t].i
        BY Zenon, <2>2 DEF Pending
      <3> QED BY Zenon, <3>1, <3>2
    <2> QED BY Zenon, <2>1, <2>3, <2>4, WholeKept
  <1> QED BY Zenon, <1>1, <1>2, <1>3, <1>4

\* The third invariant holds initially.
LEMMA AgreedInit ==
    ASSUME Init
    PROVE  Agreed
  <1> DEFINE q == <<Entry(Limit, 0)>>
  <1>0. \A t \in Threads : evq[t] = q /\ asyncq[t] = <<>> /\ pc[t] \in {"python", "thread"}
    BY Zenon, Constants DEF Init
  <1>1. \A t \in Threads : ~Scheduling(t) /\ ~InBarrier(t) /\ \A g : ~Pre(t, g)
    BY Zenon, <1>0 DEF Scheduling, InBarrier, Worker, Pre
  <1>2. ASSUME NEW g \in Requests PROVE ~Has(q, g) /\ Once(q, g) /\ ~Has(<<>>, g) /\ Once(<<>>, g)
    <2>1. Len(q) = 1 /\ q[1].ev = Limit
      BY Zenon DEF Entry
    <2>2. g # Limit
      BY Zenon, Constants
    <2> HIDE DEF q
    <2>3. ~Has(q, g)
      BY <2>1, <2>2 DEF Has
    <2>4. ~Has(<<>>, g)
      BY DEF Has
    <2> QED BY Zenon, <2>3, <2>4 DEF Has, Once
  <1> HIDE DEF q
  <1>3. ASSUME NEW g \in Requests PROVE Single(g) /\ Whole(g)
    <2>1. \A t \in Threads : ~Here(t, g) /\ ~Pending(t, g) /\ ~Inside(t, g)
      BY Zenon, <1>0, <1>1, <1>2 DEF Here, Pending, Inside
    <2> QED BY Zenon, <1>0, <1>2, <2>1 DEF Single, Whole
  <1> QED BY Zenon, <1>1, <1>3 DEF Agreed, Passed

\* Every step keeps it.
LEMMA AgreedStep ==
    ASSUME Arithmetic, Places, Timed, Agreed, NEW t \in Threads, Acts(t)
    PROVE  Agreed'
  BY Zenon, PassedStep, SingleStep, WholeStep DEF Agreed

\* So does a stuttering step.
LEMMA AgreedStill ==
    ASSUME Agreed, UNCHANGED vars
    PROVE  Agreed'
  <1>0. /\ evq' = evq /\ asyncq' = asyncq /\ curTick' = curTick /\ pc' = pc /\ cur' = cur /\ pend' = pend
        /\ gen' = gen /\ generation' = generation
    BY Zenon DEF vars
  <1>1. \A u : \A g : (Pre(u, g)' <=> Pre(u, g)) /\ (Inside(u, g)' <=> Inside(u, g)) /\ (Pending(u, g)' <=> Pending(u, g))
    BY Zenon, <1>0 DEF Pre, Inside, InBarrier, Worker, Pending, Scheduling
  <1>2. \A u : \A g : Here(u, g)' <=> Here(u, g)
    BY Zenon, <1>0, <1>1 DEF Here
  <1>3. ASSUME NEW g \in Requests PROVE Single(g)'
    BY Zenon, <1>0, <1>1 DEF Agreed, Single
  <1>4. ASSUME NEW g \in Requests PROVE Whole(g)'
    <2>1. Whole(g)
      BY Zenon DEF Agreed
    <2> QED BY Zenon, <1>0, <1>1, <1>2, <2>1, WholeKept
  <1>5. Passed'
    BY Zenon, <1>0, <1>1 DEF Agreed, Passed
  <1> QED BY Zenon, <1>3, <1>4, <1>5 DEF Agreed

--------------------------------------------------------------------------------
(* Requests with one tick and one priority *)

\* Only the holder of globalQMutex inserts.
Holds == \A t \in Threads : pc[t] = "insert" => globalQMutex = t

\* The queues of t have requests in the order of rank, which says when each took the
\* mutex: the later one is ahead in the queue, behind in the async_queue, and what is
\* in the async_queue is later than what has been merged.
Queued(t, rank) ==
    /\ Falling(evq[t], rank) /\ Rising(asyncq[t], rank)
    /\ \A x \in Elems(asyncq[t]) : Newest(x, evq[t], rank)
    /\ \A g \in Requests : Pre(t, g) => \A y \in Elems(evq[t]) : LaterFirst(Entry(g, curTick[t]), y, rank)
    /\ pc[t] = "insert" /\ pend[t].ev \in Requests =>
          \A h \in Requests \ {pend[t].ev} : rank[h] < rank[pend[t].ev]

IsRanking(rank) ==
    /\ rank \in [Requests -> Int]
    /\ \E m \in Int : \A g \in Requests : rank[g] <= m
    /\ \A t \in Threads : Queued(t, rank)

Ties == Holds /\ \E rank : IsRanking(rank)

\* Only BaseGlobalEvent::schedule() touches the mutex.
LEMMA MutexKept ==
    ASSUME Places, NEW t \in Threads, Acts(t), ~LockGlobalQ(t), ~InsertGlobal(t)
    PROVE  globalQMutex' = globalQMutex /\ (pc'[t] = "insert" => pc[t] = "insert")
  <1>0. pc \in [Threads -> PCs] /\ Placed(t)
    BY Zenon DEF Places, Types, Control
  <1>1. CASE t = 0 /\ Python
    BY Zenon, <1>0, <1>1 DEF Python, Simulate, Startup
  <1>2. CASE ThreadWait(t) \/ ThreadReleased(t) \/ EnterLoop(t) \/ LeaveLoop(t)
    BY Zenon, <1>0, <1>2 DEF ThreadWait, ThreadReleased, EnterLoop, LeaveLoop, wait
  <1>3. CASE ServiceOne(t)
    BY Zenon, <1>0, <1>3 DEF ServiceOne, wait
  <1>4. CASE \/ \E e \in Locals, d \in LocalDelays : ScheduleOwn(t, e, d)
             \/ \E e \in Locals, d \in AsyncDelays : Send(t, e, d)
             \/ SetFlag(t)
             \/ \E g \in Requests, d \in RequestDelays : Request(t, g, d)
             \/ ProcessReturns(t)
    BY Zenon, <1>0, <1>4 DEF ScheduleOwn, Send, SetFlag, Request, ProcessReturns, Placed
  <1>5. CASE Work(t) \/ Released1(t)
    BY Zenon, <1>0, <1>5 DEF Work, RunProcess, Released1
  <1>6. CASE Arrive2(t) \/ Return(t)
    BY Zenon, <1>0, <1>6 DEF Arrive2, Return, wait
  <1> QED BY Zenon, <1>1, <1>2, <1>3, <1>4, <1>5, <1>6 DEF Acts, Step

\* So no two threads insert at once.
LEMMA HoldsStep ==
    ASSUME Arithmetic, Places, Holds, NEW t \in Threads, Acts(t)
    PROVE  /\ Holds'
           /\ \A u \in Threads : pc'[u] = "insert" => pc[u] = "insert" \/ (u = t /\ LockGlobalQ(t))
  <1>0. Only(t) /\ pc \in [Threads -> PCs] /\ Placed(t) /\ NoThread \notin Threads
    BY Zenon, ActsMoves, Constants DEF Places, Moves, Types, Control
  <1>1. CASE LockGlobalQ(t)
    <2>1. \A u \in Threads : pc[u] # "insert"
      BY Zenon, <1>0, <1>1 DEF LockGlobalQ, Holds
    <2> QED BY Zenon, <1>0, <1>1, <2>1 DEF LockGlobalQ, Holds, Only
  <1>2. CASE InsertGlobal(t)
    <2>1. pc[t] = "insert" /\ globalQMutex = t
      BY Zenon, <1>2 DEF InsertGlobal, Holds
    <2>2. \A u \in Threads : pc[u] = "insert" => u = t
      BY Zenon, <2>1 DEF Holds
    <2>3. CASE pend[t].i < N - 1
      <3>1. pc' = pc /\ globalQMutex' = globalQMutex
        BY Zenon, <1>2, <2>3 DEF InsertGlobal
      <3> QED BY Zenon, <3>1 DEF Holds
    <2>4. CASE ~(pend[t].i < N - 1)
      <3>1. pc' = [pc EXCEPT ![t] = pend[t].ret]
        BY Zenon, <1>2, <2>4 DEF InsertGlobal
      <3>2. pend[t].ret # "insert"
        BY Zenon, <1>0, <2>1 DEF Placed, Scheduling
      <3>3. \A u \in Threads : pc'[u] # "insert"
        BY Zenon, <1>0, <2>2, <3>1, <3>2 DEF Only
      <3> QED BY Zenon, <3>3 DEF Holds
    <2> QED BY Zenon, <2>3, <2>4
  <1>3. CASE ~LockGlobalQ(t) /\ ~InsertGlobal(t)
    <2>1. globalQMutex' = globalQMutex /\ (pc'[t] = "insert" => pc[t] = "insert")
      BY Zenon, <1>3, MutexKept
    <2> QED BY Zenon, <1>0, <2>1 DEF Holds, Only
  <1> QED BY Zenon, <1>1, <1>2, <1>3

\* The requests that u has are there in the same order, but for a merge.
OrderKept(u) ==
    /\ KeepsOrder(evq'[u], evq[u])
    /\ \A y \in Elems(evq'[u]) : y.ev \in Requests => y \in Elems(evq[u])

\* insert() of an event that is no request keeps the order.
LEMMA InsertKeeps ==
    ASSUME Arithmetic, NEW q \in Seq(Entries), NEW x \in Entries, x.ev \notin Requests
    PROVE  /\ KeepsOrder(Insert(q, x), q) /\ Insert(q, x) \in Seq(Entries)
           /\ \A y \in Elems(Insert(q, x)) : y.ev \in Requests => y \in Elems(q)
  <1>1. Grown(Insert(q, x), q, x)
    BY Zenon, InsertGrows
  <1>2. \A rank : Newest(x, q, rank)
    BY Zenon DEF Newest
  <1>3. KeepsOrder(Insert(q, x), q)
    BY Zenon, <1>2, InsertFalls DEF KeepsOrder
  <1> QED BY Zenon, <1>1, <1>3 DEF Grown

\* remove() of an event keeps the order of the others.
LEMMA WithoutKeeps ==
    ASSUME NEW q \in Seq(Entries), NEW e
    PROVE  /\ KeepsOrder(Without(q, e), q) /\ Without(q, e) \in Seq(Entries)
           /\ Elems(Without(q, e)) \subseteq Elems(q)
  <1>1. CASE ~Has(q, e)
    <2>1. Without(q, e) = q
      BY Zenon, <1>1, WithoutShrinks
    <2> QED BY Zenon, <2>1 DEF KeepsOrder
  <1>2. CASE Has(q, e)
    <2>1. PICK x : Shrunk(Without(q, e), q, x)
      BY Zenon, <1>2, WithoutShrinks
    <2> QED BY Zenon, <2>1 DEF Shrunk
  <1> QED BY Zenon, <1>1, <1>2

\* Every step but a merge keeps the order of requests in every queue.
LEMMA EvqKept ==
    ASSUME Arithmetic, Places, NEW t \in Threads, Acts(t), ~Merges(t)
    PROVE  \A u \in Threads : OrderKept(u)
  <1>0. evq \in [Threads -> Seq(Entries)] /\ \A u \in Threads : evq[u] \in Seq(Entries)
    BY Zenon DEF Places, Types
  <1>1. ASSUME NEW u \in Threads, evq'[u] = evq[u] PROVE OrderKept(u)
    BY Zenon, <1>1 DEF OrderKept, KeepsOrder
  <1>2. CASE Calm(t) \/ \E u \in Threads, x \in Entries : Sends(t, u, x)
    BY Zenon, <1>1, <1>2 DEF Calm, Sends
  <1>3. CASE ServiceOne(t)
    <2>1. PICK x \in Entries : Popped(t, x)
      BY Zenon, <1>3, ServicePops
    <2>2. OrderKept(t)
      BY Zenon, <2>1 DEF Popped, Shrunk, OrderKept
    <2> QED BY Zenon, <1>1, <2>1, <2>2 DEF Popped
  <1>4. ASSUME NEW u \in Threads, NEW x \in Entries, Inserts(u, x), NEW v \in Threads PROVE OrderKept(v)
    <2>1. x.ev \notin Requests /\ evq' = [evq EXCEPT ![u] = Insert(evq[u], x)]
      BY Zenon, <1>4, Constants DEF Inserts
    <2>2. CASE v = u
      <3>1. evq'[v] = Insert(evq[v], x)
        BY Zenon, <1>0, <2>1, <2>2
      <3> QED BY Zenon, <1>0, <2>1, <3>1, InsertKeeps DEF OrderKept
    <2>3. CASE v # u
      BY Zenon, <1>0, <1>1, <2>1, <2>3
    <2> QED BY Zenon, <2>2, <2>3
  <1>5. ASSUME NEW n \in Cycles, Simulate(n), NEW u \in Threads PROVE OrderKept(u)
    <2>1. PICK l \in Ticks, s \in Ticks :
             /\ l = IF n < LastTick - curTick[0] THEN curTick[0] + n ELSE LastTick
             /\ s = curTick[0] + Quantum
      BY Zenon, <1>5, SimulateRestarts
    <2> DEFINE a == Without(evq[u], Limit)
               b == Insert(a, Entry(Limit, l))
               c == Insert(b, Entry(Sync, s))
    <2>2. /\ Entry(Limit, l) \in Entries /\ Entry(Limit, l).ev \notin Requests
          /\ Entry(Sync, s) \in Entries /\ Entry(Sync, s).ev \notin Requests
      BY Zenon, Constants
    <2>3. evq'[u] = c
      BY Zenon, <1>5, <2>1 DEF Simulate
    <2>4. KeepsOrder(a, evq[u]) /\ a \in Seq(Entries) /\ Elems(a) \subseteq Elems(evq[u])
      BY Zenon, <1>0, WithoutKeeps
    <2> HIDE DEF a
    <2>5. /\ KeepsOrder(b, a) /\ b \in Seq(Entries)
          /\ \A y \in Elems(b) : y.ev \in Requests => y \in Elems(a)
      BY Zenon, <2>2, <2>4, InsertKeeps
    <2> HIDE DEF b
    <2>6. KeepsOrder(c, b) /\ \A y \in Elems(c) : y.ev \in Requests => y \in Elems(b)
      BY Zenon, <2>2, <2>5, InsertKeeps
    <2> HIDE DEF c
    <2> QED BY Zenon, <2>3, <2>4, <2>5, <2>6 DEF OrderKept, KeepsOrder
  <1>6. ASSUME LeaveLoop(0), NEW u \in Threads PROVE OrderKept(u)
    <2>1. evq'[u] = Without(evq[u], Sync)
      BY Zenon, <1>6 DEF LeaveLoop
    <2> QED BY Zenon, <1>0, <2>1, WithoutKeeps DEF OrderKept
  <1> QED BY Zenon, <1>2, <1>3, <1>4, <1>5, <1>6, ActsKinds DEF Kinds

\* asyncInsert() puts the event asked for last at the end.
LEMMA AppendRises ==
    ASSUME NEW q \in Seq(Entries), NEW x \in Entries, NEW rank, Rising(q, rank), Newest(x, q, rank)
    PROVE  Rising(Append(q, x), rank)
  <1> DEFINE k == Len(q)
             r == Append(q, x)
  <1>1. k \in Nat /\ Len(r) = k + 1 /\ r[k + 1] = x /\ \A i \in 1 .. k : r[i] = q[i]
    OBVIOUS
  <1> HIDE DEF k, r
  <1>2. ASSUME NEW i \in 1 .. k + 1, NEW j \in 1 .. k + 1, i < j, r[i].ev \in Requests, r[j].ev \in Requests
        PROVE  rank[r[i].ev] < rank[r[j].ev]
    <2>1. i \in 1 .. k /\ (j \in 1 .. k \/ j = k + 1)
      BY <1>1, <1>2
    <2>2. CASE j \in 1 .. k
      BY Zenon, <1>1, <1>2, <2>1, <2>2 DEF Rising, k
    <2>3. CASE j = k + 1
      BY Zenon, <1>1, <1>2, <2>1, <2>3 DEF Newest, Elems, k
    <2> QED BY Zenon, <2>1, <2>2, <2>3
  <1> QED BY Zenon, <1>1, <1>2 DEF Rising, r

\* A ranking remains one, unless a request takes the mutex.
LEMMA QueuedStep ==
    ASSUME Arithmetic, Places, Timed, Agreed, Holds, NEW rank, IsRanking(rank), NEW t \in Threads, Acts(t),
           ~(LockGlobalQ(t) /\ pend[t].ev \in Requests), NEW u \in Threads
    PROVE  Queued(u, rank)'
  <1>0. /\ evq \in [Threads -> Seq(Entries)] /\ asyncq \in [Threads -> Seq(Entries)]
        /\ evq[u] \in Seq(Entries) /\ asyncq[u] \in Seq(Entries)
        /\ Queued(u, rank) /\ Queued(t, rank) /\ Kinds(t)
    BY Zenon, ActsKinds DEF Places, Types, IsRanking
  <1> DEFINE Sent(x) == x.ev \in Requests => /\ Newest(x, evq[u], rank) /\ Newest(x, asyncq[u], rank)
             Later1 == \A x \in Elems(asyncq'[u]) : Newest(x, evq'[u], rank)
  <1>1. CASE Merges(t) /\ u = t
    <2>1. evq'[u] = Merge(evq[u], asyncq[u]) /\ asyncq'[u] = <<>>
      BY Zenon, <1>0, <1>1 DEF Merges, handleAsyncInsertions
    <2>2. Falling(evq'[u], rank)
      BY Zenon, <1>0, <2>1, MergeFalls DEF Queued
    <2>3. Rising(asyncq'[u], rank) /\ Elems(asyncq'[u]) = {}
      BY <2>1 DEF Rising, Elems
    <2>4. ~Scheduling(u)' /\ ~ServiceOne(t) /\ pc[u] # "wait1"
      BY Zenon, <1>1 DEF Merges, EnterLoop, Return, ServiceOne
    <2>5. ASSUME NEW g \in Requests, Pre(u, g)' PROVE FALSE
      <3>1. g \in Globals /\ Carries(t)
        BY Zenon, <2>4, LoopServes, Constants
      <3>2. Pre(u, g)
        BY Zenon, <2>5, <3>1 DEF Carries
      <3> QED BY Zenon, <2>4, <3>2 DEF Pre
    <2> QED BY Zenon, <2>2, <2>3, <2>4, <2>5 DEF Queued, Scheduling
  <1>2. CASE ~(Merges(t) /\ u = t)
    <2>1. OrderKept(u)
      <3>1. CASE Merges(t)
        <4>1. evq'[u] = evq[u]
          BY Zenon, <1>2, <3>1, MergesUnite DEF Merges, Merged
        <4> QED BY Zenon, <4>1 DEF OrderKept, KeepsOrder
      <3> QED BY Zenon, <3>1, EvqKept
    <2>2. Falling(evq'[u], rank)
      BY Zenon, <1>0, <2>1 DEF OrderKept, KeepsOrder, Queued
    <2>3. Rising(asyncq'[u], rank) /\ Later1
      <3>1. CASE asyncq'[u] = asyncq[u]
        <4>1. Rising(asyncq'[u], rank)
          BY Zenon, <1>0, <3>1 DEF Queued
        <4>2. ASSUME NEW x \in Elems(asyncq'[u]) PROVE Newest(x, evq'[u], rank)
          <5>1. Newest(x, evq[u], rank)
            BY Zenon, <1>0, <3>1 DEF Queued
          <5> QED BY Zenon, <2>1, <5>1 DEF OrderKept, Newest
        <4> QED BY Zenon, <4>1, <4>2
      <3>2. ASSUME NEW x \in Entries, Sends(t, u, x) PROVE Rising(asyncq'[u], rank) /\ Later1
        <4>1. asyncq'[u] = Append(asyncq[u], x) /\ evq' = evq
          BY Zenon, <1>0, <3>2 DEF Sends
        <4>2. Newest(x, evq[u], rank) /\ Newest(x, asyncq[u], rank)
          <5>1. CASE x.ev \notin Requests
            BY Zenon, <5>1 DEF Newest
          <5>2. CASE x.ev \in Requests
            <6>1. InsertGlobal(t) /\ Pending(t, x.ev) /\ ~Here(u, x.ev)
              BY Zenon, <3>2, <5>2, SendsGlobal DEF Agreed
            <6>2. \A h \in Requests : h # x.ev => rank[h] < rank[x.ev]
              BY Zenon, <1>0, <5>2, <6>1 DEF InsertGlobal, Pending, Queued
            <6>3. \A y \in Elems(evq[u]) \cup Elems(asyncq[u]) : y.ev # x.ev
              BY Zenon, <6>1, HasElems DEF Here
            <6>4. \A y \in Elems(evq[u]) \cup Elems(asyncq[u]) : y.ev \in Requests => rank[y.ev] < rank[x.ev]
              BY Zenon, <6>2, <6>3
            <6> QED BY Zenon, <6>4 DEF Newest
          <5> QED BY Zenon, <5>1, <5>2
        <4>3. Rising(asyncq'[u], rank)
          BY Zenon, <1>0, <4>1, <4>2, AppendRises DEF Queued
        <4>4. Elems(asyncq'[u]) = Elems(asyncq[u]) \cup {x}
          BY Zenon, <1>0, <4>1, AppendGrows DEF Grown
        <4> QED BY Zenon, <1>0, <4>1, <4>2, <4>3, <4>4 DEF Queued
      <3>3. asyncq'[u] = asyncq[u] \/ \E x \in Entries : Sends(t, u, x)
        <4>1. CASE Merges(t)
          BY Zenon, <1>2, <4>1, MergesUnite DEF Merges, Merged
        <4>2. ASSUME NEW v \in Threads, NEW x \in Entries, Sends(t, v, x), v # u PROVE asyncq'[u] = asyncq[u]
          BY Zenon, <1>0, <4>2 DEF Sends
        <4>3. CASE Calm(t) \/ ServiceOne(t) \/ LeaveLoop(0) \/ \E n \in Cycles : Simulate(n)
          BY Zenon, <4>3 DEF Calm, ServiceOne, LeaveLoop, Simulate
        <4>4. ASSUME NEW v \in Threads, NEW x \in Entries, Inserts(v, x) PROVE asyncq'[u] = asyncq[u]
          BY Zenon, <4>4 DEF Inserts
        <4> QED BY Zenon, <1>0, <4>1, <4>2, <4>3, <4>4 DEF Kinds
      <3> QED BY Zenon, <3>1, <3>2, <3>3
    <2>4. ASSUME NEW g \in Requests, Pre(u, g)', NEW y \in Elems(evq'[u])
          PROVE  LaterFirst(Entry(g, curTick'[u]), y, rank)
      <3>0. g \in Globals
        BY Zenon, Constants
      <3>1. ASSUME Pre(u, g), curTick'[u] = curTick[u] PROVE LaterFirst(Entry(g, curTick'[u]), y, rank)
        <4>1. CASE y.ev \in Requests
          BY Zenon, <1>0, <2>1, <2>4, <3>1, <4>1 DEF OrderKept, Queued
        <4>2. CASE y.ev \notin Requests
          BY Zenon, <4>2 DEF LaterFirst
        <4> QED BY Zenon, <4>1, <4>2
      <3>2. CASE ServiceOne(t) /\ u = t
        <4>1. /\ evq[u] # <<>> /\ evq'[u] = Tail(evq[u])
              /\ curTick'[u] = Head(evq[u]).w /\ cur'[u] = Head(evq[u]).ev
          BY Zenon, <1>0, <3>2 DEF ServiceOne, Places, Types
        <4>2. LaterFirst(Head(evq[u]), y, rank) /\ Head(evq[u]) \in Entries
          BY Zenon, <1>0, <2>4, <4>1, TailShrinks DEF Queued
        <4>3. Head(evq[u]) = Entry(g, curTick'[u])
          BY Zenon, <2>4, <4>1, <4>2 DEF Pre, Entries, Entry
        <4> QED BY Zenon, <4>2, <4>3
      <3>3. CASE ServiceOne(t) /\ u # t
        <4>1. Pre(u, g)
          BY Zenon, <2>4, <3>0, <3>3, PreBefore
        <4>2. curTick'[u] = curTick[u]
          BY Zenon, <3>3, ServicePops DEF Popped
        <4> QED BY Zenon, <3>1, <4>1, <4>2
      <3>4. CASE ~ServiceOne(t)
        <4>1. Pre(u, g) /\ curTick' = curTick
          BY Zenon, <2>4, <3>0, <3>4, LoopServes, ClockKept DEF Carries
        <4> QED BY Zenon, <3>1, <4>1
      <3> QED BY Zenon, <3>2, <3>3, <3>4
    <2>5. ASSUME pc'[u] = "insert", pend'[u].ev \in Requests, NEW h \in Requests \ {pend'[u].ev}
          PROVE  rank[h] < rank[pend'[u].ev]
      <3>1. Scheduling(u)' /\ SchedKept(t)
        BY Zenon, <2>5, ActsSched DEF Scheduling
      <3>2. ~(u = t /\ Begins(t))
        <4>1. pc \in [Threads -> PCs]
          BY Zenon DEF Places, Types
        <4> QED BY Zenon, <2>5, <4>1 DEF Begins, Request, Work, RunProcess
      <3>3. pend'[u].ev = pend[u].ev
        BY Zenon, <3>1, <3>2 DEF SchedKept
      <3>4. pc[u] = "insert"
        BY Zenon, <2>5, <3>3, HoldsStep
      <3> QED BY Zenon, <1>0, <2>5, <3>3, <3>4 DEF Queued
    <2> QED BY Zenon, <2>2, <2>3, <2>4, <2>5 DEF Queued
  <1> QED BY Zenon, <1>1, <1>2

\* A request that takes the mutex becomes the latest; it is in no queue yet.
LEMMA RankLocked ==
    ASSUME Arithmetic, Places, Agreed, Holds, NEW rank, IsRanking(rank), NEW t \in Threads, Acts(t),
           LockGlobalQ(t), pend[t].ev \in Requests
    PROVE  \E next : IsRanking(next)'
  <1> DEFINE g == pend[t].ev
  <1>0. /\ evq' = evq /\ asyncq' = asyncq /\ curTick' = curTick /\ cur' = cur /\ pend' = pend
        /\ gen' = gen /\ generation' = generation
        /\ pc[t] = "lock" /\ pc' = [pc EXCEPT ![t] = "insert"] /\ globalQMutex = NoThread
    BY Zenon DEF LockGlobalQ, queues, barriers
  <1>1. /\ pc \in [Threads -> PCs] /\ pend[t].i = 0 /\ NoThread \notin Threads
        /\ \A u \in Threads : ~(u < 0)
    <2>1. \A u \in Threads : ~(u < 0)
      BY Constants
    <2> QED BY Zenon, <1>0, <2>1, Constants DEF Places, Types, Control, Placed
  <1>2. \A u \in Threads : ~Here(u, g)
    <2>1. Pending(t, g) /\ Whole(g)
      BY Zenon, <1>0 DEF Pending, Scheduling, Agreed
    <2> QED BY Zenon, <1>1, <2>1 DEF Whole
  <1>3. PICK m \in Int : \A h \in Requests : rank[h] <= m
    BY Zenon DEF IsRanking
  <1>4. PICK next : next = [rank EXCEPT ![g] = m + 1]
    OBVIOUS
  <1>5. /\ rank \in [Requests -> Int] /\ next \in [Requests -> Int] /\ next[g] = m + 1
        /\ \A h \in Requests : h # g => next[h] = rank[h] /\ next[h] <= m
    BY <1>3, <1>4 DEF IsRanking
  <1>6. (m + 1 \in Int) /\ \A h \in Requests : next[h] <= m + 1 /\ (h # g => next[h] < next[g])
    BY ONLY <1>5, m \in Int
  <1>7. ASSUME NEW u \in Threads PROVE Queued(u, next)'
    <2>0. Queued(u, rank) /\ evq'[u] = evq[u] /\ asyncq'[u] = asyncq[u] /\ curTick'[u] = curTick[u]
      BY Zenon, <1>0 DEF IsRanking
    <2>1. \A y \in Elems(evq[u]) \cup Elems(asyncq[u]) : y.ev # g
      BY Zenon, <1>2, HasElems DEF Here
    <2>2. \A y \in Elems(evq[u]) \cup Elems(asyncq[u]) : y.ev \in Requests => next[y.ev] = rank[y.ev]
      BY Zenon, <1>5, <2>1
    <2>3. ASSUME NEW x \in Elems(evq[u]), NEW y \in Elems(evq[u]), LaterFirst(x, y, rank)
          PROVE  LaterFirst(x, y, next)
      BY Zenon, <2>2, <2>3 DEF LaterFirst
    <2>4. Falling(evq[u], next)
      BY Zenon, <2>0, <2>3 DEF Queued, Falling, Elems
    <2>5. Rising(asyncq[u], next)
      <3>1. \A i \in 1 .. Len(asyncq[u]) : asyncq[u][i].ev \in Requests => next[asyncq[u][i].ev] = rank[asyncq[u][i].ev]
        BY Zenon, <2>2 DEF Elems
      <3> QED BY Zenon, <2>0, <3>1 DEF Queued, Rising
    <2>6. \A x \in Elems(asyncq[u]) : Newest(x, evq[u], next)
      BY Zenon, <2>0, <2>2 DEF Queued, Newest
    <2>7. ASSUME NEW h \in Requests, Pre(u, h)', NEW y \in Elems(evq[u])
          PROVE  LaterFirst(Entry(h, curTick[u]), y, next)
      <3>1. Pre(u, h)
        <4>1. CASE u = t
          BY Zenon, <1>0, <1>1, <2>7, <4>1 DEF Pre
        <4>2. CASE u # t
          BY Zenon, <1>0, <1>1, <2>7, <4>2 DEF Pre
        <4> QED BY Zenon, <4>1, <4>2
      <3>2. h # g /\ LaterFirst(Entry(h, curTick[u]), y, rank)
        BY Zenon, <1>2, <2>0, <2>7, <3>1 DEF Here, Queued
      <3>3. next[h] = rank[h] /\ (y.ev \in Requests => next[y.ev] = rank[y.ev]) /\ Entry(h, curTick[u]).ev = h
        BY Zenon, <1>5, <2>2, <3>2 DEF Entry
      <3> QED BY Zenon, <3>2, <3>3 DEF LaterFirst
    <2>8. ASSUME pc'[u] = "insert", NEW h \in Requests \ {pend[u].ev}
          PROVE  next[h] < next[pend[u].ev]
      <3>1. u = t
        BY Zenon, <1>0, <1>1, <2>8 DEF Holds
      <3> QED BY Zenon, <1>6, <3>1
    <2> QED BY Zenon, <1>0, <2>0, <2>4, <2>5, <2>6, <2>7, <2>8 DEF Queued
  <1> QED BY Zenon, <1>5, <1>6, <1>7 DEF IsRanking

\* The fourth invariant holds initially.
LEMMA TiesInit ==
    ASSUME Init
    PROVE  Ties
  <1>0. \A t \in Threads : evq[t] = <<Entry(Limit, 0)>> /\ asyncq[t] = <<>> /\ pc[t] \in {"python", "thread"}
    BY Zenon, Constants DEF Init
  <1>1. PICK rank : rank = [g \in Requests |-> 0]
    OBVIOUS
  <1>2. rank \in [Requests -> Int] /\ \E m \in Int : \A g \in Requests : rank[g] <= m
    BY <1>1
  <1>3. /\ Falling(<<Entry(Limit, 0)>>, rank) /\ Rising(<<>>, rank) /\ Elems(<<>>) = {}
    BY DEF Falling, Rising, Elems
  <1>4. \A t \in Threads : Queued(t, rank)
    BY Zenon, <1>0, <1>3 DEF Queued, Pre
  <1> QED BY Zenon, <1>0, <1>2, <1>4 DEF Ties, Holds, IsRanking

\* Every step keeps it.
LEMMA TiesStep ==
    ASSUME Arithmetic, Places, Timed, Agreed, Ties, NEW t \in Threads, Acts(t)
    PROVE  Ties'
  <1>1. PICK rank : IsRanking(rank)
    BY Zenon DEF Ties
  <1>2. Holds /\ Holds'
    BY Zenon, HoldsStep DEF Ties
  <1>3. CASE LockGlobalQ(t) /\ pend[t].ev \in Requests
    BY Zenon, <1>1, <1>2, <1>3, RankLocked DEF Ties
  <1>4. CASE ~(LockGlobalQ(t) /\ pend[t].ev \in Requests)
    <2>1. IsRanking(rank)'
      BY Zenon, <1>1, <1>2, <1>4, QueuedStep DEF IsRanking
    <2> QED BY Zenon, <1>2, <2>1 DEF Ties
  <1> QED BY Zenon, <1>3, <1>4

\* So does a stuttering step.
LEMMA TiesStill ==
    ASSUME Ties, UNCHANGED vars
    PROVE  Ties'
  <1>0. /\ evq' = evq /\ asyncq' = asyncq /\ curTick' = curTick /\ pc' = pc /\ cur' = cur /\ pend' = pend
        /\ gen' = gen /\ generation' = generation /\ globalQMutex' = globalQMutex
    BY Zenon DEF vars
  <1>1. PICK rank : IsRanking(rank)
    BY Zenon DEF Ties
  <1>2. \A u \in Threads : Queued(u, rank)'
    BY Zenon, <1>0, <1>1 DEF IsRanking, Queued, Pre
  <1> QED BY Zenon, <1>0, <1>1, <1>2 DEF Ties, IsRanking, Holds

--------------------------------------------------------------------------------
(* One order *)

\* The quantum event shares its priority with no other global event, and requests
\* cannot fall on the end of the quantum they are made in, or come behind the quantum
\* event there.
Ranked ==
    /\ \A g \in Globals \ {Sync} : Priority[g] # Priority[Sync]
    /\ 0 \in RequestDelays => \A g \in Requests : Priority[g] > Priority[Sync]

\* One thread waits at the limit event, another at a request with its priority.
LimitTied ==
    \E t, u \in Threads, g \in Requests :
        BlockedOn(t, Limit) /\ BlockedOn(u, g) /\ Priority[g] = Priority[Limit]

\* A request that some queue has still to receive is later than the tick of any
\* thread that has taken it from its own.
LEMMA NotYetSent ==
    ASSUME Ranked, Places, Timed, Agreed, NEW S \in Ticks, Round(S), NEW t \in Threads, NEW b \in Requests,
           Pre(t, b), NEW w \in Ticks, curTick[t] = w, Later(b, w, S)
    PROVE  FALSE
  <1>0. b \in Globals /\ b # Sync /\ Sync \in Globals /\ b \in Events /\ Sync \in Events
    BY Zenon, Constants
  <1>1. ~Inside(t, Sync)
    BY Zenon, <1>0 DEF Pre, Inside
  <1>2. In(t, S)
    BY Zenon, <1>1, RoundFacts
  <1>3. Entry(Sync, S) \in Elems(evq[t]) /\ w <= S /\ w \in Nat /\ S \in Nat
    BY Zenon, <1>2 DEF In, Ticks
  <1>4. w = S /\ 0 \in RequestDelays
    <2>1. w >= S /\ (0 \notin RequestDelays => w > S)
      BY Zenon DEF Later
    <2> QED BY ONLY <1>3, <2>1
  <1>5. ~Less(Entry(Sync, S), Entry(b, S))
    BY Zenon, <1>0, <1>3, <1>4 DEF Agreed, Passed
  <1>6. ~(Priority[Sync] < Priority[b])
    BY Zenon, <1>5 DEF Less, Entry
  <1>7. Priority[b] > Priority[Sync] /\ Priority[b] \in Int /\ Priority[Sync] \in Int
    BY Zenon, <1>0, <1>4, Constants DEF Ranked
  <1> QED BY Zenon, <1>6, <1>7

\* The barrier event that one thread waits at is in the queue of every thread that
\* waits at another.
LEMMA Awaited ==
    ASSUME Ranked, Places, Timed, Agreed, NEW t \in Threads, NEW u \in Threads, NEW b \in Globals, NEW c \in Globals,
           Pre(t, b), Pre(u, c), b # c
    PROVE  Entry(b, curTick[t]) \in Elems(evq[u])
  <1>0. Located /\ ~Stopped(t) /\ ~Stopped(u) /\ ~Mid(u, b) /\ ~Pre(u, b) /\ ~Inside(u, b)
    <2>1. Located
      BY Zenon, OutsideGlobals DEF Places
    <2>2. cur[u] # b
      BY Zenon DEF Pre
    <2> QED BY Zenon, <2>1, <2>2 DEF Located, Mid, Pre, Inside
  <1>1. PICK S \in Ticks : Round(S)
    BY Zenon, <1>0, Running DEF Timed, Rounds
  <1>2. PICK w \in Ticks : w = curTick[t]
    BY Zenon DEF Places, Types
  <1>3. CASE b = Sync
    <2>1. At(t, S) /\ In(u, S)
      BY Zenon, <1>0, <1>1, <1>3, RoundFacts
    <2> QED BY Zenon, <1>3, <2>1 DEF At, In
  <1>4. ASSUME b # Sync, NEW x \in Elems(evq[u]) \cup Elems(asyncq[u]), x.ev = b PROVE x = Entry(b, w)
    <2>1. x.w = w
      BY ZenonT(30), <1>2, <1>4 DEF Timed, OneTick, AllAt
    <2>2. x \in Entries
      BY Zenon, <1>4, ElemsTyped
    <2> QED BY Zenon, <1>4, <2>1, <2>2 DEF Entries, Entry
  <1>5. CASE b # Sync /\ Has(evq[u], b)
    <2>1. PICK x \in Elems(evq[u]) : x.ev = b
      BY Zenon, <1>5, HasElems
    <2> QED BY Zenon, <1>2, <1>4, <1>5, <2>1
  <1>6. CASE b = Limit
    <2>1. Has(evq[u], Limit)
      BY Zenon, <1>0, <1>6 DEF Timed, LimitKept
    <2>2. b # Sync
      BY Zenon, <1>6, Constants
    <2> QED BY Zenon, <1>5, <1>6, <2>1, <2>2
  <1>7. CASE b \in Requests /\ ~Has(evq[u], b)
    <2>1. CASE Has(asyncq[u], b)
      <3>1. PICK x \in Elems(asyncq[u]) : x.ev = b
        BY Zenon, <2>1, HasElems
      <3>2. b # Sync
        BY Zenon, <1>7, Constants
      <3>3. x.w = w
        BY ZenonT(30), <1>2, <3>1, <3>2 DEF Timed, OneTick, AllAt
      <3>4. Later(x.ev, x.w, S)
        <4>1. CASE c = Sync
          <5>1. At(u, S)
            BY Zenon, <1>1, <4>1, RoundFacts
          <5> QED BY Zenon, <3>1, <5>1 DEF At
        <4>2. CASE c # Sync
          <5>1. ~Inside(u, Sync)
            BY Zenon, <4>2 DEF Pre, Inside
          <5>2. In(u, S)
            BY Zenon, <1>1, <5>1, RoundFacts
          <5>3. Entered(u)
            BY Zenon, <1>0 DEF Entered, Pre
          <5> QED BY Zenon, <3>1, <5>2, <5>3 DEF In
        <4> QED BY Zenon, <4>1, <4>2
      <3> QED BY Zenon, <1>1, <1>2, <1>7, <3>1, <3>3, <3>4, NotYetSent
    <2>2. CASE ~Has(asyncq[u], b)
      <3>1. Here(t, b) /\ ~Here(u, b) /\ Whole(b)
        BY Zenon, <1>0, <1>7, <2>2 DEF Here, Agreed
      <3>2. PICK v \in Threads : Pending(v, b)
        BY Zenon, <3>1 DEF Whole
      <3>3. b # Sync
        BY Zenon, <1>7, Constants
      <3>4. pend[v].w = w /\ Scheduling(v) /\ pend[v].ev = b
        BY Zenon, <1>2, <3>2, <3>3 DEF Timed, OneTick, AllAt, Pending
      <3>5. Later(b, w, S)
        BY Zenon, <1>1, <3>4, RoundFacts DEF NotBefore
      <3> QED BY Zenon, <1>1, <1>2, <1>7, <3>5, NotYetSent
    <2> QED BY Zenon, <2>1, <2>2
  <1>8. b \in Requests => b # Sync
    BY Zenon, Constants
  <1> QED BY Zenon, <1>3, <1>5, <1>6, <1>7, <1>8 DEF Globals

\* Two threads that waited at different barriers would each have the other's barrier
\* event behind its own, at the same tick and priority; of two requests only the later
\* one can be first.
LEMMA OneOrder ==
    ASSUME Ranked, Places, Timed, Agreed, Ties, ~LimitTied
    PROVE  GlobalTotalOrder
  <1> SUFFICES ASSUME NEW t \in Threads, NEW u \in Threads, NEW b \in Barriers, NEW c \in Barriers,
                      BlockedOn(t, b), BlockedOn(u, c)
               PROVE  b = c
    BY Zenon DEF GlobalTotalOrder
  <1>0. Located /\ Control
    BY Zenon, OutsideGlobals DEF Places
  <1>1. ASSUME NEW v \in Threads, NEW d \in Barriers, BlockedOn(v, d)
        PROVE  \/ d = ThreadBarrier /\ Stopped(v)
               \/ d \in Globals /\ (Pre(v, d) \/ Mid(v, d)) /\ ~Stopped(v)
    <2>1. CASE pc[v] = "threadWait" /\ d = ThreadBarrier
      BY Zenon, <1>1, <2>1 DEF Stopped, Idle
    <2>2. CASE pc[v] \in {"wait1", "wait2"} /\ cur[v] = d /\ ~Released(v, d)
      <3>1. InBarrier(v)
        BY Zenon, <2>2 DEF InBarrier
      <3>2. d \in Globals
        BY Zenon, <1>0, <2>2, <3>1 DEF Control, Placed
      <3>3. Pre(v, d) \/ Mid(v, d)
        BY Zenon, <2>2, <3>1 DEF Pre, Mid, Inside, Post, Released
      <3> QED BY Zenon, <1>0, <3>2, <3>3 DEF Located
    <2> QED BY Zenon, <1>1, <2>1, <2>2 DEF BlockedOn
  <1>2. CASE Stopped(t) \/ Stopped(u)
    BY Zenon, <1>1, <1>2 DEF Places, StopTogether
  <1>3. CASE b \in Globals /\ c \in Globals /\ (Mid(t, b) \/ Mid(u, c))
    <2>1. Mid(u, b) \/ Mid(t, c)
      BY Zenon, <1>3 DEF Places, Barred, Together
    <2>2. cur[t] = b /\ cur[u] = c
      <3>1. b # ThreadBarrier /\ c # ThreadBarrier
        BY Zenon, <1>3, Constants
      <3>2. (Pre(t, b) \/ Mid(t, b)) /\ (Pre(u, c) \/ Mid(u, c))
        BY Zenon, <1>1, <3>1
      <3> QED BY Zenon, <3>2 DEF Pre, Mid, Inside
    <2> QED BY Zenon, <2>1, <2>2 DEF Mid, Inside
  <1>4. CASE b \in Globals /\ c \in Globals /\ Pre(t, b) /\ Pre(u, c)
    <2> SUFFICES ASSUME b # c PROVE FALSE
      OBVIOUS
    <2>0. b \in Events /\ c \in Events /\ curTick[t] \in Nat /\ curTick[u] \in Nat
      <3>1. curTick \in [Threads -> Ticks]
        BY Zenon DEF Places, Types
      <3> QED BY Zenon, <1>4, <3>1 DEF Events, Ticks
    <2>1. Entry(b, curTick[t]) \in Elems(evq[u]) /\ Entry(c, curTick[u]) \in Elems(evq[t])
      BY Zenon, <1>4, Awaited
    <2>2. /\ ~Less(Entry(b, curTick[t]), Entry(c, curTick[u]))
          /\ ~Less(Entry(c, curTick[u]), Entry(b, curTick[t]))
      BY Zenon, <1>4, <2>1 DEF Agreed, Passed
    <2>3. curTick[t] = curTick[u] /\ Priority[b] = Priority[c]
      <3>1. Priority[b] \in Int /\ Priority[c] \in Int
        BY Zenon, <2>0, Constants
      <3> QED BY <2>0, <2>2, <3>1 DEF Less, Entry
    <2>4. b # Sync /\ c # Sync
      BY Zenon, <1>4, <2>3 DEF Ranked
    <2>5. b # Limit \/ c \notin Requests
      BY Zenon, <2>3 DEF LimitTied
    <2>6. c # Limit \/ b \notin Requests
      BY Zenon, <2>3 DEF LimitTied
    <2>7. b \in Requests /\ c \in Requests
      BY Zenon, <1>4, <2>4, <2>5, <2>6 DEF Globals
    <2>8. PICK rank : IsRanking(rank)
      BY Zenon DEF Ties
    <2>9. /\ LaterFirst(Entry(b, curTick[t]), Entry(c, curTick[u]), rank)
          /\ LaterFirst(Entry(c, curTick[u]), Entry(b, curTick[t]), rank)
      BY Zenon, <1>4, <2>1, <2>7, <2>8 DEF IsRanking, Queued
    <2>10. rank[c] < rank[b] /\ rank[b] < rank[c]
      BY Zenon, <2>3, <2>7, <2>9 DEF LaterFirst, Entry
    <2>11. rank[b] \in Int /\ rank[c] \in Int
      BY Zenon, <2>7, <2>8 DEF IsRanking
    <2> QED BY ONLY <2>10, <2>11
  <1> QED BY Zenon, <1>1, <1>2, <1>3, <1>4

-----------------------------------------------------------------------------
(* The theorems *)

INSTANCE FiniteSetTheorems

\* The smallest element of a set of numbers.
LEMMA Least ==
    ASSUME NEW T \in SUBSET Nat, T # {}
    PROVE  \E n \in T : \A m \in T : n <= m
  <1>1. PICK n \in T : \A m \in T : ~(<<m, n>> \in OpToRel(<, Nat))
    BY Zenon, NatLessThanWellFounded, WFMin
  <1>2. ASSUME NEW m \in T PROVE n <= m
    <2>1. m \in Nat /\ n \in Nat
      OBVIOUS
    <2>2. m < n => <<m, n>> \in OpToRel(<, Nat)
      BY <2>1 DEF OpToRel
    <2>3. ~(m < n)
      BY Zenon, <1>1, <2>2
    <2> QED BY <2>1, <2>3
  <1> QED BY <1>2

\* A set of threads that lacks one and has N - 1 members has all the others.
LEMMA ThreadsCounted ==
    ASSUME NEW S \in SUBSET Threads
    PROVE  /\ IsFiniteSet(S) /\ Cardinality(S) \in Nat
           /\ \A t \in Threads \ S : /\ Cardinality(S \cup {t}) = Cardinality(S) + 1
                                     /\ Cardinality(S) = N - 1 => S = Threads \ {t}
  <1>1. IsFiniteSet(Threads) /\ Cardinality(Threads) = N
    <2>1. N \in Int /\ N > 1 /\ 0 \in Int /\ N - 1 \in Int
      BY ONLY Constants
    <2>2. IsFiniteSet(0 .. N - 1) /\ Cardinality(0 .. N - 1) = IF 0 > N - 1 THEN 0 ELSE (N - 1) - 0 + 1
      BY Zenon, <2>1, FS_Interval
    <2>3. Cardinality(0 .. N - 1) = N
      BY ONLY <2>1, <2>2
    <2> QED BY Zenon, <2>2, <2>3 DEF Threads
  <1>2. IsFiniteSet(S) /\ Cardinality(S) \in Nat
    BY <1>1, FS_Subset, FS_CardinalityType
  <1>3. ASSUME NEW t \in Threads, t \notin S PROVE Cardinality(S \cup {t}) = Cardinality(S) + 1
    BY Zenon, <1>2, <1>3, FS_AddElement
  <1>4. ASSUME NEW t \in Threads, t \notin S, Cardinality(S) = N - 1 PROVE S = Threads \ {t}
    <2>1. IsFiniteSet(Threads \ {t}) /\ Cardinality(Threads \ {t}) = N - 1
      BY <1>1, FS_RemoveElement
    <2>2. S \subseteq Threads \ {t}
      BY <1>4
    <2> QED BY <1>4, <2>1, <2>2, FS_Subset
  <1> QED BY <1>2, <1>3, <1>4

\* Both are facts of arithmetic, whatever the program does.
LEMMA ArithmeticHolds ==
    Arithmetic
  <1>1. \A T \in SUBSET Nat : T # {} => \E n \in T : \A m \in T : n <= m
    BY Zenon, Least
  <1>2. Cardinality({}) = 0
    BY Zenon, FS_EmptySet
  <1> QED BY Zenon, <1>1, <1>2, ThreadsCounted DEF Arithmetic

\* Both hold in every state.
LEMMA TimedAlways ==
    Spec => [](Places /\ Timed)
  <1>1. Init => Places /\ Timed
    BY Zenon, PlacesInit, TimedInit, ArithmeticHolds
  <1>2. Places /\ Timed /\ [Next]_vars => Places' /\ Timed'
    <2> SUFFICES ASSUME Places, Timed, [Next]_vars PROVE Places' /\ Timed'
      OBVIOUS
    <2>1. CASE Next
      BY Zenon, <2>1, NextActs, PlacesStep, TimedStep, ArithmeticHolds
    <2>2. CASE UNCHANGED vars
      BY Zenon, <2>2, StillHolds
    <2> QED BY Zenon, <2>1, <2>2
  <1> QED BY <1>1, <1>2, PTL DEF Spec

\* doSimLoop()'s assertion "event scheduled in the past" and schedule()'s
\* when >= getCurTick() never fail, in any number of threads, for any quantum, and
\* however the threads' steps interleave: what one thread sends another is at least
\* a quantum ahead, and no clock is more than a quantum ahead of another's.
THEOREM CausalAlways ==
    Spec => []TimeIsCausal
  <1>1. Places /\ Timed => TimeIsCausal
    BY Zenon, Causal
  <1> QED BY <1>1, TimedAlways, PTL

\* When simulate() has left its loop, the quantum event is in every queue and in no
\* async_queue, so that its deschedule() finds all of them, and all clocks agree.
THEOREM InSyncAlways ==
    Spec => []ReturnsInSync
  <1>1. Places /\ Timed => ReturnsInSync
    BY Zenon, InSync
  <1> QED BY <1>1, TimedAlways, PTL

\* "Exactly one of the threads will execute the process() method", and it does so
\* while all others stand between the two barriers of that event, at the same tick.
THEOREM AloneAlways ==
    Spec => []ProcessRunsAlone
  <1>1. Places /\ Timed => ProcessRunsAlone
    BY Zenon, Alone
  <1> QED BY <1>1, TimedAlways, PTL

\* All four hold in every state.
LEMMA AgreedAlways ==
    Spec => [](Places /\ Timed /\ Agreed /\ Ties)
  <1>1. Init => Agreed /\ Ties
    BY Zenon, AgreedInit, TiesInit
  <1>2. Places /\ Timed /\ Agreed /\ Ties /\ [Next]_vars => Agreed' /\ Ties'
    <2> SUFFICES ASSUME Places, Timed, Agreed, Ties, [Next]_vars PROVE Agreed' /\ Ties'
      OBVIOUS
    <2>1. CASE Next
      BY Zenon, <2>1, NextActs, AgreedStep, TiesStep, ArithmeticHolds
    <2>2. CASE UNCHANGED vars
      BY Zenon, <2>2, AgreedStill, TiesStill
    <2> QED BY Zenon, <2>1, <2>2
  <1> QED BY <1>1, <1>2, TimedAlways, PTL DEF Spec

\* "Global events have a total order": no two threads ever wait at different barriers,
\* and one thread alone runs each process(), also of the exit events and statistics
\* events that share a tick and a priority, which globalQMutex keeps in one order on
\* all queues.  The exception is an exit event on the tick of the limit event, which
\* has the same priority and is rescheduled in the queues themselves, past what is
\* still in an async_queue (MCParallelSimExit); the hypothesis leaves out requests that
\* go before the quantum event on the tick at the end of their quantum, as statistics
\* events asked for without delay do (MCParallelSimStat).
THEOREM OrderAlways ==
    ASSUME Ranked
    PROVE  Spec => [](LimitTied \/ GlobalEventsAgree)
  <1>1. Places /\ Timed /\ Agreed /\ Ties /\ ProcessRunsAlone => LimitTied \/ GlobalEventsAgree
    BY Zenon, OneOrder DEF GlobalEventsAgree
  <1> QED BY <1>1, AgreedAlways, AloneAlways, PTL

=============================================================================

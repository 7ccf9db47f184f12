--------------------------- MODULE EventListProofs ---------------------------
(* The invariants of EventList hold for every set of events, priorities,     *)
(* allocation and deletion flags, and every largest tick.                    *)
EXTENDS EventList, TLAPS, WellFoundedInduction

(* Facts about the first k elements of a sequence, free of the sequence      *)
(* operators so that the arithmetic on positions stays within reach.         *)

\* t is s, of length k, with e put behind its first n elements.
Inserted(s, k, n, e, t) ==
  \A j \in 1 .. k + 1 :
    t[j] = IF j < n + 1 THEN s[j] ELSE IF j = n + 1 THEN e ELSE s[j - 1]

\* t is s, of length k, without its n-th element.
Removed(s, k, n, t) ==
  \A j \in 1 .. k - 1 : t[j] = IF j < n THEN s[j] ELSE s[j + 1]

OrderedTo(s, k, w) == \A i, j \in 1 .. k : i < j => ~Less(w, s[j], s[i])

NoRepeatTo(s, k) == \A i, j \in 1 .. k : s[i] = s[j] => i = j

QueuedTo(s, k, e) == \E i \in 1 .. k : s[i] = e

EventsTo(s, k) == \A i \in 1 .. k : s[i] \in Events

\* Where the walk of insert() stops for e.
StopsAt(s, k, w, e, n) ==
  /\ \A i \in 1 .. n : Less(w, s[i], e)
  /\ n < k => ~Less(w, s[n + 1], e)

(* The elements of two sequences joined. *)
LEMMA Joined ==
  ASSUME NEW S, NEW a \in Seq(S), NEW b \in Seq(S)
  PROVE  /\ a \o b \in Seq(S) /\ Len(a \o b) = Len(a) + Len(b)
         /\ \A j \in 1 .. Len(a) + Len(b) :
              (a \o b)[j] = IF j <= Len(a) THEN a[j] ELSE b[j - Len(a)]
OBVIOUS

(* InsertAt shifts what follows the insertion point by one. *)
LEMMA InsertAtShifts ==
  ASSUME NEW S, NEW s \in Seq(S), NEW i \in 1 .. Len(s) + 1, NEW e \in S,
         NEW n \in 0 .. Len(s), i = n + 1
  PROVE  /\ InsertAt(s, i, e) \in Seq(S)
         /\ Len(InsertAt(s, i, e)) = Len(s) + 1
         /\ Inserted(s, Len(s), n, e, InsertAt(s, i, e))
<1> DEFINE a == SubSeq(s, 1, i - 1)
           b == SubSeq(s, i, Len(s))
<1>1. /\ a \in Seq(S) /\ Len(a) = i - 1 /\ \A j \in 1 .. i - 1 : a[j] = s[j]
      /\ b \in Seq(S) /\ Len(b) = Len(s) + 1 - i
      /\ \A j \in 1 .. Len(s) + 1 - i : b[j] = s[i + j - 1]
  OBVIOUS
<1>2. <<e>> \in Seq(S) /\ Len(<<e>>) = 1 /\ <<e>>[1] = e
  OBVIOUS
<1> HIDE DEF a, b
<1>3. /\ a \o <<e>> \in Seq(S) /\ Len(a \o <<e>>) = i
      /\ \A j \in 1 .. i : (a \o <<e>>)[j] = IF j < i THEN s[j] ELSE e
  <2> DEFINE d == <<e>>
  <2>1. d \in Seq(S) /\ Len(d) = 1 /\ d[1] = e
    BY <1>2
  <2> HIDE DEF d
  <2>2. /\ a \o d \in Seq(S) /\ Len(a \o d) = Len(a) + Len(d)
        /\ \A j \in 1 .. Len(a) + Len(d) :
             (a \o d)[j] = IF j <= Len(a) THEN a[j] ELSE d[j - Len(a)]
    BY <1>1, <2>1, Joined, Zenon
  <2>3. i \in Int
    OBVIOUS
  <2>4. ASSUME NEW j \in 1 .. i PROVE (a \o d)[j] = IF j < i THEN s[j] ELSE e
    BY <1>1, <2>1, <2>2, <2>3
  <2> QED BY <1>1, <2>1, <2>2, <2>3, <2>4 DEF d
<1>4. /\ (a \o <<e>>) \o b \in Seq(S) /\ Len((a \o <<e>>) \o b) = Len(s) + 1
      /\ \A j \in 1 .. Len(s) + 1 :
           ((a \o <<e>>) \o b)[j] = IF j < i THEN s[j]
                                    ELSE IF j = i THEN e ELSE s[j - 1]
  <2> DEFINE c == a \o <<e>>
  <2>1. c \in Seq(S) /\ Len(c) = i /\ \A j \in 1 .. i : c[j] = IF j < i THEN s[j] ELSE e
    BY <1>3
  <2> HIDE DEF c
  <2>j. /\ c \o b \in Seq(S) /\ Len(c \o b) = Len(c) + Len(b)
        /\ \A j \in 1 .. Len(c) + Len(b) :
             (c \o b)[j] = IF j <= Len(c) THEN c[j] ELSE b[j - Len(c)]
    BY <1>1, <2>1, Joined, Zenon
  <2>2. /\ c \o b \in Seq(S) /\ Len(c \o b) = i + Len(b)
        /\ \A j \in 1 .. i + Len(b) : (c \o b)[j] = IF j <= i THEN c[j] ELSE b[j - i]
    BY <2>1, <2>j
  <2>3. ASSUME NEW j \in 1 .. Len(s) + 1
        PROVE  (c \o b)[j] = IF j < i THEN s[j] ELSE IF j = i THEN e ELSE s[j - 1]
    <3>0. j <= i \/ j > i
      OBVIOUS
    <3>1. CASE j <= i
      BY <1>1, <2>1, <2>2, <3>1
    <3>2. CASE j > i
      <4>1. (c \o b)[j] = b[j - i] /\ j - i \in 1 .. Len(s) + 1 - i
        BY <1>1, <2>2, <3>2
      <4>2. i + (j - i) - 1 = j - 1 /\ ~(j < i) /\ j # i
        BY <3>2
      <4>3. b[j - i] = s[i + (j - i) - 1]
        BY <1>1, <4>1, Zenon
      <4> QED BY <4>1, <4>2, <4>3, Zenon
    <3> QED BY <3>0, <3>1, <3>2, Zenon
  <2> QED BY <1>1, <2>2, <2>3, SMTT(30) DEF c
<1>5. \A j \in 1 .. Len(s) + 1 :
        InsertAt(s, i, e)[j] = IF j < n + 1 THEN s[j]
                               ELSE IF j = n + 1 THEN e ELSE s[j - 1]
  BY <1>4, Zenon DEF InsertAt, a, b
<1> QED BY <1>4, <1>5, Zenon DEF InsertAt, Inserted, a, b

(* The same, in one piece. *)
InsertedIn(S, s, n, e, t) ==
  t \in Seq(S) /\ Len(t) = Len(s) + 1 /\ Inserted(s, Len(s), n, e, t)

(* InsertAt puts an element behind the first n. *)
LEMMA InsertAtInserts ==
  ASSUME NEW S, NEW s \in Seq(S), NEW i \in 1 .. Len(s) + 1, NEW e \in S,
         NEW n \in 0 .. Len(s), i = n + 1
  PROVE  InsertedIn(S, s, n, e, InsertAt(s, i, e))
BY InsertAtShifts, Zenon DEF InsertedIn

(* RemoveAt shifts what follows the removed element by one. *)
LEMMA RemoveAtShifts ==
  ASSUME NEW S, NEW s \in Seq(S), NEW i \in 1 .. Len(s)
  PROVE  /\ RemoveAt(s, i) \in Seq(S)
         /\ Len(RemoveAt(s, i)) = Len(s) - 1
         /\ Removed(s, Len(s), i, RemoveAt(s, i))
<1> DEFINE a == SubSeq(s, 1, i - 1)
           b == SubSeq(s, i + 1, Len(s))
<1>1. /\ a \in Seq(S) /\ Len(a) = i - 1 /\ \A j \in 1 .. i - 1 : a[j] = s[j]
      /\ b \in Seq(S) /\ Len(b) = Len(s) - i
      /\ \A j \in 1 .. Len(s) - i : b[j] = s[i + j]
  OBVIOUS
<1> HIDE DEF a, b
<1>2. /\ a \o b \in Seq(S) /\ Len(a \o b) = Len(s) - 1
      /\ \A j \in 1 .. Len(s) - 1 : (a \o b)[j] = IF j < i THEN s[j] ELSE s[j + 1]
  <2>1. /\ a \o b \in Seq(S) /\ Len(a \o b) = Len(a) + Len(b)
        /\ \A j \in 1 .. Len(a) + Len(b) :
             (a \o b)[j] = IF j <= Len(a) THEN a[j] ELSE b[j - Len(a)]
    BY <1>1, Joined, Zenon
  <2>2. ASSUME NEW j \in 1 .. Len(s) - 1
        PROVE  (a \o b)[j] = IF j < i THEN s[j] ELSE s[j + 1]
    <3>0. j < i \/ j >= i
      OBVIOUS
    <3>1. CASE j < i
      BY <1>1, <2>1, <3>1
    <3>2. CASE j >= i
      <4>1. (a \o b)[j] = b[j - (i - 1)] /\ j - (i - 1) \in 1 .. Len(s) - i
        BY <1>1, <2>1, <3>2, SMTT(30)
      <4>2. i + (j - (i - 1)) = j + 1 /\ ~(j < i)
        BY <3>2
      <4>3. b[j - (i - 1)] = s[i + (j - (i - 1))]
        BY <1>1, <4>1, Zenon
      <4> QED BY <4>1, <4>2, <4>3, Zenon
    <3> QED BY <3>0, <3>1, <3>2, Zenon
  <2> QED BY <1>1, <2>1, <2>2
<1> QED BY <1>2, Zenon DEF RemoveAt, Removed, a, b

(* insert() always finds a place: the walk stops at the first queued event   *)
(* that is not strictly earlier, or at the end.                              *)
LEMMA AheadExists ==
  ASSUME NEW s \in Seq(Events), NEW w \in [Events -> Int], NEW e \in Events
  PROVE  /\ Ahead(s, w, e) \in 0 .. Len(s)
         /\ StopsAt(s, Len(s), w, e, Ahead(s, w, e))
<1> DEFINE T == {n \in 0 .. Len(s) : n < Len(s) => ~Less(w, s[n + 1], e)}
<1>1. T \subseteq Nat /\ Len(s) \in T
  OBVIOUS
<1>2. PICK n \in T : \A m \in T : ~(m < n)
  <2>1. PICK n \in T : \A m \in T : ~(<<m, n>> \in OpToRel(<, Nat))
    <3> HIDE DEF T
    <3> QED BY <1>1, NatLessThanWellFounded, WFMin
  <2>2. \A m, k \in Nat : m < k => <<m, k>> \in OpToRel(<, Nat)
    BY DEF OpToRel
  <2> QED BY <1>1, <2>1, <2>2
<1>3. n \in 0 .. Len(s) /\ (n < Len(s) => ~Less(w, s[n + 1], e))
  OBVIOUS
<1>4. ASSUME NEW i \in 1 .. n
      PROVE  Less(w, s[i], e)
  <2>1. i - 1 \in 0 .. Len(s) /\ i - 1 < n /\ i - 1 < Len(s) /\ (i - 1) + 1 = i
    BY <1>3
  <2>2. i - 1 \notin T
    BY <1>2, <2>1
  <2> QED BY <2>1, <2>2
<1> HIDE DEF T
<1> QED BY <1>3, <1>4, Zenon DEF Ahead, StopsAt

(* The comparison of events is a strict weak order. *)
LEMMA LessOrder ==
  ASSUME NEW w \in [Events -> Int], NEW a \in Events, NEW b \in Events, NEW c \in Events
  PROVE  /\ Less(w, a, b) => ~Less(w, b, a)
         /\ ~Less(w, b, a) /\ ~Less(w, c, b) => ~Less(w, c, a)
BY PriorityAssumption DEF Less

(* An element put where the walk stops keeps the order. *)
LEMMA InsertedOrder ==
  ASSUME NEW k \in Nat, NEW n \in 0 .. k, NEW s, NEW t, NEW e \in Events,
         NEW w \in [Events -> Int],
         EventsTo(s, k), Inserted(s, k, n, e, t), StopsAt(s, k, w, e, n),
         OrderedTo(s, k, w)
  PROVE  OrderedTo(t, k + 1, w)
<1> USE DEF EventsTo, Inserted, StopsAt, OrderedTo
<1> SUFFICES ASSUME NEW i \in 1 .. k + 1, NEW j \in 1 .. k + 1, i < j
             PROVE  ~Less(w, t[j], t[i])
  OBVIOUS
<1>1. CASE j < n + 1
  <2>1. t[j] = s[j] /\ t[i] = s[i] /\ i \in 1 .. k /\ j \in 1 .. k
    BY <1>1
  <2> QED BY <2>1
<1>2. CASE j = n + 1
  <2>1. t[j] = e /\ t[i] = s[i] /\ i \in 1 .. n /\ i \in 1 .. k
    BY <1>2
  <2> QED BY <2>1, LessOrder
<1>3. CASE i < n + 1 /\ j > n + 1
  <2>1. /\ t[j] = s[j - 1] /\ t[i] = s[i] /\ i < j - 1
        /\ i \in 1 .. k /\ j - 1 \in 1 .. k
    BY <1>3
  <2> QED BY <2>1
<1>4. CASE i = n + 1
  <2>1. /\ t[i] = e /\ t[j] = s[j - 1] /\ n < k
        /\ j - 1 \in 1 .. k /\ n + 1 \in 1 .. k /\ n + 1 <= j - 1
    BY <1>4
  <2>2. ~Less(w, s[j - 1], s[n + 1])
    <3>1. CASE n + 1 = j - 1
      BY <2>1, <3>1, LessOrder
    <3>2. CASE n + 1 < j - 1
      BY <2>1, <3>2
    <3> QED BY <2>1, <3>1, <3>2
  <2> QED BY <2>1, <2>2, LessOrder
<1>5. CASE i > n + 1
  <2>1. /\ t[j] = s[j - 1] /\ t[i] = s[i - 1] /\ i - 1 < j - 1
        /\ i - 1 \in 1 .. k /\ j - 1 \in 1 .. k
    BY <1>5
  <2> QED BY <2>1
<1>6. j < n + 1 \/ j = n + 1 \/ (i < n + 1 /\ j > n + 1) \/ i = n + 1 \/ i > n + 1
  OBVIOUS
<1> QED BY <1>1, <1>2, <1>3, <1>4, <1>5, <1>6

(* Insertion adds one element and repeats none. *)
LEMMA InsertedMembers ==
  ASSUME NEW k \in Nat, NEW n \in 0 .. k, NEW s, NEW t, NEW e,
         Inserted(s, k, n, e, t), NoRepeatTo(s, k), ~QueuedTo(s, k, e)
  PROVE  /\ \A f : QueuedTo(t, k + 1, f) <=> QueuedTo(s, k, f) \/ f = e
         /\ NoRepeatTo(t, k + 1)
<1> USE DEF Inserted, NoRepeatTo, QueuedTo
<1>1. ASSUME NEW i \in 1 .. k PROVE \E j \in 1 .. k + 1 : t[j] = s[i]
  <2>1. CASE i < n + 1
    <3> WITNESS i \in 1 .. k + 1
    <3> QED BY <2>1
  <2>2. CASE i >= n + 1
    <3>1. i + 1 \in 1 .. k + 1
      OBVIOUS
    <3> WITNESS i + 1 \in 1 .. k + 1
    <3> QED BY <2>2
  <2> QED BY <2>1, <2>2
<1>2. \E j \in 1 .. k + 1 : t[j] = e
  <2>1. n + 1 \in 1 .. k + 1
    OBVIOUS
  <2> WITNESS n + 1 \in 1 .. k + 1
  <2> QED OBVIOUS
<1>3. ASSUME NEW j \in 1 .. k + 1, t[j] # e PROVE \E i \in 1 .. k : t[j] = s[i]
  <2>1. CASE j < n + 1
    BY <2>1
  <2>2. CASE j > n + 1
    <3>1. j - 1 \in 1 .. k /\ t[j] = s[j - 1]
      BY <2>2
    <3> QED BY <3>1
  <2> QED BY <1>3, <2>1, <2>2
<1>4. ASSUME NEW i \in 1 .. k + 1, NEW j \in 1 .. k + 1, t[i] = t[j]
      PROVE  i = j
  BY <1>4
<1> QED BY <1>1, <1>2, <1>3, <1>4

(* Inserting an event that is not queued puts it in its place and leaves the *)
(* others, and their order, alone.                                           *)
LEMMA InsertKeepsOrder ==
  ASSUME NEW s \in Seq(Events), NEW w \in [Events -> Int], NEW e \in Events,
         Ordered(s, w), ~Queued(s, e), NoRepeat(s)
  PROVE  /\ Insert(s, w, e) \in Seq(Events)
         /\ Ordered(Insert(s, w, e), w)
         /\ \A f \in Events : Queued(Insert(s, w, e), f) <=> Queued(s, f) \/ f = e
         /\ NoRepeat(Insert(s, w, e))
<1> DEFINE t == Insert(s, w, e)
           n == Ahead(s, w, e)
           k == Len(s)
<1>1. n \in 0 .. k /\ StopsAt(s, k, w, e, n)
  BY AheadExists
<1>2. k \in Nat /\ EventsTo(s, k)
  BY DEF EventsTo
<1>3. OrderedTo(s, k, w) /\ NoRepeatTo(s, k) /\ ~QueuedTo(s, k, e)
  BY DEF Ordered, OrderedTo, NoRepeat, NoRepeatTo, Queued, QueuedTo
<1>4. t \in Seq(Events) /\ Len(t) = k + 1 /\ Inserted(s, k, n, e, t)
  <2>1. n + 1 \in 1 .. k + 1
    BY <1>1, <1>2
  <2> HIDE DEF n
  <2> QED BY <1>1, <2>1, InsertAtShifts DEF Insert, n
<1> HIDE DEF t, n, k
<1>5. OrderedTo(t, k + 1, w)
  BY <1>1, <1>2, <1>3, <1>4, InsertedOrder
<1>6. /\ \A f : QueuedTo(t, k + 1, f) <=> QueuedTo(s, k, f) \/ f = e
      /\ NoRepeatTo(t, k + 1)
  BY <1>1, <1>2, <1>3, <1>4, InsertedMembers
<1>7. Ordered(t, w) /\ NoRepeat(t)
  BY <1>4, <1>5, <1>6 DEF Ordered, OrderedTo, NoRepeat, NoRepeatTo
<1>8. \A f : (Queued(t, f) <=> QueuedTo(t, k + 1, f)) /\ (Queued(s, f) <=> QueuedTo(s, k, f))
  BY <1>4 DEF Queued, QueuedTo, k
<1> QED BY <1>4, <1>6, <1>7, <1>8 DEF t

(* Removal keeps the order, takes one element away and repeats none. *)
LEMMA RemovedOrder ==
  ASSUME NEW k \in Nat, NEW n \in 1 .. k, NEW s, NEW t, NEW w,
         Removed(s, k, n, t), OrderedTo(s, k, w), NoRepeatTo(s, k)
  PROVE  /\ OrderedTo(t, k - 1, w)
         /\ NoRepeatTo(t, k - 1)
         /\ \A f : QueuedTo(t, k - 1, f) <=> QueuedTo(s, k, f) /\ f # s[n]
<1> DEFINE at(j) == IF j < n THEN j ELSE j + 1
<1>1. \A j \in 1 .. k - 1 : at(j) \in 1 .. k /\ at(j) # n /\ t[j] = s[at(j)]
  BY DEF Removed
<1>2. \A i, j \in 1 .. k - 1 : i < j => at(i) < at(j)
  OBVIOUS
<1>3. \A i, j \in 1 .. k - 1 : at(i) = at(j) => i = j
  OBVIOUS
<1>4. ASSUME NEW i \in 1 .. k, i # n PROVE \E j \in 1 .. k - 1 : at(j) = i
  <2>1. CASE i < n
    <3>1. i \in 1 .. k - 1 /\ at(i) = i
      BY <2>1
    <3> QED BY <3>1
  <2>2. CASE i > n
    <3>1. i - 1 \in 1 .. k - 1 /\ at(i - 1) = i
      BY <2>2
    <3> QED BY <3>1
  <2> QED BY <1>4, <2>1, <2>2
<1> HIDE DEF at
<1>5. OrderedTo(t, k - 1, w)
  BY <1>1, <1>2 DEF OrderedTo
<1>6. NoRepeatTo(t, k - 1)
  BY <1>1, <1>3 DEF NoRepeatTo
<1>7. \A f : QueuedTo(t, k - 1, f) <=> QueuedTo(s, k, f) /\ f # s[n]
  BY <1>1, <1>4 DEF NoRepeatTo, QueuedTo
<1> QED BY <1>5, <1>6, <1>7

(* Taking a queued event out leaves the others, and their order, alone. *)
LEMMA DequeueKeepsOrder ==
  ASSUME NEW s \in Seq(Events), NEW w, NEW e,
         Ordered(s, w), Queued(s, e), NoRepeat(s)
  PROVE  /\ Dequeue(s, e) \in Seq(Events)
         /\ Ordered(Dequeue(s, e), w)
         /\ \A f \in Events : Queued(Dequeue(s, e), f) <=> Queued(s, f) /\ f # e
         /\ NoRepeat(Dequeue(s, e))
<1> DEFINE t == Dequeue(s, e)
           n == Index(s, e)
           k == Len(s)
<1>1. n \in 1 .. k /\ s[n] = e
  BY DEF Queued, Index
<1>2. k \in Nat
  OBVIOUS
<1>3. OrderedTo(s, k, w) /\ NoRepeatTo(s, k)
  BY DEF Ordered, OrderedTo, NoRepeat, NoRepeatTo
<1>4. t \in Seq(Events) /\ Len(t) = k - 1 /\ Removed(s, k, n, t)
  <2> HIDE DEF n
  <2> QED BY <1>1, RemoveAtShifts DEF Dequeue, n
<1> HIDE DEF t, n, k
<1>5. /\ OrderedTo(t, k - 1, w)
      /\ NoRepeatTo(t, k - 1)
      /\ \A f : QueuedTo(t, k - 1, f) <=> QueuedTo(s, k, f) /\ f # e
  BY <1>1, <1>2, <1>3, <1>4, RemovedOrder
<1>6. Ordered(t, w) /\ NoRepeat(t)
  BY <1>4, <1>5 DEF Ordered, OrderedTo, NoRepeat, NoRepeatTo
<1>7. \A f : (Queued(t, f) <=> QueuedTo(t, k - 1, f)) /\ (Queued(s, f) <=> QueuedTo(s, k, f))
  BY <1>4 DEF Queued, QueuedTo, k
<1> QED BY <1>4, <1>5, <1>6, <1>7 DEF t

(* serviceOne() takes the head: nothing queued comes before it, and the rest *)
(* is the queue without it.                                                  *)
LEMMA HeadIsNext ==
  ASSUME NEW s \in Seq(Events), NEW w \in [Events -> Int],
         Ordered(s, w), NoRepeat(s), s # <<>>
  PROVE  /\ Head(s) \in Events /\ Queued(s, Head(s))
         /\ \A f \in Events : Queued(s, f) => w[Head(s)] <= w[f]
         /\ Tail(s) \in Seq(Events) /\ Ordered(Tail(s), w) /\ NoRepeat(Tail(s))
         /\ \A f \in Events : Queued(Tail(s), f) <=> Queued(s, f) /\ f # Head(s)
<1> DEFINE k == Len(s)
           t == Tail(s)
<1>1. k \in Nat /\ k >= 1 /\ Head(s) = s[1] /\ EventsTo(s, k)
  BY DEF EventsTo
<1>2. t \in Seq(Events) /\ Len(t) = k - 1 /\ \A i \in 1 .. Len(t) : t[i] = s[i + 1]
  OBVIOUS
<1>3. OrderedTo(s, k, w) /\ NoRepeatTo(s, k)
  BY DEF Ordered, OrderedTo, NoRepeat, NoRepeatTo
<1>4. \A f : Queued(s, f) <=> QueuedTo(s, k, f)
  BY DEF Queued, QueuedTo
<1>5. \A f : Queued(t, f) <=> QueuedTo(t, k - 1, f)
  BY <1>2 DEF Queued, QueuedTo
<1> HIDE DEF t, k
<1>6. Removed(s, k, 1, t)
  BY <1>1, <1>2 DEF Removed
<1>7. /\ OrderedTo(t, k - 1, w)
      /\ NoRepeatTo(t, k - 1)
      /\ \A f : QueuedTo(t, k - 1, f) <=> QueuedTo(s, k, f) /\ f # s[1]
  BY <1>1, <1>3, <1>6, RemovedOrder
<1>8. Ordered(t, w) /\ NoRepeat(t)
  BY <1>2, <1>7 DEF Ordered, OrderedTo, NoRepeat, NoRepeatTo
<1>9. QueuedTo(s, k, s[1]) /\ s[1] \in Events
  BY <1>1 DEF QueuedTo, EventsTo
<1>10. ASSUME NEW i \in 1 .. k PROVE w[s[1]] <= w[s[i]]
  <2>1. s[i] \in Events /\ (i = 1 \/ 1 < i) /\ 1 \in 1 .. k
    BY <1>1 DEF EventsTo
  <2>2. CASE i = 1
    BY <1>9, <2>2
  <2>3. CASE 1 < i
    <3>1. ~Less(w, s[i], s[1])
      BY <1>3, <2>1, <2>3 DEF OrderedTo
    <3> QED BY <1>9, <2>1, <3>1 DEF Less
  <2> QED BY <2>1, <2>2, <2>3
<1>11. \A f \in Events : QueuedTo(s, k, f) => w[s[1]] <= w[f]
  BY <1>10 DEF QueuedTo
<1> QED BY <1>1, <1>2, <1>4, <1>5, <1>7, <1>8, <1>9, <1>11, SMTT(30) DEF t

(* Setting the tick of an event that is not queued leaves the order alone. *)
LEMMA OrderedFrame ==
  ASSUME NEW s \in Seq(Events), NEW w \in [Events -> Int], NEW e \in Events,
         NEW x \in Int, Ordered(s, w), ~Queued(s, e)
  PROVE  Ordered(s, [w EXCEPT ![e] = x])
<1>1. \A i \in 1 .. Len(s) : s[i] \in Events /\ s[i] # e
  BY DEF Queued
<1>2. \A i \in 1 .. Len(s) : [w EXCEPT ![e] = x][s[i]] = w[s[i]]
  BY <1>1
<1> QED BY <1>1, <1>2 DEF Ordered, Less

-----------------------------------------------------------------------------
(* The constructor's initial state satisfies the invariant. *)
LEMMA InitIInv == Init => IInv
<1> SUFFICES ASSUME Init PROVE IInv
  OBVIOUS
<1> USE EventsAssumption, MaxTickAssumption, FlagsAssumption DEF Init
<1>1. TypeOK
  BY DEF TypeOK, Ticks
<1>2. Len(q) = 0
  OBVIOUS
<1>3. FlagMatchesQueue /\ DebugVerify /\ NotInThePast
  BY <1>2 DEF FlagMatchesQueue, DebugVerify, NotInThePast, Queued, NoRepeat, Ordered
<1>4. NoStaleSquash /\ NoUseAfterDelete /\ ServiceEventsBound
  BY DEF NoStaleSquash, NoUseAfterDelete, ServiceEventsBound
<1> QED BY <1>1, <1>3, <1>4 DEF IInv

(* Putting an unqueued event into the queue for tick x: what Schedule and    *)
(* Reschedule have in common.                                                *)
LEMMA Requeue ==
  ASSUME NEW s \in Seq(Events), NEW w \in [Events -> Ticks], NEW e \in Events,
         NEW x \in Ticks, Ordered(s, w), NoRepeat(s), ~Queued(s, e)
  PROVE  LET u == [w EXCEPT ![e] = x]
         IN  /\ u \in [Events -> Ticks]
             /\ Insert(s, u, e) \in Seq(Events)
             /\ Ordered(Insert(s, u, e), u)
             /\ NoRepeat(Insert(s, u, e))
             /\ \A f \in Events : Queued(Insert(s, u, e), f) <=> Queued(s, f) \/ f = e
<1> DEFINE u == [w EXCEPT ![e] = x]
<1>1. u \in [Events -> Ticks]
  OBVIOUS
<1>2. w \in [Events -> Int] /\ u \in [Events -> Int] /\ x \in Int
  BY <1>1, MaxTickAssumption DEF Ticks
<1>3. Ordered(s, u)
  BY <1>2, OrderedFrame, Zenon
<1> HIDE DEF u
<1>4. /\ Insert(s, u, e) \in Seq(Events)
      /\ Ordered(Insert(s, u, e), u)
      /\ \A f \in Events : Queued(Insert(s, u, e), f) <=> Queued(s, f) \/ f = e
      /\ NoRepeat(Insert(s, u, e))
  BY <1>2, <1>3, InsertKeepsOrder
<1> QED BY <1>1, <1>4, Zenon DEF u

(* Every step preserves the invariant. *)
LEMMA NextIInv == IInv /\ [Next]_vars => IInv'
<1> SUFFICES ASSUME IInv, [Next]_vars PROVE IInv'
  OBVIOUS
<1> USE EventsAssumption, MaxTickAssumption, FlagsAssumption
<1>t. TypeOK /\ when \in [Events -> Int]
  BY DEF IInv, TypeOK, Ticks
<1>q. /\ q \in Seq(Events) /\ Ordered(q, when) /\ NoRepeat(q)
      /\ \A e \in Events : e \in scheduled <=> Queued(q, e)
  BY DEF IInv, TypeOK, DebugVerify, FlagMatchesQueue
<1>1. ASSUME NEW e \in Events, Construct(e) PROVE IInv'
  <2>1. ~Queued(q, e) /\ e \notin scheduled
    BY <1>1, <1>q DEF IInv, NoUseAfterDelete, Construct
  <2>2. Ordered(q, when')
    <3>1. PICK x \in Int : x = 0
      OBVIOUS
    <3>2. Ordered(q, [when EXCEPT ![e] = x])
      BY <1>t, <1>q, <2>1, OrderedFrame, Zenon
    <3> QED BY <1>1, <3>1, <3>2 DEF Construct
  <2>3. TypeOK'
    BY <1>1, <1>t DEF Construct, TypeOK, Ticks
  <2>4. FlagMatchesQueue' /\ DebugVerify'
    BY <1>1, <1>q, <2>2 DEF Construct, FlagMatchesQueue, DebugVerify
  <2>5. NotInThePast'
    BY <1>1, <1>t, <2>1 DEF IInv, NotInThePast, TypeOK, Construct
  <2> QED BY <1>1, <2>3, <2>4, <2>5
          DEF IInv, Construct, NoStaleSquash, NoUseAfterDelete, ServiceEventsBound
<1>2. ASSUME NEW e \in Events, Destroy(e) PROVE IInv'
  BY <1>2 DEF IInv, Destroy, TypeOK, FlagMatchesQueue, DebugVerify, NotInThePast,
              NoStaleSquash, NoUseAfterDelete, ServiceEventsBound
<1>3. ASSUME NEW e \in Events, Deschedule(e) PROVE IInv'
  <2>1. Queued(q, e)
    BY <1>3, <1>q DEF Deschedule
  <2>2. /\ q' \in Seq(Events) /\ Ordered(q', when) /\ NoRepeat(q')
        /\ \A f \in Events : Queued(q', f) <=> Queued(q, f) /\ f # e
    BY <1>3, <1>q, <2>1, DequeueKeepsOrder DEF Deschedule
  <2>3. TypeOK'
    BY <1>3, <1>t, <2>2 DEF Deschedule, TypeOK
  <2>4. FlagMatchesQueue' /\ DebugVerify'
    BY <1>3, <1>q, <2>2 DEF Deschedule, FlagMatchesQueue, DebugVerify
  <2>5. NotInThePast'
    BY <1>3, <2>2 DEF IInv, NotInThePast, Deschedule
  <2> QED BY <1>3, <2>3, <2>4, <2>5
          DEF IInv, Deschedule, NoStaleSquash, NoUseAfterDelete, ServiceEventsBound
<1>4. ASSUME NEW e \in Events, Squash(e) PROVE IInv'
  BY <1>4 DEF IInv, Squash, TypeOK, FlagMatchesQueue, DebugVerify, NotInThePast,
              NoStaleSquash, NoUseAfterDelete, ServiceEventsBound
<1>5. ASSUME NEW e \in Events, NEW w \in Ticks, Schedule(e, w) PROVE IInv'
  <2>1. ~Queued(q, e)
    BY <1>5, <1>q DEF Schedule
  <2>2. /\ when' \in [Events -> Ticks]
        /\ q' \in Seq(Events) /\ Ordered(q', when') /\ NoRepeat(q')
        /\ \A f \in Events : Queued(q', f) <=> Queued(q, f) \/ f = e
    BY <1>5, <1>t, <1>q, <2>1, Requeue, Zenon DEF Schedule, TypeOK
  <2>3. TypeOK'
    BY <1>5, <1>t, <2>2 DEF Schedule, TypeOK
  <2>4. FlagMatchesQueue' /\ DebugVerify'
    BY <1>5, <1>q, <2>2, Zenon DEF Schedule, FlagMatchesQueue, DebugVerify
  <2>5. NotInThePast'
    BY <1>5, <1>t, <2>2, Zenon DEF IInv, NotInThePast, Schedule, TypeOK
  <2> QED BY <1>5, <2>3, <2>4, <2>5
          DEF IInv, Schedule, NoStaleSquash, NoUseAfterDelete, ServiceEventsBound
<1>6. ASSUME NEW e \in Events, NEW w \in Ticks, NEW always \in BOOLEAN,
             Reschedule(e, w, always)
      PROVE  IInv'
  <2> DEFINE s == IF e \in scheduled THEN Dequeue(q, e) ELSE q
  <2>1. /\ s \in Seq(Events) /\ Ordered(s, when) /\ NoRepeat(s)
        /\ \A f \in Events : Queued(s, f) <=> Queued(q, f) /\ f # e
    <3>1. CASE e \in scheduled
      BY <1>q, <3>1, DequeueKeepsOrder, Zenon
    <3>2. CASE e \notin scheduled
      BY <1>q, <3>2
    <3> QED BY <3>1, <3>2
  <2>2. q' = Insert(s, when', e)
    BY <1>6 DEF Reschedule
  <2> HIDE DEF s
  <2>3. /\ when' \in [Events -> Ticks]
        /\ q' \in Seq(Events) /\ Ordered(q', when') /\ NoRepeat(q')
        /\ \A f \in Events : Queued(q', f) <=> Queued(q, f) \/ f = e
    <3>1. when' = [when EXCEPT ![e] = w] /\ when \in [Events -> Ticks] /\ ~Queued(s, e)
      BY <1>6, <1>t, <2>1 DEF Reschedule, TypeOK
    <3>2. /\ when' \in [Events -> Ticks]
          /\ q' \in Seq(Events) /\ Ordered(q', when') /\ NoRepeat(q')
          /\ \A f \in Events : Queued(q', f) <=> Queued(s, f) \/ f = e
      BY <2>1, <2>2, <3>1, Requeue, Zenon
    <3> QED BY <2>1, <3>2
  <2>4. TypeOK'
    BY <1>6, <1>t, <2>3 DEF Reschedule, TypeOK
  <2>5. FlagMatchesQueue' /\ DebugVerify'
    BY <1>6, <1>q, <2>3, Zenon DEF Reschedule, FlagMatchesQueue, DebugVerify
  <2>6. NotInThePast'
    BY <1>6, <1>t, <2>3, Zenon DEF IInv, NotInThePast, Reschedule, TypeOK
  <2> QED BY <1>6, <2>4, <2>5, <2>6
          DEF IInv, Reschedule, NoStaleSquash, NoUseAfterDelete, ServiceEventsBound
<1>h. ASSUME q # <<>>
      PROVE  /\ Head(q) \in Events /\ Queued(q, Head(q))
             /\ \A f \in Events : Queued(q, f) => when[Head(q)] <= when[f]
             /\ Tail(q) \in Seq(Events) /\ Ordered(Tail(q), when) /\ NoRepeat(Tail(q))
             /\ \A f \in Events : Queued(Tail(q), f) <=> Queued(q, f) /\ f # Head(q)
  BY <1>h, <1>t, <1>q, HeadIsNext
<1>7. CASE ServiceOne
  <2>1. TypeOK'
    BY <1>7, <1>t, <1>h DEF ServiceOne, TypeOK
  <2>2. FlagMatchesQueue' /\ DebugVerify'
    BY <1>7, <1>q, <1>h DEF ServiceOne, FlagMatchesQueue, DebugVerify
  <2>3. NotInThePast'
    BY <1>7, <1>h DEF NotInThePast, ServiceOne
  <2>4. NoStaleSquash' /\ NoUseAfterDelete'
    BY <1>7, <1>q, <1>h DEF IInv, NoStaleSquash, NoUseAfterDelete, ServiceOne
  <2>5. ServiceEventsBound'
    BY <1>7 DEF ServiceEventsBound, ServiceOne, Due
  <2> QED BY <2>1, <2>2, <2>3, <2>4, <2>5, SMTT(30) DEF IInv
<1>8. CASE ServiceSquashed
  <2>1. TypeOK'
    BY <1>8, <1>t, <1>h DEF ServiceSquashed, TypeOK
  <2>2. FlagMatchesQueue' /\ DebugVerify'
    BY <1>8, <1>q, <1>h DEF ServiceSquashed, FlagMatchesQueue, DebugVerify
  <2>3. NotInThePast'
    BY <1>8, <1>h DEF IInv, NotInThePast, ServiceSquashed
  <2>4. NoStaleSquash' /\ NoUseAfterDelete' /\ ServiceEventsBound'
    BY <1>8 DEF IInv, NoStaleSquash, NoUseAfterDelete, ServiceEventsBound, ServiceSquashed
  <2> QED BY <2>1, <2>2, <2>3, <2>4 DEF IInv
<1>9. CASE ServiceDone
  BY <1>9 DEF IInv, ServiceDone, TypeOK, FlagMatchesQueue, DebugVerify, NotInThePast,
              NoStaleSquash, NoUseAfterDelete, ServiceEventsBound
<1>10. ASSUME NEW w \in Ticks, ServiceEvents(w) PROVE IInv'
  BY <1>10 DEF IInv, ServiceEvents, TypeOK, FlagMatchesQueue, DebugVerify, NotInThePast,
               NoStaleSquash, NoUseAfterDelete, ServiceEventsBound, Ticks
<1>11. CASE ServiceEventsDone
  <2>1. TypeOK' /\ NoStaleSquash' /\ NoUseAfterDelete' /\ ServiceEventsBound'
    BY <1>11 DEF IInv, ServiceEventsDone, TypeOK, NoStaleSquash, NoUseAfterDelete,
                 ServiceEventsBound, Ticks
  <2>2. FlagMatchesQueue' /\ DebugVerify'
    BY <1>11 DEF IInv, ServiceEventsDone, FlagMatchesQueue, DebugVerify
  <2>3. NotInThePast'
    <3>1. CASE q = <<>>
      BY <1>11, <3>1 DEF NotInThePast, ServiceEventsDone, Queued
    <3>2. CASE q # <<>>
      BY <1>11, <1>t, <1>h, <3>2 DEF NotInThePast, ServiceEventsDone, TypeOK
    <3> QED BY <3>1, <3>2
  <2> QED BY <2>1, <2>2, <2>3 DEF IInv
<1>12. CASE UNCHANGED vars
  BY <1>12 DEF IInv, vars, TypeOK, FlagMatchesQueue, DebugVerify, NotInThePast,
               NoStaleSquash, NoUseAfterDelete, ServiceEventsBound
<1> QED BY <1>1, <1>2, <1>3, <1>4, <1>5, <1>6, <1>7, <1>8, <1>9, <1>10, <1>11, <1>12, SMTT(30) DEF Next

(* Whatever the simulation objects schedule, deschedule, reschedule and      *)
(* squash, before, during or between the events, the queue stays consistent. *)
THEOREM Invariance == Spec => []IInv
BY InitIInv, NextIInv, PTL DEF Spec

(* EventQueue::debugVerify() never fails. *)
THEOREM AlwaysDebugVerify == Spec => []DebugVerify
<1>1. IInv => DebugVerify
  BY DEF IInv
<1> QED BY Invariance, <1>1, PTL

(* doSimLoop() never meets an event scheduled in the past. *)
THEOREM AlwaysNotInThePast == Spec => []NotInThePast
<1>1. IInv => NotInThePast
  BY DEF IInv
<1> QED BY Invariance, <1>1, PTL

(* The Scheduled flag is set exactly on the queued events. *)
THEOREM AlwaysFlagMatchesQueue == Spec => []FlagMatchesQueue
<1>1. IInv => FlagMatchesQueue
  BY DEF IInv
<1> QED BY Invariance, <1>1, PTL

(* A squash never outlives the scheduling it cancels, and no event is        *)
(* deleted while queued or running.                                          *)
THEOREM AlwaysNoStaleSquash == Spec => [](NoStaleSquash /\ NoUseAfterDelete)
<1>1. IInv => NoStaleSquash /\ NoUseAfterDelete
  BY DEF IInv
<1> QED BY Invariance, <1>1, PTL

(* serviceOne() and serviceEvents() never move simulated time backwards. *)
THEOREM TimeMonotonic == Spec => TimeIsMonotonic
<1>1. IInv /\ [Next]_vars => [curTick' >= curTick]_vars
  <2> SUFFICES ASSUME IInv, [Next]_vars PROVE curTick' >= curTick \/ UNCHANGED vars
    OBVIOUS
  <2> USE MaxTickAssumption
  <2>0. curTick \in Int /\ when \in [Events -> Int] /\ until \in Int
    BY DEF IInv, TypeOK, Ticks
  <2>1. CASE ServiceOne
    <3>1. Head(q) \in Events /\ Queued(q, Head(q))
      BY <2>0, <2>1, HeadIsNext DEF IInv, TypeOK, DebugVerify, FlagMatchesQueue, ServiceOne
    <3> QED BY <2>1, <3>1 DEF IInv, NotInThePast, ServiceOne
  <2>2. CASE ServiceEventsDone
    BY <2>2 DEF IInv, ServiceEventsBound, ServiceEventsDone
  <2>3. CASE UNCHANGED curTick
    BY <2>0, <2>3
  <2> QED BY <2>1, <2>2, <2>3
          DEF Next, vars, Construct, Destroy, Deschedule, Squash, Schedule, Reschedule,
              ServiceSquashed, ServiceDone, ServiceEvents
<1> QED BY Invariance, <1>1, PTL DEF Spec, TimeIsMonotonic
=============================================================================

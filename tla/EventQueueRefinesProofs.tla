----------------------- MODULE EventQueueRefinesProofs -----------------------
(***************************************************************************)
(* Every behaviour of the linked lists of sim/eventq.cc is one of the      *)
(* abstract queue, and their pointers can always be followed.              *)
(*                                                                         *)
(* The inductive invariant is that of EventList, about the sequence of the *)
(* events that a visit of the lists yields, together with the fact that    *)
(* the pointers lay out that sequence.  Each step is shown to be a step of *)
(* EventList; EventListProofs then says what the step preserves.           *)
(***************************************************************************)
EXTENDS EventQueueProofs, EventQueueRefines, SequenceTheorems, FiniteSetTheorems

-----------------------------------------------------------------------------
(* What is visited from the head.                                          *)

Onward(l, p) == IF l.nextInBin[p[2]] # NULL THEN <<p[1], l.nextInBin[p[2]]>>
                ELSE <<l.nextBin[p[1]], l.nextBin[p[1]]>>

\* What is visited from anywhere in one step more than v.
Step(l, v) ==
  [p \in Pointers \X Pointers |-> IF p[2] = NULL THEN <<>> ELSE <<p[2]>> \o v[Onward(l, p)]]

Nothing == [p \in Pointers \X Pointers |-> <<>>]

\* g is visit(l) up to n.
UpTo(l, g, n) ==
  DOMAIN g = 0 .. n /\ g[0] = Nothing /\ \A i \in 1 .. n : g[i] = Step(l, g[i - 1])

\* The first n rounds of a visit are defined.
LEMMA UpToExists == ASSUME NEW l, NEW n \in Nat PROVE \E g : UpTo(l, g, n)
<1> DEFINE T == {i \in Nat : \E g : UpTo(l, g, i)}
<1>1. 0 \in T
  <2> DEFINE g == [i \in 0 .. 0 |-> Nothing]
  <2>1. UpTo(l, g, 0)
    BY DEF UpTo
  <2> HIDE DEF g
  <2> QED BY Zenon, <2>1
<1>2. ASSUME NEW i \in T PROVE i + 1 \in T
  <2>1. PICK g : UpTo(l, g, i)
    BY Zenon
  <2> DEFINE h == [j \in 0 .. i + 1 |-> IF j = i + 1 THEN Step(l, g[i]) ELSE g[j]]
  <2>2. h[0] = Nothing
    BY <2>1 DEF UpTo
  <2>3. ASSUME NEW j \in 1 .. i + 1 PROVE h[j] = Step(l, h[j - 1])
    <3>1. j - 1 \in 0 .. i + 1 /\ j - 1 # i + 1 /\ j \in 0 .. i + 1
      OBVIOUS
    <3>2. h[j - 1] = g[j - 1]
      BY Zenon, <3>1
    <3>3. CASE j = i + 1
      <4>1. h[j] = Step(l, g[i]) /\ j - 1 = i
        BY <3>1, <3>3
      <4> HIDE DEF h
      <4> QED BY Zenon, <3>2, <4>1
    <3>4. CASE j # i + 1
      <4>1. h[j] = g[j] /\ j \in 1 .. i
        BY <3>1, <3>4
      <4> HIDE DEF h
      <4> QED BY Zenon, <2>1, <3>2, <4>1 DEF UpTo
    <3> QED BY Zenon, <3>3, <3>4
  <2>4. DOMAIN h = 0 .. i + 1
    BY Zenon
  <2> HIDE DEF h
  <2>5. UpTo(l, h, i + 1)
    BY Zenon, <2>2, <2>3, <2>4 DEF UpTo
  <2> QED BY <2>5
<1>3. T = Nat
  <2> HIDE DEF T
  <2>1. T \in SUBSET Nat
    BY Zenon DEF T
  <2> QED BY Zenon, <1>1, <1>2, <2>1, Induction
<1> QED BY Zenon, <1>3

\* Two definitions of the rounds agree.
LEMMA UpToAgree ==
  ASSUME NEW l, NEW m \in Nat, NEW n \in Nat, NEW g, UpTo(l, g, m), NEW h, UpTo(l, h, n),
         NEW i \in Nat, i <= m, i <= n
  PROVE  g[i] = h[i]
<1> DEFINE T == {j \in Nat : j <= m /\ j <= n => g[j] = h[j]}
<1>1. 0 \in T
  BY Zenon DEF UpTo
<1>2. ASSUME NEW j \in T PROVE j + 1 \in T
  <2> SUFFICES ASSUME j + 1 <= m, j + 1 <= n PROVE g[j + 1] = h[j + 1]
    OBVIOUS
  <2>1. j + 1 \in 1 .. m /\ j + 1 \in 1 .. n /\ (j + 1) - 1 = j /\ g[j] = h[j]
    OBVIOUS
  <2>2. g[j + 1] = Step(l, g[(j + 1) - 1]) /\ h[j + 1] = Step(l, h[(j + 1) - 1])
    BY Zenon, <2>1 DEF UpTo
  <2> QED BY Zenon, <2>1, <2>2
<1>3. T = Nat
  <2> HIDE DEF T
  <2>1. T \in SUBSET Nat
    BY Zenon DEF T
  <2> QED BY Zenon, <1>1, <1>2, <2>1, Induction
<1> QED BY Zenon, <1>3

\* visit(l) is the function its definition describes.
LEMMA VisitSteps ==
  ASSUME NEW l
  PROVE  visit(l)[0] = Nothing /\ \A n \in Nat : visit(l)[n + 1] = Step(l, visit(l)[n])
<1> DEFINE F(f) == [n \in Nat |->
              [p \in Pointers \X Pointers |->
                 IF n = 0 \/ p[2] = NULL THEN <<>>
                 ELSE <<p[2]>> \o f[n - 1][IF l.nextInBin[p[2]] # NULL
                                          THEN <<p[1], l.nextInBin[p[2]]>>
                                          ELSE <<l.nextBin[p[1]], l.nextBin[p[1]]>>]]]
           from == CHOOSE f : f = F(f)
           G(n) == CHOOSE g : UpTo(l, g, n)
           v == [n \in Nat |-> G(n)[n]]
<1>1. visit(l) = from
  BY Zenon DEF visit
<1>g. \A n \in Nat : UpTo(l, G(n), n)
  BY Zenon, UpToExists
<1> HIDE DEF G
<1>2. v[0] = Nothing
  <2>1. UpTo(l, G(0), 0)
    BY Zenon, <1>g
  <2> QED BY Zenon, <2>1 DEF UpTo
<1>3. ASSUME NEW n \in Nat PROVE v[n + 1] = Step(l, v[n])
  <2>1. UpTo(l, G(n + 1), n + 1) /\ UpTo(l, G(n), n)
    BY <1>g
  <2>2. G(n + 1)[n + 1] = Step(l, G(n + 1)[n])
    <3>1. n + 1 \in 1 .. n + 1 /\ (n + 1) - 1 = n
      OBVIOUS
    <3>2. G(n + 1)[n + 1] = Step(l, G(n + 1)[(n + 1) - 1])
      BY Zenon, <2>1, <3>1 DEF UpTo
    <3> QED BY Zenon, <3>1, <3>2
  <2>3. G(n + 1)[n] = G(n)[n]
    <3>1. n <= n + 1 /\ n <= n /\ n + 1 \in Nat
      OBVIOUS
    <3> QED BY <2>1, <3>1, UpToAgree
  <2> QED BY <2>2, <2>3
<1>4. v = F(v)
  <2> HIDE DEF v
  <2>1. ASSUME NEW n \in Nat PROVE F(v)[n] = v[n]
    <3>1. CASE n = 0
      <4>1. F(v)[0] = Nothing
        BY Zenon DEF Nothing
      <4> QED BY Zenon, <1>2, <3>1, <4>1
    <3>2. CASE n # 0
      <4>1. n - 1 \in Nat /\ (n - 1) + 1 = n
        BY <3>2
      <4>2. v[n] = Step(l, v[n - 1])
        <5>1. v[(n - 1) + 1] = Step(l, v[n - 1])
          BY Zenon, <1>3, <4>1
        <5> QED BY Zenon, <4>1, <5>1
      <4>3. F(v)[n] = Step(l, v[n - 1])
        BY Zenon, <3>2 DEF Step, Onward
      <4> QED BY Zenon, <4>2, <4>3
    <3> QED BY Zenon, <3>1, <3>2
  <2>2. v = [n \in Nat |-> v[n]] /\ F(v) = [n \in Nat |-> F(v)[n]]
    BY Zenon DEF v
  <2> HIDE DEF F
  <2> QED BY Zenon, <2>1, <2>2
<1>5. from = F(from)
  <2>1. \E f : f = F(f)
    <3> HIDE DEF v
    <3> QED BY Zenon, <1>4
  <2> HIDE DEF F
  <2> QED BY Zenon, <2>1
<1> HIDE DEF from
<1>6. from[0] = Nothing
  <2>1. F(from)[0] = Nothing
    BY Zenon DEF Nothing
  <2> QED BY Zenon, <1>5, <2>1
<1>7. ASSUME NEW n \in Nat PROVE from[n + 1] = Step(l, from[n])
  <2>1. n + 1 \in Nat /\ n + 1 # 0 /\ (n + 1) - 1 = n
    OBVIOUS
  <2>2. F(from)[n + 1] = Step(l, from[n])
    BY Zenon, <2>1 DEF Step, Onward
  <2> QED BY Zenon, <1>5, <2>2
<1> QED BY Zenon, <1>1, <1>6, <1>7

\* A queue is no longer than there are events.
LEMMA QueueFits ==
  ASSUME NEW w, NEW s \in Seq(Events), Queue(w, s, Len(s))
  PROVE  Cardinality(Events) \in Nat /\ Len(s) <= Cardinality(Events)
<1>1. IsFiniteSet(Events)
  BY Zenon, EventsAssumption
<1>2. s \in [1 .. Len(s) -> Events] /\ Len(s) \in Nat
  OBVIOUS
<1>3. s \in Injection(1 .. Len(s), Events)
  BY Zenon, <1>2 DEF Injection, IsInjective, Queue
<1>4. Cardinality(1 .. Len(s)) = Len(s)
  <2> SUFFICES ASSUME NEW k \in Nat PROVE Cardinality(1 .. k) = k
    BY Zenon, <1>2
  <2>1. Cardinality(1 .. k) = IF 1 > k THEN 0 ELSE k - 1 + 1
    BY FS_Interval
  <2> QED BY <2>1
<1>5. Cardinality(1 .. Len(s)) <= Cardinality(Events)
  BY Zenon, <1>1, <1>3, FS_Injection
<1> QED BY Zenon, <1>1, <1>4, <1>5, FS_CardinalityType

\* b is the top of the bin that i is in.
InBin(B, b, i) == b \in B /\ b <= i /\ \A j \in b + 1 .. i : j \notin B

\* In m steps the walk from position a, in the bin of c, visits the rest of the queue.
Rest(F, B, s, k, m) ==
  \A a \in 1 .. k : \A c : InBin(B, c, a) /\ k - a + 1 <= m => F[m][<<s[c], s[a]>>] = SubSeq(s, a, k)

\* What is visited from a position on is the rest of the queue.
LEMMA VisitsRest ==
  ASSUME NEW l \in Lists, NEW w, NEW s \in Seq(Events), NEW k \in Nat, k = Len(s),
         Queue(w, s, k), Laid(l, w, s, k), NEW n \in Nat
  PROVE  Rest(visit(l), Tops(w, s, k), s, k, n)
<1> DEFINE B == Tops(w, s, k)
           F == visit(l)
           T == {m \in Nat : Rest(F, B, s, k, m)}
<1>b. B \subseteq 1 .. k
  BY Zenon DEF Tops
<1>q. \A a \in 1 .. k : s[a] \in Events /\ s[a] # NULL /\ s[a] \in Pointers
  BY Zenon, EventsAssumption DEF Queue, Pointers
<1>f. F[0] = Nothing /\ \A m \in Nat : F[m + 1] = Step(l, F[m])
  BY Zenon, VisitSteps
<1> HIDE DEF F
<1>0. \A m \in Nat : F[m][<<NULL, NULL>>] = <<>>
  <2> SUFFICES ASSUME NEW m \in Nat PROVE F[m][<<NULL, NULL>>] = <<>>
    BY Zenon
  <2>1. <<NULL, NULL>> \in Pointers \X Pointers
    BY Zenon DEF Pointers
  <2>2. CASE m = 0
    BY Zenon, <1>f, <2>1, <2>2 DEF Nothing
  <2>3. CASE m # 0
    <3>1. m - 1 \in Nat /\ (m - 1) + 1 = m
      BY <2>3
    <3>2. F[m] = Step(l, F[m - 1])
      <4>1. F[(m - 1) + 1] = Step(l, F[m - 1])
        BY Zenon, <1>f, <3>1
      <4> QED BY Zenon, <3>1, <4>1
    <3> QED BY Zenon, <2>1, <3>2 DEF Step
  <2> QED BY Zenon, <2>2, <2>3
<1>1. 0 \in T
  <2>1. \A a \in 1 .. k : ~(k - a + 1 <= 0)
    OBVIOUS
  <2> HIDE DEF B
  <2> QED BY Zenon, <2>1 DEF Rest
<1>2. ASSUME NEW m \in T PROVE m + 1 \in T
  <2>m. m \in Nat /\ Rest(F, B, s, k, m)
    BY Zenon
  <2>n. m + 1 \in Nat
    BY <2>m
  <2> HIDE DEF B
  <2> SUFFICES Rest(F, B, s, k, m + 1)
    BY Zenon, <2>n
  <2> HIDE DEF T
  <2> SUFFICES ASSUME NEW a \in 1 .. k, NEW c, InBin(B, c, a), k - a + 1 <= m + 1
               PROVE  F[m + 1][<<s[c], s[a]>>] = SubSeq(s, a, k)
    BY Zenon DEF Rest
  <2> USE DEF B
  <2>1. c \in B /\ c <= a /\ c \in 1 .. k /\ (\A j \in c + 1 .. a : j \notin B)
    BY Zenon, <1>b DEF InBin
  <2>2. <<s[c], s[a]>> \in Pointers \X Pointers /\ s[a] # NULL
    BY Zenon, <1>q, <2>1
  <2> DEFINE next == Onward(l, <<s[c], s[a]>>)
  <2>3. F[m + 1][<<s[c], s[a]>>] = <<s[a]>> \o F[m][next]
    <3>1. F[m + 1] = Step(l, F[m])
      BY Zenon, <1>f, <2>m
    <3> QED BY Zenon, <2>2, <3>1 DEF Step
  <2>4. l.nextInBin[s[a]] = IF a < k /\ a + 1 \notin B THEN s[a + 1] ELSE NULL
    BY Zenon DEF Laid, Linked, Stacked
  <2>5. SubSeq(s, a, k) = <<s[a]>> \o SubSeq(s, a + 1, k)
    <3>1. a \in 1 .. Len(s) /\ k \in a .. Len(s)
      OBVIOUS
    <3> QED BY Zenon, <3>1, SubSeqRecursiveFirst
  <2>6. CASE a < k
    <3>0. a + 1 \in 1 .. k /\ k - (a + 1) + 1 <= m
      BY <2>6, <2>m
    <3>1. CASE a + 1 \notin B
      <4>1. next = <<s[c], s[a + 1]>>
        BY Zenon, <1>q, <2>4, <2>6, <3>0, <3>1 DEF Onward
      <4>2. InBin(B, c, a + 1)
        BY <2>1, <3>1 DEF InBin
      <4>3. F[m][<<s[c], s[a + 1]>>] = SubSeq(s, a + 1, k)
        BY Zenon, <2>m, <3>0, <4>2 DEF Rest
      <4> QED BY Zenon, <2>3, <2>5, <4>1, <4>3
    <3>2. CASE a + 1 \in B
      <4>1. l.nextBin[s[c]] = s[a + 1]
        <5> DEFINE x == l.nextBin[s[c]]
        <5>1. Points(x, s, B, c)
          BY Zenon, <2>1 DEF Laid, Linked
        <5>2. ~(\A j \in B : j <= c)
          BY <2>1, <3>2
        <5>3. PICK j \in B : c < j /\ x = s[j] /\ \A d \in B : d <= c \/ j <= d
          BY Zenon, <5>1, <5>2 DEF Points
        <5>4. j <= a + 1 /\ j \in 1 .. k
          BY <1>b, <2>1, <3>2, <5>3
        <5>5. j = a + 1
          BY <2>1, <5>3, <5>4
        <5> QED BY Zenon, <5>3, <5>5
      <4>2. next = <<s[a + 1], s[a + 1]>>
        BY Zenon, <2>4, <3>2, <4>1 DEF Onward
      <4>3. InBin(B, a + 1, a + 1)
        BY <3>2 DEF InBin
      <4>4. F[m][<<s[a + 1], s[a + 1]>>] = SubSeq(s, a + 1, k)
        BY Zenon, <2>m, <3>0, <4>3 DEF Rest
      <4> QED BY Zenon, <2>3, <2>5, <4>2, <4>4
    <3> QED BY Zenon, <3>1, <3>2
  <2>7. CASE a = k
    <3>1. l.nextBin[s[c]] = NULL
      <4> DEFINE x == l.nextBin[s[c]]
      <4>1. Points(x, s, B, c)
        BY Zenon, <2>1 DEF Laid, Linked
      <4>2. ~ \E j \in B : c < j
        BY <1>b, <2>1, <2>7
      <4> QED BY Zenon, <4>1, <4>2 DEF Points
    <3>2. next = <<NULL, NULL>>
      BY <2>4, <2>7, <3>1 DEF Onward
    <3>3. SubSeq(s, a + 1, k) = <<>>
      <4>1. k < a + 1 /\ a + 1 \in Int /\ k \in Int
        BY <2>7
      <4> QED BY Zenon, <4>1, SubSeqEmpty
    <3> HIDE DEF next
    <3>4. F[m][next] = <<>>
      BY Zenon, <1>0, <2>m, <3>2
    <3> QED BY Zenon, <2>3, <2>5, <3>3, <3>4
  <2>8. a < k \/ a = k
    OBVIOUS
  <2> HIDE DEF B
  <2> QED BY Zenon, <2>6, <2>7, <2>8
<1>3. T = Nat
  <2> HIDE DEF T
  <2>1. T \in SUBSET Nat
    BY Zenon DEF T
  <2> QED BY Zenon, <1>1, <1>2, <2>1, Induction
<1> HIDE DEF B
<1>4. Rest(F, B, s, k, n)
  BY Zenon, <1>3
<1> QED BY Zenon, <1>4 DEF F, B

\* The contents of lists that are laid out are the queue.
LEMMA ContentsLaid ==
  ASSUME NEW l \in Lists, NEW w, NEW s \in Seq(Events), Queue(w, s, Len(s)), Laid(l, w, s, Len(s))
  PROVE  Contents(l) = s
<1> DEFINE k == Len(s)
           n == Cardinality(Events)
<1>1. n \in Nat /\ k <= n /\ k \in Nat
  BY QueueFits
<1> HIDE DEF n
<1>2. CASE k = 0
  <2>1. l.head = NULL /\ s = <<>>
    BY <1>1, <1>2, HeadLaid
  <2>2. visit(l)[n][<<NULL, NULL>>] = <<>>
    <3>1. <<NULL, NULL>> \in Pointers \X Pointers
      BY Zenon DEF Pointers
    <3>2. CASE n = 0
      BY Zenon, <3>1, <3>2, VisitSteps DEF Nothing
    <3>3. CASE n # 0
      <4>1. n - 1 \in Nat /\ (n - 1) + 1 = n
        BY <1>1, <3>3
      <4>2. visit(l)[(n - 1) + 1] = Step(l, visit(l)[n - 1])
        BY Zenon, <4>1, VisitSteps
      <4>3. visit(l)[n] = Step(l, visit(l)[n - 1])
        BY Zenon, <4>1, <4>2
      <4> QED BY Zenon, <3>1, <4>3 DEF Step
    <3> QED BY Zenon, <3>2, <3>3
  <2> QED BY Zenon, <2>1, <2>2 DEF Contents, n
<1>3. CASE k # 0
  <2>1. l.head = s[1]
    BY Zenon, <1>1, <1>3, HeadLaid
  <2>2. 1 \in 1 .. k /\ k - 1 + 1 <= n
    BY <1>1, <1>3
  <2>3. InBin(Tops(w, s, k), 1, 1)
    BY <1>1, <1>3 DEF InBin, Tops
  <2>4. visit(l)[n][<<s[1], s[1]>>] = SubSeq(s, 1, k)
    <3> HIDE DEF k
    <3>1. k = Len(s) /\ Queue(w, s, k) /\ Laid(l, w, s, k)
      BY Zenon DEF k
    <3>2. Rest(visit(l), Tops(w, s, k), s, k, n)
      BY Zenon, <1>1, <3>1, VisitsRest
    <3> QED BY Zenon, <2>2, <2>3, <3>2 DEF Rest
  <2>5. SubSeq(s, 1, k) = s
    BY Zenon, SubSeqFull
  <2> QED BY Zenon, <2>1, <2>4, <2>5 DEF Contents, n
<1> QED BY Zenon, <1>2, <1>3

-----------------------------------------------------------------------------
(* The operations, on whole sequences.                                     *)

\* The lists l hold the queue s, the events being due at w.
Holds(l, w, s) ==
  /\ l \in Lists /\ w \in [Events -> Int] /\ s \in Seq(Events)
  /\ Queue(w, s, Len(s)) /\ Laid(l, w, s, Len(s))

\* A visit yields the queue that the lists hold.
LEMMA HeldContents ==
  ASSUME NEW l, NEW w, NEW s, Holds(l, w, s)
  PROVE  Contents(l) = s
BY Zenon, ContentsLaid DEF Holds

\* The head pointer is the first event, or NULL.
LEMMA HeldHead ==
  ASSUME NEW l, NEW w, NEW s, Holds(l, w, s)
  PROVE  /\ l.head # NULL <=> s # <<>>
         /\ s # <<>> => l.head = Head(s) /\ Head(s) \in Events
<1> DEFINE k == Len(s)
<1>1. k \in Nat /\ (k = 0 <=> s = <<>>) /\ (s # <<>> => Head(s) = s[1])
  BY DEF Holds
<1>2. IF k = 0 THEN l.head = NULL ELSE l.head = s[1] /\ s[1] \in Events /\ s[1] # NULL
  BY Zenon, <1>1, HeadLaid DEF Holds
<1> QED BY Zenon, <1>1, <1>2

\* insert() puts the event where its walk stops.
LEMMA HeldInsert ==
  ASSUME NEW l, NEW w, NEW s, Holds(l, w, s), NEW e \in Events, \A i \in 1 .. Len(s) : s[i] # e,
         NEW n \in 0 .. Len(s), \A i \in 1 .. n : Less(w, s[i], e),
         n < Len(s) => ~Less(w, s[n + 1], e),
         NEW t \in Seq(Events), Len(t) = Len(s) + 1, Queue(w, t, Len(t)),
         \A j \in 1 .. Len(s) + 1 :
           t[j] = IF j < n + 1 THEN s[j] ELSE IF j = n + 1 THEN e ELSE s[j - 1]
  PROVE  Holds(insert(l, w, e), w, t)
<1>1. PICK k \in Nat : k = Len(s)
  BY DEF Holds
<1>2. l \in Lists /\ w \in [Events -> Int] /\ Queue(w, s, k) /\ Laid(l, w, s, k) /\ n \in 0 .. k
  BY Zenon, <1>1 DEF Holds
<1>3. \A i \in 1 .. k : s[i] # e
  BY Zenon, <1>1
<1>4. StopsAt(w, s, k, e, n)
  <2>1. \A i \in n + 1 .. k : ~Less(w, s[i], e)
    <3> SUFFICES ASSUME NEW i \in n + 1 .. k PROVE ~Less(w, s[i], e)
      BY Zenon
    <3>1. n + 1 \in 1 .. k /\ i \in 1 .. k /\ n < k
      BY <1>2
    <3>2. ~Less(w, s[n + 1], e) /\ s[i] \in Events /\ s[n + 1] \in Events
      BY Zenon, <1>1, <1>2, <3>1 DEF Queue
    <3>3. ~Less(w, s[i], s[n + 1])
      <4>1. CASE i = n + 1
        BY Zenon, <1>2, <3>2, <4>1, LessOrder
      <4>2. CASE n + 1 < i
        BY Zenon, <1>2, <3>1, <4>2 DEF Queue
      <4> QED BY <1>2, <4>1, <4>2
    <3> QED BY Zenon, <1>2, <3>2, <3>3, LessOrder
  <2> QED BY Zenon, <2>1 DEF StopsAt
<1>5. Spread(s, k, n, e, t)
  <2>1. \A i \in 1 .. k : t[Up(n, i)] = s[i]
    <3> SUFFICES ASSUME NEW i \in 1 .. k PROVE t[Up(n, i)] = s[i]
      BY Zenon
    <3>1. CASE i <= n
      BY <1>1, <1>2, <3>1 DEF Up
    <3>2. CASE ~(i <= n)
      <4>1. i + 1 \in 1 .. Len(s) + 1 /\ ~(i + 1 < n + 1) /\ i + 1 # n + 1 /\ (i + 1) - 1 = i
        BY <1>1, <1>2, <3>2
      <4> QED BY Zenon, <3>2, <4>1 DEF Up
    <3> QED BY Zenon, <3>1, <3>2
  <2>2. n + 1 \in 1 .. Len(s) + 1
    BY <1>1, <1>2
  <2> QED BY <2>1, <2>2 DEF Spread
<1>6. insert(l, w, e) \in Lists /\ Laid(insert(l, w, e), w, t, k + 1)
  BY Zenon, <1>2, <1>3, <1>4, <1>5, InsertLaid
<1> QED BY Zenon, <1>1, <1>2, <1>6 DEF Holds

\* remove() finds the event and takes it out.
LEMMA HeldRemove ==
  ASSUME NEW l, NEW w, NEW s, Holds(l, w, s), NEW m \in 1 .. Len(s),
         NEW t \in Seq(Events), Len(t) = Len(s) - 1, Queue(w, t, Len(t)),
         \A j \in 1 .. Len(s) - 1 : t[j] = IF j < m THEN s[j] ELSE s[j + 1]
  PROVE  Holds(remove(l, w, s[m]), w, t) /\ findable(l, w, s[m])
<1>1. PICK k \in Nat : k + 1 = Len(s)
  <2>1. Len(s) \in Nat
    BY DEF Holds
  <2>2. Len(s) - 1 \in Nat /\ (Len(s) - 1) + 1 = Len(s)
    BY <2>1
  <2> QED BY Zenon, <2>2
<1>2. l \in Lists /\ w \in [Events -> Int] /\ Queue(w, s, k + 1) /\ Laid(l, w, s, k + 1)
  BY Zenon, <1>1 DEF Holds
<1>3. PICK n \in 0 .. k : n + 1 = m
  <2>1. m - 1 \in 0 .. k /\ (m - 1) + 1 = m
    BY <1>1
  <2> QED BY Zenon, <2>1
<1>4. Spread(t, k, n, s[m], s)
  <2>1. \A i \in 1 .. k : s[Up(n, i)] = t[i]
    <3> SUFFICES ASSUME NEW i \in 1 .. k PROVE s[Up(n, i)] = t[i]
      BY Zenon
    <3>1. i \in 1 .. Len(s) - 1 /\ (i <= n <=> i < m)
      BY <1>1, <1>3
    <3> QED BY Zenon, <3>1 DEF Up
  <2> QED BY Zenon, <1>3, <2>1 DEF Spread
<1> DEFINE e == s[m]
<1>5. /\ remove(l, w, e) \in Lists
      /\ Laid(remove(l, w, e), w, t, k)
      /\ findable(l, w, e)
  <2> HIDE DEF e
  <2>1. Spread(t, k, n, e, s)
    BY Zenon, <1>4 DEF e
  <2> QED BY Zenon, <1>2, <2>1, RemoveLaid
<1>6. Len(t) = k
  BY <1>1
<1> QED BY Zenon, <1>2, <1>5, <1>6 DEF Holds

\* serviceOne() takes the first event off.
LEMMA HeldPop ==
  ASSUME NEW l, NEW w, NEW s, Holds(l, w, s), s # <<>>
  PROVE  Holds(popHead(l), w, Tail(s))
<1> DEFINE k == Len(s)
           t == Tail(s)
<1>1. k \in Nat /\ 1 \in 1 .. k /\ s \in Seq(Events) /\ Queue(w, s, k) /\ l \in Lists
  BY DEF Holds
<1>2. t \in Seq(Events) /\ Len(t) = k - 1 /\ \A j \in 1 .. k - 1 : t[j] = s[j + 1]
  BY <1>1
<1>3. l.head = s[1] /\ s[1] \in Events
  BY <1>1, HeldHead
<1> HIDE DEF k, t
<1>4. \A j \in 1 .. k - 1 : j + 1 \in 1 .. k
  BY <1>1
<1>5. Queue(w, t, k - 1)
  BY <1>1, <1>2, <1>4 DEF Queue
<1>6. \A j \in 1 .. k - 1 : t[j] = IF j < 1 THEN s[j] ELSE s[j + 1]
  BY <1>2
<1>7. Holds(remove(l, w, s[1]), w, t)
  BY Zenon, <1>1, <1>2, <1>5, <1>6, HeldRemove DEF k
<1>8. popHead(l) = remove(l, w, s[1])
  BY Zenon, <1>1, <1>3, PopRemoves
<1> QED BY Zenon, <1>7, <1>8 DEF t

\* The time of an event that is not queued, and its stale pointers, do not matter.
LEMMA HeldFrame ==
  ASSUME NEW l, NEW w, NEW s, Holds(l, w, s), NEW v \in [Events -> Int], NEW r \in Lists,
         r.head = l.head,
         \A i \in 1 .. Len(s) : /\ v[s[i]] = w[s[i]]
                                /\ r.nextBin[s[i]] = l.nextBin[s[i]]
                                /\ r.nextInBin[s[i]] = l.nextInBin[s[i]]
  PROVE  Holds(r, v, s)
<1>1. PICK k \in Nat : k = Len(s)
  BY DEF Holds
<1>2. Queue(w, s, k) /\ Laid(l, w, s, k)
  BY Zenon, <1>1 DEF Holds
<1>3. \A i, j \in 1 .. k : Less(v, s[i], s[j]) <=> Less(w, s[i], s[j])
  BY Zenon, <1>1 DEF Less
<1>4. Queue(v, s, k)
  BY Zenon, <1>2, <1>3 DEF Queue
<1>5. Tops(v, s, k) = Tops(w, s, k)
  <2>1. \A i \in 1 .. k : i # 1 => i - 1 \in 1 .. k
    OBVIOUS
  <2> QED BY Zenon, <1>3, <2>1 DEF Tops
<1>6. Laid(r, v, s, k)
  <2> DEFINE B == Tops(w, s, k)
  <2>1. /\ B \subseteq 1 .. k /\ (k > 0 => 1 \in B) /\ Stacked(l.nextInBin, s, k, B)
        /\ Points(l.head, s, B, 0) /\ \A i \in B : Points(l.nextBin[s[i]], s, B, i)
    BY Zenon, <1>2 DEF Laid, Linked
  <2> HIDE DEF B
  <2>2. Stacked(r.nextInBin, s, k, B)
    BY Zenon, <1>1, <2>1 DEF Stacked
  <2>3. \A i \in B : Points(r.nextBin[s[i]], s, B, i)
    BY Zenon, <1>1, <2>1
  <2>4. Linked(r.head, r.nextBin, r.nextInBin, s, k, B)
    BY Zenon, <2>1, <2>2, <2>3 DEF Linked
  <2> QED BY Zenon, <1>5, <2>4 DEF Laid, B
<1> QED BY Zenon, <1>1, <1>4, <1>6 DEF Holds

\* The time of an event that is not queued may change (setWhen() of schedule()).
LEMMA HeldWhen ==
  ASSUME NEW l, NEW w, NEW s, Holds(l, w, s), NEW e \in Events, \A i \in 1 .. Len(s) : s[i] # e,
         NEW x \in Int
  PROVE  Holds(l, [w EXCEPT ![e] = x], s)
<1> DEFINE v == [w EXCEPT ![e] = x]
<1>1. l \in Lists /\ w \in [Events -> Int] /\ v \in [Events -> Int]
  BY Zenon DEF Holds
<1>2. \A i \in 1 .. Len(s) : s[i] \in Events
  BY DEF Holds
<1>3. \A i \in 1 .. Len(s) : v[s[i]] = w[s[i]]
  BY Zenon, <1>1, <1>2
<1> HIDE DEF v
<1>4. Holds(l, v, s)
  BY Zenon, <1>1, <1>3, HeldFrame
<1> QED BY Zenon, <1>4 DEF v

\* The constructor of an Event clears its pointers.
LEMMA HeldClear ==
  ASSUME NEW l, NEW w, NEW s, Holds(l, w, s), NEW e \in Events, \A i \in 1 .. Len(s) : s[i] # e
  PROVE  Holds([l EXCEPT !.nextBin[e] = NULL, !.nextInBin[e] = NULL], w, s)
<1> DEFINE r == [l EXCEPT !.nextBin[e] = NULL, !.nextInBin[e] = NULL]
<1>1. l \in Lists /\ w \in [Events -> Int]
  BY Zenon DEF Holds
<1>2. \A i \in 1 .. Len(s) : s[i] \in Events
  BY DEF Holds
<1>3. /\ r \in Lists /\ r.head = l.head
      /\ r.nextBin = [l.nextBin EXCEPT ![e] = NULL]
      /\ r.nextInBin = [l.nextInBin EXCEPT ![e] = NULL]
  BY Zenon, <1>1 DEF Lists, Pointers
<1>4. l.nextBin \in [Events -> Pointers] /\ l.nextInBin \in [Events -> Pointers]
  BY Zenon, <1>1 DEF Lists
<1> HIDE DEF r
<1>5. \A i \in 1 .. Len(s) : /\ r.nextBin[s[i]] = l.nextBin[s[i]]
                             /\ r.nextInBin[s[i]] = l.nextInBin[s[i]]
  BY Zenon, <1>2, <1>3, <1>4
<1>6. r \in Lists /\ r.head = l.head
  BY Zenon, <1>3
<1>7. Holds(r, w, s)
  BY <1>1, <1>5, <1>6, HeldFrame
<1> QED BY Zenon, <1>7 DEF r

\* The queue is empty at first.
LEMMA HeldInit == Init => Holds(list, when, <<>>)
<1> SUFFICES ASSUME Init PROVE Holds(list, when, <<>>)
  BY Zenon
<1>1. /\ list \in Lists /\ list.head = NULL /\ when \in [Events -> Int]
  BY DEF Init, Lists, Pointers
<1>2. <<>> \in Seq(Events) /\ Len(<<>>) = 0
  OBVIOUS
<1>3. Queue(when, <<>>, 0)
  BY DEF Queue
<1>4. Laid(list, when, <<>>, 0)
  BY <1>1 DEF Laid, Linked, Tops, Points, Stacked
<1> QED BY Zenon, <1>1, <1>2, <1>3, <1>4 DEF Holds

AP == INSTANCE EventListProofs WITH q <- Contents(list)

\* The assumptions of EventList.
LEMMA Assumed ==
  /\ NULL \notin Events
  /\ Priority \in [Events -> Int]
  /\ Heap \subseteq Events /\ AutoDelete \subseteq Heap /\ ExitEvents \subseteq Events
  /\ MaxTick \in Nat
BY Zenon, EventsAssumption, PriorityAssumption, FlagsAssumption, MaxTickAssumption

-----------------------------------------------------------------------------
(* The operations of the two modules on sequences.                         *)

\* What EventList says of its queue makes it a queue here.
LEMMA QueueIs ==
  ASSUME NEW s \in Seq(Events), NEW w, AP!Ordered(s, w), AP!NoRepeat(s)
  PROVE  Queue(w, s, Len(s))
BY DEF Queue, AP!Ordered, AP!NoRepeat, AP!Less, Less

\* And the other way round.
LEMMA IsQueue ==
  ASSUME NEW l, NEW s, NEW w, Holds(l, w, s)
  PROVE  AP!Ordered(s, w) /\ AP!NoRepeat(s)
BY Zenon DEF Holds, Queue, AP!Ordered, AP!NoRepeat, AP!Less, Less

\* insert() does to the lists what Insert does to the queue.
LEMMA InsertMatches ==
  ASSUME NEW l, NEW w, NEW s, Holds(l, w, s), NEW e \in Events, ~AP!Queued(s, e)
  PROVE  Holds(insert(l, w, e), w, AP!Insert(s, w, e))
<1>1. s \in Seq(Events) /\ w \in [Events -> Int] /\ Len(s) \in Nat
  BY DEF Holds
<1>2. AP!Ordered(s, w) /\ AP!NoRepeat(s)
  BY Zenon, IsQueue
<1> DEFINE t == AP!Insert(s, w, e)
           n == AP!Ahead(s, w, e)
<1>3. t \in Seq(Events) /\ AP!Ordered(t, w) /\ AP!NoRepeat(t)
  BY Zenon, <1>1, <1>2, Assumed, AP!InsertKeepsOrder
<1>4. n \in 0 .. Len(s) /\ AP!StopsAt(s, Len(s), w, e, n)
  BY Zenon, <1>1, Assumed, AP!AheadExists
<1>5. t = AP!InsertAt(s, n + 1, e)
  BY Zenon DEF AP!Insert
<1> HIDE DEF t, n
<1>6. n + 1 \in 1 .. Len(s) + 1
  BY <1>1, <1>4
<1>7. Len(t) = Len(s) + 1 /\ AP!Inserted(s, Len(s), n, e, t)
  <2>1. PICK i : i = n + 1
    BY Zenon
  <2>2. i \in 1 .. Len(s) + 1
    BY Zenon, <1>6, <2>1
  <2>3. AP!InsertedIn(Events, s, n, e, AP!InsertAt(s, i, e))
    BY Zenon, <1>1, <1>4, <2>1, <2>2, Assumed, AP!InsertAtInserts
  <2> QED BY Zenon, <1>5, <2>1, <2>3 DEF AP!InsertedIn
<1>8. Queue(w, t, Len(t))
  BY Zenon, <1>3, QueueIs
<1>9. /\ \A i \in 1 .. n : Less(w, s[i], e)
      /\ n < Len(s) => ~Less(w, s[n + 1], e)
  BY Zenon, <1>4 DEF AP!StopsAt, AP!Less, Less
<1>10. \A j \in 1 .. Len(s) + 1 :
         t[j] = IF j < n + 1 THEN s[j] ELSE IF j = n + 1 THEN e ELSE s[j - 1]
  BY Zenon, <1>7 DEF AP!Inserted
<1>11. \A i \in 1 .. Len(s) : s[i] # e
  BY Zenon DEF AP!Queued
<1>12. Holds(insert(l, w, e), w, t)
  BY Zenon, <1>3, <1>4, <1>7, <1>8, <1>9, <1>10, <1>11, HeldInsert
<1> QED BY Zenon, <1>12 DEF t

\* remove() does to the lists what Dequeue does to the queue.
LEMMA RemoveMatches ==
  ASSUME NEW l, NEW w, NEW s, Holds(l, w, s), NEW e, AP!Queued(s, e)
  PROVE  Holds(remove(l, w, e), w, AP!Dequeue(s, e)) /\ findable(l, w, e)
<1>1. s \in Seq(Events) /\ w \in [Events -> Int] /\ Len(s) \in Nat
  BY DEF Holds
<1>2. AP!Ordered(s, w) /\ AP!NoRepeat(s)
  BY Zenon, IsQueue
<1> DEFINE t == AP!Dequeue(s, e)
           m == AP!Index(s, e)
<1>3. t \in Seq(Events) /\ AP!Ordered(t, w) /\ AP!NoRepeat(t)
  BY Zenon, <1>1, <1>2, Assumed, AP!DequeueKeepsOrder
<1>4. m \in 1 .. Len(s) /\ s[m] = e
  BY Zenon DEF AP!Index, AP!Queued
<1>5. t = AP!RemoveAt(s, m)
  BY Zenon DEF AP!Dequeue
<1> HIDE DEF t, m
<1>6. Len(t) = Len(s) - 1 /\ AP!Removed(s, Len(s), m, t)
  BY Zenon, <1>1, <1>4, <1>5, Assumed, AP!RemoveAtShifts
<1>7. Queue(w, t, Len(t))
  BY Zenon, <1>3, QueueIs
<1>8. \A j \in 1 .. Len(s) - 1 : t[j] = IF j < m THEN s[j] ELSE s[j + 1]
  BY Zenon, <1>6 DEF AP!Removed
<1>9. Holds(remove(l, w, s[m]), w, t) /\ findable(l, w, s[m])
  BY Zenon, <1>3, <1>4, <1>6, <1>7, <1>8, HeldRemove
<1> QED BY Zenon, <1>4, <1>9 DEF t

-----------------------------------------------------------------------------
(* The steps.                                                              *)

\* The invariant: EventList's, and the pointers lay out the events that are visited.
Sound == AP!IInv /\ Holds(list, when, Contents(list))

\* What the invariant says of the variables.
LEMMA Known ==
  ASSUME Sound
  PROVE  /\ Holds(list, when, Contents(list))
         /\ live \subseteq Events /\ scheduled \subseteq live /\ curTick \in Ticks
         /\ when \in [Events -> Ticks] /\ Ticks \subseteq Int
         /\ \A e \in Events : e \in scheduled <=> AP!Queued(Contents(list), e)
<1>1. AP!TypeOK /\ AP!FlagMatchesQueue /\ AP!NoUseAfterDelete
  BY Zenon DEF Sound, AP!IInv
<1>2. AP!Ticks = Ticks
  BY Zenon DEF AP!Ticks, Ticks
<1> QED BY <1>1, <1>2, Assumed DEF Sound, AP!TypeOK, AP!FlagMatchesQueue, AP!NoUseAfterDelete, Ticks

\* When the lists after a step hold t, the abstract queue is t.
LEMMA Becomes ==
  ASSUME NEW t, Holds(list', when', t)
  PROVE  Contents(list') = t /\ Holds(list', when', Contents(list'))
<1>1. Contents(list') = t
  BY Zenon, HeldContents
<1> QED BY Zenon, <1>1

\* A new Event is in no list.
LEMMA StepConstruct ==
  ASSUME Sound, NEW e \in Events, Construct(e)
  PROVE  AP!Construct(e) /\ Holds(list', when', Contents(list'))
<1>1. PICK s : s = Contents(list)
  BY Zenon
<1>2. Holds(list, when, s) /\ ~AP!Queued(s, e)
  BY Zenon, <1>1, Known DEF Construct
<1>3. \A i \in 1 .. Len(s) : s[i] # e
  BY Zenon, <1>2 DEF AP!Queued
<1>x. PICK x \in Int : x = 0
  OBVIOUS
<1>4. PICK v : v = [when EXCEPT ![e] = x]
  BY Zenon
<1>5. Holds(list', when', s)
  <2>1. Holds(list, v, s)
    BY Zenon, <1>2, <1>3, <1>4, HeldWhen
  <2>2. PICK r : r = [list EXCEPT !.nextBin[e] = NULL, !.nextInBin[e] = NULL]
    BY Zenon
  <2>3. Holds(r, v, s)
    BY Zenon, <1>3, <2>1, <2>2, HeldClear
  <2>4. when' = v /\ list' = r
    BY Zenon, <1>x, <1>4, <2>2 DEF Construct
  <2> QED BY Zenon, <2>3, <2>4
<1>6. Contents(list') = s /\ Holds(list', when', Contents(list'))
  BY Zenon, <1>5, Becomes
<1> QED BY Zenon, <1>1, <1>6 DEF Construct, AP!Construct

\* schedule() inserts the event.
LEMMA StepSchedule ==
  ASSUME Sound, NEW e \in Events, NEW w \in Ticks, schedule(e, w)
  PROVE  AP!Schedule(e, w) /\ Holds(list', when', Contents(list'))
<1>1. PICK s : s = Contents(list)
  BY Zenon
<1>2. Holds(list, when, s) /\ ~AP!Queued(s, e) /\ w \in Int
  BY Zenon, <1>1, Known DEF schedule
<1>3. \A i \in 1 .. Len(s) : s[i] # e
  BY Zenon, <1>2 DEF AP!Queued
<1>4. PICK v : v = [when EXCEPT ![e] = w]
  BY Zenon
<1>5. Holds(list, v, s)
  BY Zenon, <1>2, <1>3, <1>4, HeldWhen
<1>6. Holds(insert(list, v, e), v, AP!Insert(s, v, e))
  BY Zenon, <1>2, <1>5, InsertMatches
<1>7. when' = v /\ list' = insert(list, v, e)
  BY Zenon, <1>4 DEF schedule
<1>8. Contents(list') = AP!Insert(s, v, e) /\ Holds(list', when', Contents(list'))
  BY Zenon, <1>6, <1>7, Becomes
<1>9. AP!Ticks = Ticks
  BY Zenon DEF AP!Ticks, Ticks
<1> QED BY Zenon, <1>1, <1>7, <1>8, <1>9 DEF schedule, AP!Schedule

\* deschedule() removes the event.
LEMMA StepDeschedule ==
  ASSUME Sound, NEW e \in Events, deschedule(e)
  PROVE  AP!Deschedule(e) /\ Holds(list', when', Contents(list'))
<1>1. PICK s : s = Contents(list)
  BY Zenon
<1>2. Holds(list, when, s) /\ AP!Queued(s, e)
  BY Zenon, <1>1, Known DEF deschedule
<1>3. Holds(remove(list, when, e), when, AP!Dequeue(s, e))
  BY Zenon, <1>2, RemoveMatches
<1>4. Holds(list', when', AP!Dequeue(s, e))
  BY Zenon, <1>3 DEF deschedule
<1>5. Contents(list') = AP!Dequeue(s, e) /\ Holds(list', when', Contents(list'))
  BY Zenon, <1>4, Becomes
<1> QED BY Zenon, <1>1, <1>5 DEF deschedule, AP!Deschedule

\* reschedule() removes the event when it is scheduled, and inserts it.
LEMMA StepReschedule ==
  ASSUME Sound, NEW e \in Events, NEW w \in Ticks, NEW always, reschedule(e, w, always)
  PROVE  AP!Reschedule(e, w, always) /\ Holds(list', when', Contents(list'))
<1>1. PICK s : s = Contents(list)
  BY Zenon
<1>2. Holds(list, when, s) /\ w \in Int /\ (e \in scheduled <=> AP!Queued(s, e))
  BY Zenon, <1>1, Known
<1>3. PICK l, r : /\ l = IF e \in scheduled THEN remove(list, when, e) ELSE list
                  /\ r = IF e \in scheduled THEN AP!Dequeue(s, e) ELSE s
  BY Zenon
<1>4. Holds(l, when, r) /\ ~AP!Queued(r, e)
  <2>1. CASE e \in scheduled
    <3>1. Holds(l, when, r)
      BY Zenon, <1>2, <1>3, <2>1, RemoveMatches
    <3>2. s \in Seq(Events) /\ AP!Ordered(s, when) /\ AP!NoRepeat(s)
      BY Zenon, <1>2, IsQueue DEF Holds
    <3>3. ~AP!Queued(AP!Dequeue(s, e), e)
      BY Zenon, <1>2, <2>1, <3>2, Assumed, AP!DequeueKeepsOrder
    <3> QED BY Zenon, <1>3, <2>1, <3>1, <3>3
  <2>2. CASE e \notin scheduled
    BY Zenon, <1>2, <1>3, <2>2
  <2> QED BY Zenon, <2>1, <2>2
<1>5. \A i \in 1 .. Len(r) : r[i] # e
  BY Zenon, <1>4 DEF AP!Queued
<1>6. PICK v : v = [when EXCEPT ![e] = w]
  BY Zenon
<1>7. Holds(l, v, r)
  BY Zenon, <1>2, <1>4, <1>5, <1>6, HeldWhen
<1>8. Holds(insert(l, v, e), v, AP!Insert(r, v, e))
  BY Zenon, <1>4, <1>7, InsertMatches
<1>9. when' = v /\ list' = insert(l, v, e)
  BY Zenon, <1>3, <1>6 DEF reschedule
<1>10. Contents(list') = AP!Insert(r, v, e) /\ Holds(list', when', Contents(list'))
  BY Zenon, <1>8, <1>9, Becomes
<1>11. AP!Ticks = Ticks
  BY Zenon DEF AP!Ticks, Ticks
<1> QED BY Zenon, <1>1, <1>3, <1>9, <1>10, <1>11 DEF reschedule, AP!Reschedule

\* serviceOne() takes the head, squashed or not.
LEMMA StepServiceOne ==
  ASSUME Sound, serviceOne
  PROVE  (AP!ServiceOne \/ AP!ServiceSquashed) /\ Holds(list', when', Contents(list'))
<1>1. PICK s : s = Contents(list)
  BY Zenon
<1>2. Holds(list, when, s)
  BY Zenon, <1>1, Known
<1>3. s # <<>> /\ list.head = Head(s)
  BY Zenon, <1>2, HeldHead DEF serviceOne
<1>4. Holds(list', when', Tail(s))
  BY Zenon, <1>2, <1>3, HeldPop DEF serviceOne
<1>5. Contents(list') = Tail(s) /\ Holds(list', when', Contents(list'))
  BY Zenon, <1>4, Becomes
<1>6. AP!Due
  BY Zenon, <1>1, <1>3 DEF serviceOne, AP!Due
<1> QED BY Zenon, <1>1, <1>3, <1>5, <1>6 DEF serviceOne, AP!ServiceOne, AP!ServiceSquashed

\* serviceEvents() returns when the head is not due.
LEMMA StepServiceEventsReturns ==
  ASSUME Sound, serviceEventsReturns
  PROVE  AP!ServiceEventsDone
<1>1. PICK s : s = Contents(list)
  BY Zenon
<1>2. Holds(list, when, s)
  BY Zenon, <1>1, Known
<1>3. s # <<>> => list.head # NULL /\ list.head = Head(s)
  BY Zenon, <1>2, HeldHead
<1> QED BY Zenon, <1>1, <1>3 DEF serviceEventsReturns, AP!ServiceEventsDone

\* Every step of the linked lists is one of the abstract queue, and leaves the
\* pointers laid out.
LEMMA StepMatches ==
  ASSUME Sound, [Next]_vars
  PROVE  [AP!Next]_(AP!vars) /\ Holds(list', when', Contents(list'))
<1>0. Holds(list, when, Contents(list)) /\ scheduled \subseteq Events /\ AP!Ticks = Ticks
  BY Zenon, Known DEF AP!Ticks, Ticks
<1>1. ASSUME NEW e \in Events, Construct(e) PROVE AP!Next /\ Holds(list', when', Contents(list'))
  BY Zenon, <1>1, StepConstruct DEF AP!Next
<1>2. ASSUME NEW e \in Events, Destroy(e) PROVE AP!Next /\ Holds(list', when', Contents(list'))
  <2>1. AP!Destroy(e)
    BY Zenon, <1>2 DEF Destroy, AP!Destroy
  <2> QED BY Zenon, <1>0, <1>2, <2>1 DEF AP!Next, Destroy
<1>3. ASSUME NEW e \in Events, deschedule(e) PROVE AP!Next /\ Holds(list', when', Contents(list'))
  BY Zenon, <1>3, StepDeschedule DEF AP!Next
<1>4. ASSUME NEW e \in Events, squash(e) PROVE AP!Next /\ Holds(list', when', Contents(list'))
  <2>1. AP!Squash(e)
    BY Zenon, <1>4 DEF squash, AP!Squash
  <2> QED BY Zenon, <1>0, <1>4, <2>1 DEF AP!Next, squash
<1>5. ASSUME NEW e \in Events, NEW w \in Ticks, schedule(e, w)
      PROVE  AP!Next /\ Holds(list', when', Contents(list'))
  BY Zenon, <1>0, <1>5, StepSchedule DEF AP!Next
<1>6. ASSUME NEW e \in Events, NEW w \in Ticks, reschedule(e, w, e \notin scheduled)
      PROVE  AP!Next /\ Holds(list', when', Contents(list'))
  <2>1. PICK always \in BOOLEAN : always = (e \notin scheduled)
    BY Zenon
  <2>2. reschedule(e, w, always)
    BY Zenon, <1>6, <2>1
  <2> QED BY Zenon, <1>0, <2>2, StepReschedule DEF AP!Next
<1>7. ASSUME serviceOne PROVE AP!Next /\ Holds(list', when', Contents(list'))
  BY Zenon, <1>7, StepServiceOne DEF AP!Next
<1>8. ASSUME serviceOneReturns PROVE AP!Next /\ Holds(list', when', Contents(list'))
  <2>1. AP!ServiceDone
    BY Zenon, <1>8 DEF serviceOneReturns, AP!ServiceDone
  <2> QED BY Zenon, <1>0, <1>8, <2>1 DEF AP!Next, serviceOneReturns
<1>9. ASSUME NEW w \in Ticks, serviceEvents(w) PROVE AP!Next /\ Holds(list', when', Contents(list'))
  <2>1. AP!ServiceEvents(w)
    BY Zenon, <1>0, <1>9 DEF serviceEvents, AP!ServiceEvents
  <2> QED BY Zenon, <1>0, <1>9, <2>1 DEF AP!Next, serviceEvents
<1>10. ASSUME serviceEventsReturns PROVE AP!Next /\ Holds(list', when', Contents(list'))
  <2>1. AP!ServiceEventsDone
    BY Zenon, <1>10, StepServiceEventsReturns
  <2> QED BY Zenon, <1>0, <1>10, <2>1 DEF AP!Next, serviceEventsReturns
<1>11. ASSUME UNCHANGED vars PROVE UNCHANGED AP!vars /\ Holds(list', when', Contents(list'))
  BY Zenon, <1>0, <1>11 DEF vars, AP!vars
<1> QED BY Zenon, <1>1, <1>2, <1>3, <1>4, <1>5, <1>6, <1>7, <1>8, <1>9, <1>10, <1>11 DEF Next

\* The empty lists are the empty queue.
LEMMA InitSound == Init => AP!Init /\ Sound
<1> SUFFICES ASSUME Init PROVE AP!Init /\ Sound
  BY Zenon
<1>1. Holds(list, when, <<>>)
  BY Zenon, HeldInit
<1>2. Contents(list) = <<>>
  BY Zenon, <1>1, HeldContents
<1>3. AP!Init
  BY Zenon, <1>2 DEF Init, AP!Init
<1>4. AP!IInv
  BY Zenon, <1>3, Assumed, AP!InitIInv
<1> QED BY Zenon, <1>1, <1>2, <1>3, <1>4 DEF Sound

\* Every step keeps the invariant.
LEMMA NextSound == Sound /\ [Next]_vars => Sound'
<1> SUFFICES ASSUME Sound, [Next]_vars PROVE Sound'
  BY Zenon
<1>1. [AP!Next]_(AP!vars) /\ Holds(list', when', Contents(list'))
  BY Zenon, StepMatches
<1>2. AP!IInv'
  BY Zenon, <1>1, Assumed, AP!NextIInv DEF Sound
<1> QED BY Zenon, <1>1, <1>2 DEF Sound

\* The invariant holds whatever calls are made on the queue of sim/eventq.cc.
THEOREM AlwaysSound == Spec => []Sound
<1>1. Init => Sound
  BY Zenon, InitSound
<1> QED BY <1>1, NextSound, PTL DEF Spec

-----------------------------------------------------------------------------
(* The operators of EventList are the same in both instances.              *)

\* insert and remove.
LEMMA SameOperators ==
  ASSUME NEW s, NEW w, NEW e
  PROVE  AP!Insert(s, w, e) = Abstract!Insert(s, w, e) /\ AP!Dequeue(s, e) = Abstract!Dequeue(s, e)
<1>1. AP!Ahead(s, w, e) = Abstract!Ahead(s, w, e)
  BY Zenon DEF AP!Ahead, Abstract!Ahead, AP!Less, Abstract!Less
<1>2. AP!Index(s, e) = Abstract!Index(s, e)
  BY Zenon DEF AP!Index, Abstract!Index
<1> QED BY Zenon, <1>1, <1>2 DEF AP!Insert, Abstract!Insert, AP!InsertAt, Abstract!InsertAt,
                          AP!Dequeue, Abstract!Dequeue, AP!RemoveAt, Abstract!RemoveAt

\* The initial states.
LEMMA SameInit == AP!Init => Abstract!Init
BY Zenon DEF AP!Init, Abstract!Init

\* The steps.
LEMMA SameNext == [AP!Next]_(AP!vars) => [Abstract!Next]_(Abstract!vars)
<1> SUFFICES ASSUME [AP!Next]_(AP!vars) PROVE [Abstract!Next]_(Abstract!vars)
  BY Zenon
<1>0. AP!Ticks = Abstract!Ticks
  BY Zenon DEF AP!Ticks, Abstract!Ticks
<1>1. ASSUME NEW e \in Events, AP!Construct(e) PROVE Abstract!Construct(e)
  BY Zenon, <1>1 DEF AP!Construct, Abstract!Construct
<1>2. ASSUME NEW e \in Events, AP!Destroy(e) PROVE Abstract!Destroy(e)
  BY Zenon, <1>2 DEF AP!Destroy, Abstract!Destroy
<1>3. ASSUME NEW e \in Events, AP!Deschedule(e) PROVE Abstract!Deschedule(e)
  BY Zenon, <1>3, SameOperators DEF AP!Deschedule, Abstract!Deschedule
<1>4. ASSUME NEW e \in Events, AP!Squash(e) PROVE Abstract!Squash(e)
  BY Zenon, <1>4 DEF AP!Squash, Abstract!Squash
<1>5. ASSUME NEW e \in Events, NEW w, AP!Schedule(e, w) PROVE Abstract!Schedule(e, w)
  BY Zenon, <1>0, <1>5, SameOperators DEF AP!Schedule, Abstract!Schedule
<1>6. ASSUME NEW e \in Events, NEW w, NEW always, AP!Reschedule(e, w, always)
      PROVE  Abstract!Reschedule(e, w, always)
  BY <1>0, <1>6, SameOperators DEF AP!Reschedule, Abstract!Reschedule
<1>7. ASSUME AP!ServiceOne PROVE Abstract!ServiceOne
  BY Zenon, <1>7 DEF AP!ServiceOne, Abstract!ServiceOne, AP!Due, Abstract!Due
<1>8. ASSUME AP!ServiceSquashed PROVE Abstract!ServiceSquashed
  BY Zenon, <1>8 DEF AP!ServiceSquashed, Abstract!ServiceSquashed, AP!Due, Abstract!Due
<1>9. ASSUME AP!ServiceDone PROVE Abstract!ServiceDone
  BY Zenon, <1>9 DEF AP!ServiceDone, Abstract!ServiceDone
<1>10. ASSUME NEW w, AP!ServiceEvents(w) PROVE Abstract!ServiceEvents(w)
  BY Zenon, <1>0, <1>10 DEF AP!ServiceEvents, Abstract!ServiceEvents
<1>11. ASSUME AP!ServiceEventsDone PROVE Abstract!ServiceEventsDone
  BY Zenon, <1>11 DEF AP!ServiceEventsDone, Abstract!ServiceEventsDone
<1>12. ASSUME UNCHANGED AP!vars PROVE UNCHANGED Abstract!vars
  BY Zenon, <1>12 DEF AP!vars, Abstract!vars
<1>13. CASE AP!Next
  BY Zenon, <1>0, <1>1, <1>2, <1>3, <1>4, <1>5, <1>6, <1>7, <1>8, <1>9, <1>10, <1>11, <1>13
     DEF AP!Next, Abstract!Next
<1> QED BY Zenon, <1>12, <1>13

-----------------------------------------------------------------------------
(* Inserting, removing and serving events through the nextBin and nextInBin *)
(* pointers of sim/eventq.cc is inserting, removing and serving them in one *)
(* sequence ordered by tick and priority, last in first out among equals,   *)
(* for every finite set of events and all their priorities.                 *)
THEOREM ListsImplementQueue == Spec => Implements
<1>1. Init => Abstract!Init
  BY Zenon, InitSound, SameInit
<1>2. Sound /\ [Next]_vars => [Abstract!Next]_(Abstract!vars)
  BY Zenon, StepMatches, SameNext
<1> QED BY <1>1, <1>2, AlwaysSound, PTL DEF Spec, Implements, Abstract!Spec

(* remove() never reaches its panic("event not found!"), and no pointer that *)
(* the queue follows leads to a deleted Event.                               *)
THEOREM AlwaysPointersSound == Spec => []PointersSound
<1>1. Sound => PointersSound
  <2> SUFFICES ASSUME Sound PROVE PointersSound
    BY Zenon
  <2>1. PICK s : s = Contents(list)
    BY Zenon
  <2>2. /\ Holds(list, when, s) /\ scheduled \subseteq live /\ live \subseteq Events
        /\ \A e \in Events : e \in scheduled <=> AP!Queued(s, e)
    BY Zenon, <2>1, Known
  <2>3. TypeOK
    <3>1. AP!TypeOK /\ AP!Ticks = Ticks /\ list \in Lists
      BY Zenon, <2>2 DEF Sound, AP!IInv, AP!Ticks, Ticks, Holds
    <3> QED BY Zenon, <3>1 DEF TypeOK, AP!TypeOK, Lists, Pointers
  <2>4. NeverNotFound
    <3> SUFFICES ASSUME NEW e \in scheduled PROVE findable(list, when, e)
      BY Zenon DEF NeverNotFound
    <3>1. AP!Queued(s, e)
      BY Zenon, <2>2
    <3> QED BY Zenon, <2>2, <3>1, RemoveMatches
  <2>5. NoDanglingPointer
    <3> SUFFICES ASSUME NEW i \in 1 .. Len(s) PROVE s[i] \in live
      BY Zenon, <2>1 DEF NoDanglingPointer
    <3>1. s[i] \in Events
      BY <2>2 DEF Holds
    <3>2. AP!Queued(s, s[i])
      BY Zenon DEF AP!Queued
    <3> QED BY Zenon, <2>2, <3>1, <3>2
  <2> QED BY Zenon, <2>3, <2>4, <2>5 DEF PointersSound
<1> QED BY <1>1, AlwaysSound, PTL
=============================================================================

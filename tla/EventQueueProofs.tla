-------------------------- MODULE EventQueueProofs --------------------------
(***************************************************************************)
(* What the pointer operations of sim/eventq.cc do to the queue, for every *)
(* finite set of events; EventQueueRefinesProofs draws the conclusions.    *)
(*                                                                         *)
(* The argument: at any time the pointers lay out the sequence of queued   *)
(* events (Linked), with a bin starting wherever an event is later, or of  *)
(* a larger priority, than the one before it (Tops).  insert(), remove()   *)
(* and serviceOne() keep the layout while they change the sequence as the  *)
(* abstract queue does; what they read they reach from the head, so the    *)
(* pointers that have become stale do not matter.                          *)
(***************************************************************************)
EXTENDS EventQueue, TLAPS, WellFoundedInduction

-----------------------------------------------------------------------------
(* Induction over the naturals, with a set in the place of a predicate.    *)

\* Every set of naturals that is not empty has a least element.
LEMMA Least ==
  ASSUME NEW T \in SUBSET Nat, T # {}
  PROVE  \E n \in T : \A m \in T : n <= m
<1>1. PICK n \in T : \A m \in T : ~(<<m, n>> \in OpToRel(<, Nat))
  BY Zenon, NatLessThanWellFounded, WFMin
<1>2. \A m, k \in Nat : m < k => <<m, k>> \in OpToRel(<, Nat)
  BY Zenon DEF OpToRel
<1>3. \A m \in T : ~(m < n)
  BY Zenon, <1>1, <1>2
<1> QED BY <1>3

\* A set with 0 and the successors of its elements has every natural.
LEMMA Induction ==
  ASSUME NEW T \in SUBSET Nat, 0 \in T, \A n \in T : n + 1 \in T
  PROVE  T = Nat
<1> SUFFICES ASSUME Nat \ T # {} PROVE FALSE
  BY Zenon
<1>1. PICK n \in Nat \ T : \A m \in Nat \ T : n <= m
  BY Zenon, Least
<1>2. n # 0 /\ n - 1 \in Nat /\ n - 1 \notin Nat \ T
  BY <1>1
<1>3. (n - 1) + 1 \in T
  BY Zenon, <1>2
<1> QED BY <1>1, <1>3

-----------------------------------------------------------------------------
(* The walks: a function that is applied to the next element until it      *)
(* stops.                                                                  *)

\* A walk by g that starts at x and stops at y, p being its n steps.
WalkTo(S, stop, g, x, y, n, p) ==
  /\ p \in [0 .. n -> S]
  /\ p[0] = x /\ p[n] = y /\ y \in stop
  /\ \A i \in 0 .. n - 1 : p[i] \notin stop /\ p[i + 1] = g[p[i]]

Ends(S, stop, g, x) == {y \in S : \E n \in Nat : \E p : WalkTo(S, stop, g, x, y, n, p)}

\* A walk that starts where it stops ends there.
LEMMA EndsHere ==
  ASSUME NEW S, NEW stop, NEW g, NEW x \in S, x \in stop
  PROVE  Ends(S, stop, g, x) = {x}
<1>1. x \in Ends(S, stop, g, x)
  <2> DEFINE p == [i \in 0 .. 0 |-> x]
  <2>1. WalkTo(S, stop, g, x, x, 0, p)
    BY DEF WalkTo
  <2> HIDE DEF p
  <2> QED BY Zenon, <2>1 DEF Ends
<1>2. ASSUME NEW y \in Ends(S, stop, g, x) PROVE y = x
  <2>0. PICK n \in Nat : \E p : WalkTo(S, stop, g, x, y, n, p)
    BY Zenon, <1>2 DEF Ends
  <2>1. PICK p : WalkTo(S, stop, g, x, y, n, p)
    BY Zenon, <2>0
  <2>2. n = 0
    <3>1. CASE n # 0
      <4>1. 0 \in 0 .. n - 1
        BY <3>1
      <4> QED BY Zenon, <2>1, <4>1 DEF WalkTo
    <3> QED BY Zenon, <3>1
  <2> QED BY Zenon, <2>1, <2>2 DEF WalkTo
<1> QED BY Zenon, <1>1, <1>2

\* A walk ends where the walk from its second element ends.
LEMMA EndsNext ==
  ASSUME NEW S, NEW stop, NEW g, NEW x \in S, x \notin stop, g[x] \in S
  PROVE  Ends(S, stop, g, x) = Ends(S, stop, g, g[x])
<1>1. ASSUME NEW y \in S, NEW n \in Nat, NEW p, WalkTo(S, stop, g, x, y, n, p)
      PROVE  y \in Ends(S, stop, g, g[x])
  <2> DEFINE r == [i \in 0 .. n - 1 |-> p[i + 1]]
  <2>1. n # 0
    BY Zenon, <1>1 DEF WalkTo
  <2>2. /\ n - 1 \in Nat /\ 0 \in 0 .. n - 1 /\ n - 1 \in 0 .. n - 1 /\ (n - 1) + 1 = n
        /\ \A i \in 0 .. n - 1 : i + 1 \in 0 .. n
        /\ \A i \in 0 .. (n - 1) - 1 : i + 1 \in 0 .. n - 1 /\ i \in 0 .. n - 1
    BY <2>1
  <2>3. r \in [0 .. n - 1 -> S]
    BY Zenon, <1>1, <2>2 DEF WalkTo
  <2>4. r[0] = g[x] /\ r[n - 1] = y
    <3>1. r[0] = p[0 + 1] /\ r[n - 1] = p[(n - 1) + 1]
      BY Zenon, <2>2
    <3> QED BY Zenon, <1>1, <2>2, <3>1 DEF WalkTo
  <2>5. \A i \in 0 .. (n - 1) - 1 : r[i] \notin stop /\ r[i + 1] = g[r[i]]
    <3> SUFFICES ASSUME NEW i \in 0 .. (n - 1) - 1 PROVE r[i] \notin stop /\ r[i + 1] = g[r[i]]
      BY Zenon
    <3>1. r[i] = p[i + 1] /\ r[i + 1] = p[(i + 1) + 1]
      BY Zenon, <2>2
    <3> HIDE DEF r
    <3> QED BY Zenon, <1>1, <2>2, <3>1 DEF WalkTo
  <2> HIDE DEF r
  <2>6. WalkTo(S, stop, g, g[x], y, n - 1, r)
    BY Zenon, <1>1, <2>3, <2>4, <2>5 DEF WalkTo
  <2> QED BY Zenon, <2>2, <2>6 DEF Ends
<1>2. ASSUME NEW y \in S, NEW n \in Nat, NEW p, WalkTo(S, stop, g, g[x], y, n, p)
      PROVE  y \in Ends(S, stop, g, x)
  <2> DEFINE r == [i \in 0 .. n + 1 |-> IF i = 0 THEN x ELSE p[i - 1]]
  <2>1. /\ \A i \in 0 .. n + 1 : i # 0 => i - 1 \in 0 .. n
        /\ \A i \in 0 .. n : i # 0 => i - 1 \in 0 .. n - 1
        /\ \A i \in 0 .. (n + 1) - 1 : i \in 0 .. n /\ i + 1 \in 0 .. n + 1 /\ i + 1 # 0 /\ (i + 1) - 1 = i
        /\ n + 1 # 0 /\ (n + 1) - 1 = n /\ n + 1 \in 0 .. n + 1 /\ 0 \in 0 .. n + 1
    OBVIOUS
  <2>2. r \in [0 .. n + 1 -> S]
    BY Zenon, <1>2, <2>1 DEF WalkTo
  <2>3. r[0] = x /\ r[n + 1] = y
    <3>1. r[n + 1] = p[(n + 1) - 1]
      BY Zenon, <2>1
    <3> QED BY Zenon, <1>2, <2>1, <3>1 DEF WalkTo
  <2>4. ASSUME NEW i \in 0 .. (n + 1) - 1 PROVE r[i] \notin stop /\ r[i + 1] = g[r[i]]
    <3>1. r[i + 1] = p[(i + 1) - 1] /\ (i + 1) - 1 = i
      BY Zenon, <2>1
    <3>2. CASE i = 0
      BY <1>2, <2>3, <3>1, <3>2 DEF WalkTo
    <3>3. CASE i # 0
      <4>1. r[i] = p[i - 1] /\ i - 1 \in 0 .. n - 1 /\ (i - 1) + 1 = i
        BY <2>1, <3>3
      <4> HIDE DEF r
      <4> QED BY <1>2, <3>1, <4>1 DEF WalkTo
    <3> QED BY Zenon, <3>2, <3>3
  <2> HIDE DEF r
  <2>5. WalkTo(S, stop, g, x, y, n + 1, r)
    BY Zenon, <1>2, <2>2, <2>3, <2>4 DEF WalkTo
  <2> QED BY <2>5 DEF Ends
<1> QED BY Zenon, <1>1, <1>2 DEF Ends

IsWalk(f, S, stop, g) == f = [x \in S |-> IF x \notin stop THEN f[g[x]] ELSE x]

\* A walk has a value everywhere, also where it runs in circles.
LEMMA WalkExists ==
  ASSUME NEW S, NEW stop, NEW g, \A x \in S : x \notin stop => g[x] \in S
  PROVE  \E f : IsWalk(f, S, stop, g)
<1> DEFINE E(x) == Ends(S, stop, g, x)
           f == [x \in S |-> CHOOSE y \in E(x) : TRUE]
<1>1. ASSUME NEW x \in S, x \in stop PROVE f[x] = x
  <2>1. E(x) = {x}
    BY <1>1, EndsHere
  <2> HIDE DEF E
  <2> QED BY Zenon, <2>1
<1>2. ASSUME NEW x \in S, x \notin stop PROVE f[x] = f[g[x]]
  <2>1. E(x) = E(g[x]) /\ g[x] \in S
    BY <1>2, EndsNext
  <2> HIDE DEF E
  <2> QED BY <2>1
<1>3. f = [x \in S |-> IF x \notin stop THEN f[g[x]] ELSE x]
  <2>1. f = [x \in S |-> f[x]]
    OBVIOUS
  <2> HIDE DEF f
  <2> QED BY Zenon, <1>1, <1>2, <2>1
<1> QED BY <1>3, Zenon DEF IsWalk

-----------------------------------------------------------------------------
(* The layout of the lists.                                                *)

\* x points to the first element of s behind the i-th that is the top of a bin,
\* B being the positions of the tops.
Points(x, s, B, i) ==
  \/ x = NULL /\ \A m \in B : m <= i
  \/ \E j \in B : i < j /\ x = s[j] /\ \A m \in B : m <= i \/ j <= m

\* The i-th element points to the one below it, or to none at the bottom of a bin.
Below(nib, s, k, B, i) ==
  nib[s[i]] = IF i < k /\ i + 1 \notin B THEN s[i + 1] ELSE NULL

\* Down a bin the pointers lead from one element to the next.
Stacked(nib, s, k, B) ==
  \A i \in 1 .. k : nib[s[i]] = IF i < k /\ i + 1 \notin B THEN s[i + 1] ELSE NULL

\* The head h, the nextBin pointers nb and the nextInBin pointers nib lay out s,
\* which has k elements.  Nothing is said of nextBin below the top of a bin.
Linked(h, nb, nib, s, k, B) ==
  /\ B \subseteq 1 .. k
  /\ k > 0 => 1 \in B
  /\ Stacked(nib, s, k, B)
  /\ Points(h, s, B, 0)
  /\ \A i \in B : Points(nb[s[i]], s, B, i)

\* The pointer to the next bin that is found at position i; position 0 is the head.
Link(h, nb, s, i) == IF i = 0 THEN h ELSE nb[s[i]]

\* Linked, from its parts.
LEMMA LinkedIf ==
  ASSUME NEW h, NEW nb, NEW nib, NEW s, NEW k, NEW B, B \subseteq 1 .. k, k > 0 => 1 \in B,
         Stacked(nib, s, k, B), Points(h, s, B, 0), \A i \in B : Points(nb[s[i]], s, B, i)
  PROVE  Linked(h, nb, nib, s, k, B)
BY Zenon DEF Linked

\* The pointer found at a top, or at the head, leads to the next bin.
LEMMA LinkPoints ==
  ASSUME NEW h, NEW nb, NEW nib, NEW s, NEW k, NEW B, Linked(h, nb, nib, s, k, B),
         NEW i \in B \cup {0}
  PROVE  Points(Link(h, nb, s, i), s, B, i)
BY Zenon DEF Linked, Link

\* p is the last top among the first n elements, or 0, and a bin ends behind them.
LastTop(k, B, n, p) ==
  /\ p \in B \cup {0} /\ p <= n
  /\ \A m \in B : m <= p \/ n < m
  /\ n < k => n + 1 \in B

\* The tops of the bins when an element joins the bin at n + 1, or goes in front of it.
TopsWith(B, n, joins) ==
  {i \in B : i <= n} \cup {n + 1} \cup {i + 1 : i \in {j \in B : n < j /\ ~(joins /\ j = n + 1)}}

\* Where the elements go.
Up(n, i) == IF i <= n THEN i ELSE i + 1

Spread(s, k, n, e, t) == t[n + 1] = e /\ \A i \in 1 .. k : t[Up(n, i)] = s[i]

\* A pointer from position i still points to the next bin, unless i is p.
LEMMA StillPoints ==
  ASSUME NEW k \in Nat, NEW B \in SUBSET (1 .. k), NEW n \in 0 .. k, NEW p, LastTop(k, B, n, p),
         NEW joins \in BOOLEAN, joins => n < k,
         NEW s, NEW t, NEW e, Spread(s, k, n, e, t),
         NEW i \in B \cup {0}, i # p, NEW x, Points(x, s, B, i)
  PROVE  Points(x, t, TopsWith(B, n, joins), Up(n, i))
<1> DEFINE C == TopsWith(B, n, joins)
<1>0. p \in 0 .. n /\ i \in 0 .. k /\ p \in Int
  BY DEF LastTop
<1>i. i < p \/ n < i
  BY <1>0 DEF LastTop
<1>c. ASSUME NEW m \in C PROVE m = n + 1 \/ \E j \in B : m = Up(n, j)
  BY <1>c DEF TopsWith, Up
<1>1. CASE x = NULL /\ \A m \in B : m <= i
  <2>1. ~(i < p)
    BY <1>0, <1>1 DEF LastTop
  <2>2. n < i
    BY Zenon, <1>0, <1>i, <2>1 DEF LastTop
  <2>3. ASSUME NEW m \in C PROVE m <= Up(n, i)
    <3>1. CASE m = n + 1
      BY <2>2, <3>1, <1>0 DEF Up
    <3>2. ASSUME NEW j \in B, m = Up(n, j) PROVE m <= Up(n, i)
      <4>1. j <= i /\ j \in 1 .. k
        BY Zenon, <1>1
      <4> QED BY <2>2, <3>2, <4>1, <1>0 DEF Up
    <3> QED BY Zenon, <1>c, <3>1, <3>2
  <2> QED BY Zenon, <1>1, <2>3 DEF Points
<1>2. ASSUME NEW j \in B, i < j, x = s[j], \A m \in B : m <= i \/ j <= m
      PROVE  Points(x, t, C, Up(n, i))
  <2>0. j \in 1 .. k
    BY Zenon
  <2>1. j <= p \/ n < i
    <3>1. CASE i < p
      BY <1>0, <1>2, <3>1 DEF LastTop
    <3> QED BY Zenon, <1>i, <3>1
  <2>2. j # n + 1
    BY <2>1, <2>0, <1>0, <1>2
  <2>3. Up(n, j) \in C
    <3>1. CASE j <= n
      BY Zenon, <3>1 DEF TopsWith, Up
    <3>2. CASE ~(j <= n)
      <4>1. n < j
        BY <3>2, <2>0
      <4> QED BY Zenon, <2>2, <3>2, <4>1 DEF TopsWith, Up
    <3> QED BY Zenon, <3>1, <3>2
  <2>4. Up(n, i) < Up(n, j) /\ x = t[Up(n, j)]
    <3>1. x = t[Up(n, j)]
      BY Zenon, <1>2, <2>0 DEF Spread
    <3> QED BY <1>0, <1>2, <2>0, <3>1 DEF Up
  <2>5. ASSUME NEW m \in C PROVE m <= Up(n, i) \/ Up(n, j) <= m
    <3>1. CASE m = n + 1
      BY <2>1, <2>0, <3>1, <1>0 DEF Up
    <3>2. ASSUME NEW a \in B, m = Up(n, a) PROVE m <= Up(n, i) \/ Up(n, j) <= m
      <4>1. (a <= i \/ j <= a) /\ a \in 1 .. k
        BY Zenon, <1>2
      <4> QED BY <3>2, <4>1, <1>0, <2>0 DEF Up
    <3> QED BY Zenon, <1>c, <3>1, <3>2
  <2> HIDE DEF C
  <2> QED BY Zenon, <2>3, <2>4, <2>5 DEF Points
<1> QED BY Zenon, <1>1, <1>2 DEF Points

\* The pointers change for an element e that goes behind the first n, into a bin of
\* its own or onto the bin that starts at n + 1: those of e and the link at p.
LinksIn(h, nb, nib, h2, nb2, nib2, s, k, B, n, p, joins, e) ==
  /\ \A i \in 1 .. k : nib2[s[i]] = nib[s[i]]
  /\ \A i \in B : i # p => nb2[s[i]] = nb[s[i]]
  /\ p # 0 => h2 = h
  /\ Link(h2, nb2, s, p) = e
  /\ ~joins => nb2[e] = Link(h, nb, s, p) /\ nib2[e] = NULL
  /\ joins => nb2[e] = nb[s[n + 1]] /\ nib2[e] = s[n + 1]

\* Putting e behind the first n elements keeps the layout.
LEMMA InsertLinked ==
  ASSUME NEW k \in Nat, NEW B, NEW n \in 0 .. k, NEW p, LastTop(k, B, n, p),
         NEW joins \in BOOLEAN, joins => n < k,
         NEW s, NEW t, NEW e, Spread(s, k, n, e, t),
         NEW h, NEW nb, NEW nib, Linked(h, nb, nib, s, k, B),
         NEW h2, NEW nb2, NEW nib2, LinksIn(h, nb, nib, h2, nb2, nib2, s, k, B, n, p, joins, e)
  PROVE  Linked(h2, nb2, nib2, t, k + 1, TopsWith(B, n, joins))
<1> DEFINE C == TopsWith(B, n, joins)
<1>0. B \in SUBSET (1 .. k) /\ p \in 0 .. n /\ p \in B \cup {0}
  BY DEF Linked, LastTop
<1>s. ASSUME NEW i \in B \cup {0}, i # p, NEW x, Points(x, s, B, i)
      PROVE  Points(x, t, C, Up(n, i))
  BY <1>0, <1>s, StillPoints
<1>h. /\ \A i \in 1 .. k : nib2[s[i]] = nib[s[i]]
      /\ \A i \in B : i # p => nb2[s[i]] = nb[s[i]]
      /\ p # 0 => h2 = h
      /\ Link(h2, nb2, s, p) = e
      /\ ~joins => nb2[e] = Link(h, nb, s, p) /\ nib2[e] = NULL
      /\ joins => nb2[e] = nb[s[n + 1]] /\ nib2[e] = s[n + 1]
  BY Zenon DEF LinksIn
<1> USE <1>h
<1>t. t[n + 1] = e /\ (\A i \in 1 .. k : t[Up(n, i)] = s[i])
  BY Zenon DEF Spread
<1>c. ASSUME NEW m \in C PROVE m = n + 1 \/ \E j \in B : m = Up(n, j) /\ ~(joins /\ j = n + 1)
  BY <1>0, <1>c DEF TopsWith, Up
<1>d. ASSUME NEW i \in B, ~(joins /\ i = n + 1) PROVE Up(n, i) \in C
  <2>0. i \in 1 .. k
    BY Zenon, <1>0
  <2>1. CASE i <= n
    BY Zenon, <2>1 DEF TopsWith, Up
  <2>2. CASE ~(i <= n)
    <3>1. n < i
      BY <2>0, <2>2
    <3> QED BY Zenon, <1>d, <2>2, <3>1 DEF TopsWith, Up
  <2> QED BY Zenon, <2>1, <2>2
<1>1. C \subseteq 1 .. k + 1
  <2> SUFFICES ASSUME NEW m \in C PROVE m \in 1 .. k + 1
    BY Zenon
  <2>1. ASSUME NEW j \in B, m = Up(n, j) PROVE m \in 1 .. k + 1
    BY <1>0, <2>1 DEF Up
  <2> HIDE DEF C
  <2> QED BY <1>c, <2>1
<1>2. 1 \in C
  <2>1. CASE n = 0
    BY <2>1 DEF TopsWith
  <2>2. CASE n # 0
    BY <2>2 DEF TopsWith, Linked
  <2> QED BY Zenon, <2>1, <2>2
<1>3. Stacked(nib2, t, k + 1, C)
  <2> SUFFICES ASSUME NEW a \in 1 .. k + 1
               PROVE  nib2[t[a]] = IF a < k + 1 /\ a + 1 \notin C THEN t[a + 1] ELSE NULL
    BY Zenon DEF Stacked
  <2>1. CASE a = n + 1
    <3>1. CASE joins
      <4>1. a + 1 \notin C
        <5>1. ASSUME NEW j \in B, a + 1 = Up(n, j), ~(joins /\ j = n + 1) PROVE FALSE
          BY <1>0, <2>1, <3>1, <5>1 DEF Up
        <5> HIDE DEF C
        <5> QED BY <1>c, <2>1, <5>1
      <4>2. a < k + 1 /\ t[a + 1] = s[n + 1]
        BY <1>t, <2>1, <3>1 DEF Up
      <4> QED BY Zenon, <1>t, <2>1, <3>1, <4>1, <4>2
    <3>2. CASE ~joins
      <4>1. a < k + 1 => a + 1 \in C
        BY <2>1, <3>2 DEF TopsWith, LastTop
      <4> QED BY Zenon, <1>t, <2>1, <3>2, <4>1
    <3> QED BY Zenon, <3>1, <3>2
  <2>2. ASSUME NEW i \in 1 .. k, a = Up(n, i)
        PROVE  nib2[t[a]] = IF a < k + 1 /\ a + 1 \notin C THEN t[a + 1] ELSE NULL
    <3>1. nib2[t[a]] = IF i < k /\ i + 1 \notin B THEN s[i + 1] ELSE NULL
      BY <1>t, <2>2 DEF Linked, Stacked
    <3>2. CASE i = n
      <4>1. a + 1 \in C
        BY <2>2, <3>2 DEF Up, TopsWith
      <4>2. ~(i < k /\ i + 1 \notin B)
        BY Zenon, <3>2 DEF LastTop
      <4> QED BY Zenon, <3>1, <4>1, <4>2
    <3>3. CASE i < n
      <4>1. a = i /\ a < k + 1 /\ i < k /\ i + 1 <= n
        BY <2>2, <3>3 DEF Up
      <4>2. a + 1 \in C <=> i + 1 \in B
        BY <4>1, <1>0 DEF TopsWith
      <4>3. t[a + 1] = s[i + 1]
        BY <4>1, <1>t DEF Up
      <4> QED BY Zenon, <3>1, <4>1, <4>2, <4>3
    <3>4. CASE n < i
      <4>1. a = i + 1 /\ (a < k + 1 <=> i < k)
        BY <2>2, <3>4 DEF Up
      <4>2. a + 1 \in C <=> i + 1 \in B
        BY <3>4, <4>1, <1>0 DEF TopsWith
      <4>3. i < k => t[a + 1] = s[i + 1]
        BY <3>4, <4>1, <1>t DEF Up
      <4> QED BY Zenon, <3>1, <4>1, <4>2, <4>3
    <3> QED BY <3>2, <3>3, <3>4
  <2>3. a # n + 1 => \E i \in 1 .. k : a = Up(n, i)
    <3>1. CASE a < n + 1
      BY <3>1 DEF Up
    <3>2. CASE n + 1 < a
      <4>1. a - 1 \in 1 .. k /\ a = Up(n, a - 1)
        BY <3>2 DEF Up
      <4> QED BY Zenon, <4>1
    <3> QED BY <3>1, <3>2
  <2> QED BY Zenon, <2>1, <2>2, <2>3
<1>4. Points(e, t, C, p)
  <2>1. n + 1 \in C /\ p < n + 1 /\ e = t[n + 1]
    BY <1>0, <1>t DEF TopsWith
  <2>2. ASSUME NEW m \in C PROVE m <= p \/ n + 1 <= m
    <3>1. ASSUME NEW j \in B, m = Up(n, j) PROVE m <= p \/ n + 1 <= m
      BY <1>0, <3>1 DEF Up, LastTop
    <3> QED BY <1>c, <3>1
  <2> HIDE DEF C
  <2> QED BY Zenon, <2>1, <2>2 DEF Points
<1>5. Points(nb2[e], t, C, n + 1)
  <2>1. CASE joins
    <3>1. n + 1 \in B /\ n + 1 # p
      BY <1>0, <2>1 DEF LastTop
    <3>2. Points(nb[s[n + 1]], s, B, n + 1)
      BY Zenon, <3>1 DEF Linked
    <3>3. Points(nb2[e], t, C, Up(n, n + 1))
      <4> HIDE DEF C
      <4> QED BY Zenon, <1>s, <2>1, <3>1, <3>2
    <3> DEFINE x == nb2[e]
    <3>5. Up(n, n + 1) = n + 2
      BY DEF Up
    <3>6. CASE x = NULL /\ \A m \in C : m <= n + 2
      <4>1. ASSUME NEW m \in C PROVE m <= n + 1
        <5>1. m # n + 2
          BY <1>0, <2>1, <4>1 DEF TopsWith
        <5> QED BY <1>1, <3>6, <5>1
      <4> QED BY Zenon, <3>6, <4>1 DEF Points
    <3>7. ASSUME NEW j \in C, n + 2 < j, x = t[j], \A m \in C : m <= n + 2 \/ j <= m
          PROVE  Points(x, t, C, n + 1)
      <4>1. ASSUME NEW m \in C PROVE m <= n + 1 \/ j <= m
        <5>1. m # n + 2
          BY <1>0, <2>1, <4>1 DEF TopsWith
        <5> QED BY <1>1, <3>7, <5>1
      <4>2. n + 1 < j
        BY <1>1, <3>7
      <4> HIDE DEF C
      <4> QED BY Zenon, <3>7, <4>1, <4>2 DEF Points
    <3> HIDE DEF C
    <3> QED BY <3>3, <3>5, <3>6, <3>7 DEF Points
  <2>2. CASE ~joins
    <3> DEFINE x == Link(h, nb, s, p)
    <3>1. Points(x, s, B, p) /\ nb2[e] = x
      BY Zenon, <1>0, <2>2, LinkPoints
    <3>2. CASE x = NULL /\ \A m \in B : m <= p
      <4>1. ASSUME NEW m \in C PROVE m <= n + 1
        <5>1. ASSUME NEW j \in B, m = Up(n, j) PROVE m <= n + 1
          <6>1. j <= p /\ j \in 1 .. k
            BY Zenon, <1>0, <3>2
          <6> QED BY <5>1, <6>1, <1>0 DEF Up
        <5> QED BY <1>c, <5>1
      <4> HIDE DEF C
      <4> QED BY Zenon, <3>1, <3>2, <4>1 DEF Points
    <3>3. ASSUME NEW j \in B, p < j, x = s[j], \A m \in B : m <= p \/ j <= m
          PROVE  Points(nb2[e], t, C, n + 1)
      <4>0. j \in 1 .. k
        BY Zenon, <1>0
      <4>1. n < j
        BY <1>0, <3>3, <4>0 DEF LastTop
      <4>2. j = n + 1
        <5>1. n < k
          BY <4>0, <4>1
        <5>2. n + 1 \in B /\ ~(n + 1 <= p)
          BY <1>0, <5>1 DEF LastTop
        <5> QED BY <3>3, <4>0, <4>1, <5>2
      <4>3. n + 2 \in C /\ t[n + 2] = s[j]
        <5>1. Up(n, j) = n + 2
          BY <4>2 DEF Up
        <5> QED BY Zenon, <1>d, <1>t, <2>2, <4>0, <5>1
      <4>4. \A m \in C : m <= n + 1 \/ n + 2 <= m
        BY <1>1
      <4> HIDE DEF C
      <4> QED BY <3>1, <3>3, <4>3, <4>4 DEF Points
    <3> HIDE DEF x
    <3> QED BY Zenon, <3>1, <3>2, <3>3 DEF Points
  <2> QED BY Zenon, <2>1, <2>2
<1>6. Points(h2, t, C, 0)
  <2>1. CASE p = 0
    BY Zenon, <1>4, <2>1 DEF Link
  <2>2. CASE p # 0
    <3>1. Points(h, s, B, 0)
      BY Zenon DEF Linked
    <3>2. Points(h, t, C, Up(n, 0))
      BY Zenon, <1>0, <2>2, <3>1, <1>s
    <3>3. Up(n, 0) = 0
      BY DEF Up
    <3> QED BY Zenon, <2>2, <3>2, <3>3
  <2> QED BY Zenon, <2>1, <2>2
<1>7. ASSUME NEW a \in C PROVE Points(nb2[t[a]], t, C, a)
  <2>1. CASE a = n + 1
    BY Zenon, <1>5, <1>t, <2>1
  <2>2. ASSUME NEW i \in B, a = Up(n, i) PROVE Points(nb2[t[a]], t, C, a)
    <3>1. t[a] = s[i]
      BY Zenon, <1>0, <1>t, <2>2
    <3>2. CASE i = p
      <4>1. nb2[s[i]] = e /\ a = p
        BY <1>0, <2>2, <3>2 DEF Link, Up
      <4> QED BY Zenon, <1>4, <3>1, <4>1
    <3>3. CASE i # p
      <4>1. Points(nb[s[i]], s, B, i)
        BY Zenon DEF Linked
      <4>2. Points(nb[s[i]], t, C, Up(n, i))
        BY Zenon, <1>0, <3>3, <4>1, <1>s
      <4> QED BY Zenon, <2>2, <3>1, <3>3, <4>2
    <3> QED BY Zenon, <3>2, <3>3
  <2> QED BY Zenon, <1>c, <2>1, <2>2
<1> HIDE DEF C
<1>8. Linked(h2, nb2, nib2, t, k + 1, C)
  BY Zenon, <1>1, <1>2, <1>3, <1>6, <1>7, LinkedIf
<1> QED BY Zenon, <1>8 DEF C

\* The tops of the bins when the element at n + 1 is gone and k are left: below a top
\* that goes, the next element becomes one.
TopsWithout(B, k, n) == {i \in 1 .. k : Up(n, i) \in B \/ (i = n + 1 /\ n + 1 \in B)}

\* Where the other elements go.
Down(n, i) == IF i <= n THEN i ELSE i - 1

\* Positions with and without the element that is taken out.
LEMMA DownUp ==
  ASSUME NEW k \in Nat, NEW n \in 0 .. k, NEW B \in SUBSET (1 .. k + 1),
         NEW s, NEW t, NEW e, Spread(t, k, n, e, s)
  PROVE  /\ \A i \in 1 .. k + 1 : i # n + 1 => /\ Down(n, i) \in 1 .. k
                                               /\ Up(n, Down(n, i)) = i
                                               /\ t[Down(n, i)] = s[i]
         /\ \A i \in B : i # n + 1 => Down(n, i) \in TopsWithout(B, k, n)
         /\ \A c \in TopsWithout(B, k, n) :
               \/ c = n + 1 /\ n + 1 \in B /\ n + 2 \notin B
               \/ \E i \in B : i # n + 1 /\ c = Down(n, i)
<1>1. ASSUME NEW i \in 1 .. k + 1, i # n + 1
      PROVE  Down(n, i) \in 1 .. k /\ Up(n, Down(n, i)) = i /\ t[Down(n, i)] = s[i]
  <2>1. Down(n, i) \in 1 .. k /\ Up(n, Down(n, i)) = i
    BY <1>1 DEF Down, Up
  <2> QED BY Zenon, <2>1 DEF Spread
<1>2. ASSUME NEW i \in B, i # n + 1 PROVE Down(n, i) \in TopsWithout(B, k, n)
  BY Zenon, <1>1, <1>2 DEF TopsWithout
<1>3. ASSUME NEW c \in TopsWithout(B, k, n)
      PROVE  \/ c = n + 1 /\ n + 1 \in B /\ n + 2 \notin B
             \/ \E i \in B : i # n + 1 /\ c = Down(n, i)
  <2>0. c \in 1 .. k
    BY Zenon, <1>3 DEF TopsWithout
  <2>1. CASE Up(n, c) \in B
    <3>1. Up(n, c) # n + 1 /\ c = Down(n, Up(n, c))
      BY <2>0 DEF Up, Down
    <3> QED BY Zenon, <2>1, <3>1
  <2>2. CASE c = n + 1 /\ n + 1 \in B
    <3>1. Up(n, c) = n + 2
      BY <2>2 DEF Up
    <3> QED BY Zenon, <2>1, <2>2, <3>1
  <2> QED BY Zenon, <1>3, <2>1, <2>2 DEF TopsWithout
<1> QED BY Zenon, <1>1, <1>2, <1>3

\* p is the last top in front of the bin whose top is b.
TopBefore(B, b, p) == p \in B \cup {0} /\ p < b /\ \A m \in B : m <= p \/ b <= m

\* A pointer that does not lead to the element that goes still points to the next bin.
LEMMA PointsWithout ==
  ASSUME NEW k \in Nat, NEW n \in 0 .. k, NEW B \in SUBSET (1 .. k + 1),
         NEW s, NEW t, NEW e, Spread(t, k, n, e, s), NEW p, n + 1 \in B => TopBefore(B, n + 1, p),
         NEW i \in B \cup {0}, i # n + 1, n + 1 \in B => i # p, NEW x, Points(x, s, B, i)
  PROVE  Points(x, t, TopsWithout(B, k, n), Down(n, i))
<1> DEFINE C == TopsWithout(B, k, n)
<1>0. i \in 0 .. k + 1 /\ (n + 1 \in B => p \in 0 .. n)
  <2>1. ASSUME n + 1 \in B PROVE p \in 0 .. n
    <3>1. p \in B \cup {0} /\ p < n + 1
      BY Zenon, <2>1 DEF TopBefore
    <3>2. p \in 0 .. k + 1
      BY <3>1
    <3> QED BY <3>1, <3>2
  <2> QED BY <2>1
<1>d. /\ \A a \in 1 .. k + 1 : a # n + 1 => t[Down(n, a)] = s[a]
      /\ \A a \in B : a # n + 1 => Down(n, a) \in C
      /\ \A c \in C : \/ c = n + 1 /\ n + 1 \in B /\ n + 2 \notin B
                      \/ \E a \in B : a # n + 1 /\ c = Down(n, a)
  BY DownUp
<1>c. ASSUME NEW c \in C
      PROVE  \/ c = n + 1 /\ n + 1 \in B
             \/ \E a \in B : a # n + 1 /\ c = Down(n, a)
  BY Zenon, <1>d
<1>1. CASE x = NULL /\ \A m \in B : m <= i
  <2>1. ASSUME NEW c \in C PROVE c <= Down(n, i)
    <3>1. CASE c = n + 1 /\ n + 1 \in B
      <4>1. n + 1 <= i
        BY Zenon, <1>1, <3>1
      <4> QED BY <1>0, <3>1, <4>1 DEF Down
    <3>2. ASSUME NEW a \in B, a # n + 1, c = Down(n, a) PROVE c <= Down(n, i)
      <4>1. a <= i /\ a \in 1 .. k + 1
        BY Zenon, <1>1
      <4> QED BY <1>0, <3>2, <4>1 DEF Down
    <3> HIDE DEF C
    <3> QED BY Zenon, <1>c, <3>1, <3>2
  <2> HIDE DEF C
  <2>2. Points(x, t, C, Down(n, i))
    BY Zenon, <1>1, <2>1 DEF Points
  <2> QED BY Zenon, <2>2 DEF C
<1>2. ASSUME NEW j \in B, i < j, x = s[j], \A m \in B : m <= i \/ j <= m
      PROVE  Points(x, t, C, Down(n, i))
  <2>0. j \in 1 .. k + 1
    BY Zenon
  <2>1. n + 1 \in B => j <= p \/ n + 1 < i
    <3> SUFFICES ASSUME n + 1 \in B, ~(n + 1 < i) PROVE j <= p
      BY Zenon
    <3>1. i < n + 1
      BY <1>0
    <3>2. i < p
      BY <1>0, <3>1 DEF TopBefore
    <3>3. p \in B
      BY <1>0, <3>2 DEF TopBefore
    <3> QED BY <1>0, <1>2, <2>0, <3>2, <3>3
  <2>2. j # n + 1
    <3> SUFFICES ASSUME j = n + 1 PROVE FALSE
      BY Zenon
    <3>1. (j <= p \/ n + 1 < i) /\ p \in 0 .. n
      BY Zenon, <1>0, <2>1
    <3> QED BY <1>0, <1>2, <3>1
  <2>3. Down(n, j) \in C /\ x = t[Down(n, j)]
    BY Zenon, <1>2, <1>d, <2>0, <2>2
  <2>4. Down(n, i) < Down(n, j)
    BY <1>0, <1>2, <2>0, <2>2 DEF Down
  <2>5. ASSUME NEW c \in C PROVE c <= Down(n, i) \/ Down(n, j) <= c
    <3>1. CASE c = n + 1 /\ n + 1 \in B
      BY <1>0, <2>0, <2>1, <3>1 DEF Down, TopBefore
    <3>2. ASSUME NEW a \in B, a # n + 1, c = Down(n, a)
          PROVE  c <= Down(n, i) \/ Down(n, j) <= c
      <4>1. (a <= i \/ j <= a) /\ a \in 1 .. k + 1
        BY Zenon, <1>2
      <4> QED BY <1>0, <2>0, <3>2, <4>1 DEF Down
    <3> HIDE DEF C
    <3> QED BY Zenon, <1>c, <3>1, <3>2
  <2> HIDE DEF C
  <2> QED BY Zenon, <2>3, <2>4, <2>5 DEF Points
<1> HIDE DEF C
<1>3. Points(x, t, C, Down(n, i))
  BY Zenon, <1>1, <1>2 DEF Points, C
<1> QED BY Zenon, <1>3 DEF C

\* The bins below the one that changes stay as they are.
LEMMA StackedWithout ==
  ASSUME NEW k \in Nat, NEW n \in 0 .. k, NEW B \in SUBSET (1 .. k + 1),
         NEW s, NEW t, NEW e, Spread(t, k, n, e, s), NEW nib, Stacked(nib, s, k + 1, B),
         NEW nib2, NEW a \in 1 .. k, nib2[t[a]] = nib[t[a]], a # n
  PROVE  Below(nib2, t, k, TopsWithout(B, k, n), a)
<1> DEFINE C == TopsWithout(B, k, n)
           i == Up(n, a)
<1>1. i \in 1 .. k + 1 /\ t[a] = s[i]
  BY DEF Up, Spread
<1>2. nib[s[i]] = IF i < k + 1 /\ i + 1 \notin B THEN s[i + 1] ELSE NULL
  BY Zenon, <1>1 DEF Stacked
<1>3. i < k + 1 <=> a < k
  BY DEF Up
<1>4. ASSUME a < k PROVE (a + 1 \in C <=> i + 1 \in B) /\ t[a + 1] = s[i + 1]
  <2>1. Up(n, a + 1) = i + 1 /\ a + 1 \in 1 .. k /\ a + 1 # n + 1
    BY <1>4 DEF Up
  <2>2. a + 1 \in C <=> i + 1 \in B
    BY Zenon, <2>1 DEF TopsWithout
  <2>3. s[Up(n, a + 1)] = t[a + 1]
    BY Zenon, <2>1 DEF Spread
  <2> QED BY Zenon, <2>1, <2>2, <2>3
<1> HIDE DEF C, i
<1>5. nib2[t[a]] = IF a < k /\ a + 1 \notin C THEN t[a + 1] ELSE NULL
  BY Zenon, <1>1, <1>2, <1>3, <1>4
<1> QED BY Zenon, <1>5 DEF C, Below

\* The pointers change when the top e of a bin goes: the bin goes with it, or else the
\* element below it becomes the top and gets its pointer to the next bin.
LinksOut(h, nb, nib, h2, nb2, nib2, s, t, k, B, n, p, e) ==
  /\ \A i \in 1 .. k : nib2[t[i]] = nib[t[i]]
  /\ \A i \in B : i # p /\ i # n + 1 => nb2[s[i]] = nb[s[i]]
  /\ p # 0 => h2 = h
  /\ nib[e] = NULL => Link(h2, nb2, s, p) = nb[e]
  /\ nib[e] # NULL => Link(h2, nb2, s, p) = nib[e] /\ nb2[nib[e]] = nb[e]

\* Taking out the top of a bin keeps the layout.
LEMMA RemoveTop ==
  ASSUME NEW k \in Nat, NEW n \in 0 .. k, NEW B, n + 1 \in B, NEW p, TopBefore(B, n + 1, p),
         NEW s, NEW t, NEW e, Spread(t, k, n, e, s), \A i \in 1 .. k + 1 : s[i] # NULL,
         NEW h, NEW nb, NEW nib, Linked(h, nb, nib, s, k + 1, B),
         NEW h2, NEW nb2, NEW nib2, LinksOut(h, nb, nib, h2, nb2, nib2, s, t, k, B, n, p, e)
  PROVE  Linked(h2, nb2, nib2, t, k, TopsWithout(B, k, n))
<1> DEFINE C == TopsWithout(B, k, n)
<1>h. /\ \A i \in 1 .. k : nib2[t[i]] = nib[t[i]]
      /\ \A i \in B : i # p /\ i # n + 1 => nb2[s[i]] = nb[s[i]]
      /\ p # 0 => h2 = h
      /\ nib[e] = NULL => Link(h2, nb2, s, p) = nb[e]
      /\ nib[e] # NULL => Link(h2, nb2, s, p) = nib[e] /\ nb2[nib[e]] = nb[e]
  BY Zenon DEF LinksOut
<1> USE <1>h
<1>0. B \in SUBSET (1 .. k + 1) /\ p \in B \cup {0} /\ p < n + 1 /\ s[n + 1] = e
  BY Zenon DEF Linked, TopBefore, Spread
<1>p. p \in 0 .. n
  <2>1. p \in 0 .. k + 1
    BY <1>0
  <2> QED BY <1>0, <2>1
<1>d. /\ \A a \in 1 .. k + 1 : a # n + 1 => t[Down(n, a)] = s[a] /\ Down(n, a) \in 1 .. k
      /\ \A a \in B : a # n + 1 => Down(n, a) \in C
      /\ \A c \in C : \/ c = n + 1 /\ n + 1 \in B /\ n + 2 \notin B
                      \/ \E a \in B : a # n + 1 /\ c = Down(n, a)
  <2>1. ASSUME B \in SUBSET (1 .. k + 1)
        PROVE  /\ \A i \in 1 .. k + 1 : i # n + 1 => /\ Down(n, i) \in 1 .. k
                                                     /\ Up(n, Down(n, i)) = i
                                                     /\ t[Down(n, i)] = s[i]
               /\ \A i \in B : i # n + 1 => Down(n, i) \in C
               /\ \A c \in C : \/ c = n + 1 /\ n + 1 \in B /\ n + 2 \notin B
                               \/ \E i \in B : i # n + 1 /\ c = Down(n, i)
    BY ONLY Zenon, <2>1, Spread(t, k, n, e, s), k \in Nat, n \in 0 .. k, DownUp
  <2> HIDE DEF C
  <2> QED BY Zenon, <1>0, <2>1
<1>1. C \subseteq 1 .. k
  BY Zenon DEF TopsWithout
<1>2. k > 0 => 1 \in C
  <2>1. 1 \in B
    BY DEF Linked
  <2> QED BY <2>1 DEF TopsWithout, Up
<1>3. Stacked(nib2, t, k, C)
  <2> SUFFICES ASSUME NEW a \in 1 .. k
               PROVE  nib2[t[a]] = IF a < k /\ a + 1 \notin C THEN t[a + 1] ELSE NULL
    BY Zenon DEF Stacked
  <2>1. CASE a # n
    <3>1. nib2[t[a]] = nib[t[a]] /\ Stacked(nib, s, k + 1, B)
      BY Zenon, <2>1 DEF Linked
    <3>2. Below(nib2, t, k, C, a)
      BY Zenon, <1>0, <2>1, <3>1, StackedWithout
    <3> QED BY Zenon, <3>2 DEF Below
  <2>2. CASE a = n
    <3>1. t[a] = s[a]
      BY <2>2 DEF Spread, Up
    <3>2. nib[s[a]] = NULL
      <4>1. nib[s[a]] = IF a < k + 1 /\ a + 1 \notin B THEN s[a + 1] ELSE NULL
        BY DEF Linked, Stacked
      <4> QED BY Zenon, <2>2, <4>1
    <3>3. a < k => a + 1 \in C
      BY <2>2 DEF TopsWithout
    <3> QED BY Zenon, <3>1, <3>2, <3>3
  <2> QED BY Zenon, <2>1, <2>2
<1>4. nib[e] = IF n < k /\ n + 2 \notin B THEN s[n + 2] ELSE NULL
  <2>1. n + 1 \in 1 .. k + 1
    OBVIOUS
  <2>2. nib[s[n + 1]] = IF n + 1 < k + 1 /\ (n + 1) + 1 \notin B THEN s[(n + 1) + 1] ELSE NULL
    BY Zenon, <2>1 DEF Linked, Stacked
  <2> QED BY <1>0, <2>2
<1>5. n < k => s[n + 2] # NULL /\ t[n + 1] = s[n + 2] /\ n + 1 \in C /\ n + 1 \in 1 .. k
  <2> SUFFICES ASSUME n < k PROVE s[n + 2] # NULL /\ t[n + 1] = s[n + 2] /\ n + 1 \in C
    OBVIOUS
  <2>1. Up(n, n + 1) = n + 2 /\ n + 1 \in 1 .. k /\ n + 2 \in 1 .. k + 1
    BY DEF Up
  <2> QED BY Zenon, <2>1 DEF Spread, TopsWithout
<1>6. Points(nb[e], s, B, n + 1)
  BY Zenon, <1>0 DEF Linked
<1> DEFINE y == nb[e]
<1>7. Points(Link(h2, nb2, s, p), t, C, p)
  <2>1. CASE n < k
    <3>1. Link(h2, nb2, s, p) = s[n + 2]
      <4>1. CASE n + 2 \notin B
        BY Zenon, <1>4, <1>5, <2>1, <4>1
      <4>2. CASE n + 2 \in B
        <5>1. y = s[n + 2]
          <6>1. ~ \A m \in B : m <= n + 1
            BY <4>2
          <6>2. PICK j \in B : n + 1 < j /\ y = s[j] /\ \A m \in B : m <= n + 1 \/ j <= m
            BY Zenon, <1>6, <6>1 DEF Points
          <6>3. j <= n + 2 /\ j \in 1 .. k + 1
            BY <1>0, <4>2, <6>2
          <6>4. j = n + 2
            BY <6>2, <6>3
          <6> QED BY Zenon, <6>2, <6>4
        <5> QED BY Zenon, <1>4, <2>1, <4>2, <5>1
      <4> QED BY Zenon, <4>1, <4>2
    <3>2. ASSUME NEW c \in C PROVE c <= p \/ n + 1 <= c
      <4>1. ASSUME NEW a \in B, a # n + 1, c = Down(n, a) PROVE c <= p \/ n + 1 <= c
        <5>1. (a <= p \/ n + 1 <= a) /\ a \in 1 .. k + 1
          BY Zenon, <1>0 DEF TopBefore
        <5> QED BY <1>p, <4>1, <5>1 DEF Down
      <4> HIDE DEF C
      <4> QED BY <1>d, <4>1
    <3> HIDE DEF C
    <3> QED BY <1>5, <1>p, <2>1, <3>1, <3>2 DEF Points
  <2>2. CASE n = k
    <3>1. \A m \in B : m <= n + 1
      BY <1>0, <2>2
    <3>2. y = NULL
      BY <1>0, <1>6, <2>2, <3>1 DEF Points
    <3>3. Link(h2, nb2, s, p) = NULL
      BY <1>4, <2>2, <3>2
    <3>4. ASSUME NEW c \in C PROVE c <= p
      <4>0. c \in 1 .. k
        BY Zenon, <1>1
      <4>1. ASSUME NEW a \in B, a # n + 1, c = Down(n, a) PROVE c <= p
        <5>1. (a <= p \/ n + 1 <= a) /\ a \in 1 .. k + 1
          BY Zenon, <1>0 DEF TopBefore
        <5> QED BY <1>p, <2>2, <4>1, <5>1 DEF Down
      <4> HIDE DEF C
      <4> QED BY <1>d, <2>2, <4>0, <4>1
    <3> HIDE DEF C
    <3> QED BY Zenon, <3>3, <3>4 DEF Points
  <2> QED BY <2>1, <2>2
<1>8. ASSUME NEW i \in B \cup {0}, i # p, i # n + 1, NEW x, Points(x, s, B, i)
      PROVE  Points(x, t, C, Down(n, i))
  BY Zenon, <1>0, <1>8, PointsWithout
<1>9. Points(h2, t, C, 0)
  <2>1. CASE p = 0
    BY Zenon, <1>7, <2>1 DEF Link
  <2>2. CASE p # 0
    <3>1. Points(h, s, B, 0)
      BY Zenon DEF Linked
    <3>2. Down(n, 0) = 0 /\ 0 # n + 1
      BY DEF Down
    <3>3. Points(h, t, C, Down(n, 0))
      BY Zenon, <1>8, <2>2, <3>1, <3>2
    <3> HIDE DEF C
    <3> QED BY Zenon, <2>2, <3>2, <3>3
  <2> QED BY Zenon, <2>1, <2>2
<1>10. ASSUME NEW a \in C PROVE Points(nb2[t[a]], t, C, a)
  <2>1. CASE a = n + 1 /\ n + 2 \notin B
    <3>1. n < k /\ t[a] = s[n + 2] /\ nib[e] = s[n + 2] /\ s[n + 2] # NULL
      BY <1>1, <1>4, <1>5, <2>1
    <3>2. nb2[t[a]] = y
      BY Zenon, <3>1
    <3>3. CASE y = NULL /\ \A m \in B : m <= n + 1
      <4>1. ASSUME NEW c \in C PROVE c <= n + 1
        <5>1. ASSUME NEW b \in B, b # n + 1, c = Down(n, b) PROVE c <= n + 1
          <6>1. b <= n + 1 /\ b \in 1 .. k + 1
            BY Zenon, <1>0, <3>3
          <6> QED BY <5>1, <6>1 DEF Down
        <5> HIDE DEF C
        <5> QED BY <1>d, <5>1
      <4> HIDE DEF C
      <4> QED BY Zenon, <2>1, <3>2, <3>3, <4>1 DEF Points
    <3>4. ASSUME NEW j \in B, n + 1 < j, y = s[j], \A m \in B : m <= n + 1 \/ j <= m
          PROVE  Points(y, t, C, n + 1)
      <4>0. j \in 1 .. k + 1 /\ j # n + 2
        BY Zenon, <1>0, <2>1
      <4>1. Down(n, j) \in C /\ y = t[Down(n, j)] /\ n + 1 < Down(n, j) /\ Down(n, j) = j - 1
        <5>1. j # n + 1 /\ Down(n, j) = j - 1
          BY <3>4, <4>0 DEF Down
        <5>2. n + 1 < j - 1
          BY <3>4, <4>0
        <5> HIDE DEF C
        <5> QED BY Zenon, <1>d, <3>4, <4>0, <5>1, <5>2
      <4>2. ASSUME NEW c \in C PROVE c <= n + 1 \/ Down(n, j) <= c
        <5>1. ASSUME NEW b \in B, b # n + 1, c = Down(n, b)
              PROVE  c <= n + 1 \/ j - 1 <= c
          <6>1. (b <= n + 1 \/ j <= b) /\ b \in 1 .. k + 1
            BY Zenon, <1>0, <3>4
          <6> QED BY <4>0, <5>1, <6>1 DEF Down
        <5> HIDE DEF C
        <5> QED BY <1>d, <4>1, <5>1
      <4> HIDE DEF C
      <4> QED BY Zenon, <4>1, <4>2 DEF Points
    <3> HIDE DEF C, y
    <3>5. Points(y, s, B, n + 1)
      BY Zenon, <1>6 DEF y
    <3>6. Points(y, t, C, n + 1)
      BY Zenon, <2>1, <3>2, <3>3, <3>4, <3>5 DEF Points
    <3> QED BY Zenon, <2>1, <3>2, <3>6
  <2>2. ASSUME NEW i \in B, i # n + 1, a = Down(n, i) PROVE Points(nb2[t[a]], t, C, a)
    <3>1. t[a] = s[i] /\ i \in 1 .. k + 1
      BY Zenon, <1>0, <1>d, <2>2
    <3>2. CASE i = p
      <4>1. nb2[s[i]] = Link(h2, nb2, s, p) /\ a = p
        BY <1>p, <2>2, <3>1, <3>2 DEF Link, Down
      <4> HIDE DEF C
      <4> QED BY Zenon, <1>7, <3>1, <4>1
    <3>3. CASE i # p
      <4>1. Points(nb[s[i]], s, B, i)
        BY Zenon DEF Linked
      <4>2. nb2[s[i]] = nb[s[i]]
        BY Zenon, <2>2, <3>3
      <4> HIDE DEF C
      <4> QED BY Zenon, <1>8, <2>2, <3>1, <3>3, <4>1, <4>2
    <3> QED BY Zenon, <3>2, <3>3
  <2> HIDE DEF C
  <2> QED BY Zenon, <1>d, <2>1, <2>2
<1> HIDE DEF C
<1>11. Linked(h2, nb2, nib2, t, k, C)
  BY Zenon, <1>1, <1>2, <1>3, <1>9, <1>10, LinkedIf
<1> QED BY Zenon, <1>11 DEF C

\* The pointers change when an element e below the top of its bin goes: the one above
\* it skips it.
LinksPast(nb, nib, nb2, nib2, s, t, k, B, n, e) ==
  /\ \A i \in 1 .. k : i # n => nib2[t[i]] = nib[t[i]]
  /\ nib2[s[n]] = nib[e]
  /\ \A i \in B : nb2[s[i]] = nb[s[i]]

\* Taking out an element below the top of its bin keeps the layout.
LEMMA RemoveBelow ==
  ASSUME NEW k \in Nat, NEW n \in 0 .. k, NEW B, n + 1 \notin B,
         NEW s, NEW t, NEW e, Spread(t, k, n, e, s),
         NEW h, NEW nb, NEW nib, Linked(h, nb, nib, s, k + 1, B),
         NEW nb2, NEW nib2, LinksPast(nb, nib, nb2, nib2, s, t, k, B, n, e)
  PROVE  Linked(h, nb2, nib2, t, k, TopsWithout(B, k, n))
<1> DEFINE C == TopsWithout(B, k, n)
<1>h. /\ \A i \in 1 .. k : i # n => nib2[t[i]] = nib[t[i]]
      /\ nib2[s[n]] = nib[e]
      /\ \A i \in B : nb2[s[i]] = nb[s[i]]
  BY Zenon DEF LinksPast
<1> USE <1>h
<1>0. B \in SUBSET (1 .. k + 1) /\ 1 \in B /\ s[n + 1] = e
  BY DEF Linked, Spread
<1>n. n # 0
  BY <1>0
<1>d. /\ \A a \in B : a # n + 1 => t[Down(n, a)] = s[a]
      /\ \A c \in C : \E a \in B : a # n + 1 /\ c = Down(n, a)
  <2>1. ASSUME B \in SUBSET (1 .. k + 1)
        PROVE  /\ \A i \in 1 .. k + 1 : i # n + 1 => /\ Down(n, i) \in 1 .. k
                                                     /\ Up(n, Down(n, i)) = i
                                                     /\ t[Down(n, i)] = s[i]
               /\ \A i \in B : i # n + 1 => Down(n, i) \in C
               /\ \A c \in C : \/ c = n + 1 /\ n + 1 \in B /\ n + 2 \notin B
                               \/ \E i \in B : i # n + 1 /\ c = Down(n, i)
    BY ONLY Zenon, <2>1, Spread(t, k, n, e, s), k \in Nat, n \in 0 .. k, DownUp
  <2> HIDE DEF C
  <2> QED BY Zenon, <1>0, <2>1
<1>1. C \subseteq 1 .. k
  BY Zenon DEF TopsWithout
<1>2. k > 0 => 1 \in C
  BY <1>0, <1>n DEF TopsWithout, Up
<1>3. Stacked(nib2, t, k, C)
  <2> SUFFICES ASSUME NEW a \in 1 .. k
               PROVE  nib2[t[a]] = IF a < k /\ a + 1 \notin C THEN t[a + 1] ELSE NULL
    BY Zenon DEF Stacked
  <2>1. CASE a # n
    <3>1. nib2[t[a]] = nib[t[a]] /\ Stacked(nib, s, k + 1, B)
      BY Zenon, <2>1 DEF Linked
    <3>2. B \in SUBSET (1 .. k + 1)
      BY Zenon, <1>0
    <3>3. Below(nib2, t, k, C, a)
      BY Zenon, <2>1, <3>1, <3>2, StackedWithout
    <3> QED BY Zenon, <3>3 DEF Below
  <2>2. CASE a = n
    <3>1. t[a] = s[n]
      BY <2>2 DEF Spread, Up
    <3>2. nib[s[n + 1]] = IF n + 1 < k + 1 /\ (n + 1) + 1 \notin B THEN s[(n + 1) + 1] ELSE NULL
      BY DEF Linked, Stacked
    <3>3. ASSUME n < k PROVE (n + 1 \in C <=> n + 2 \in B) /\ t[n + 1] = s[n + 2]
      <4>1. Up(n, n + 1) = n + 2 /\ n + 1 \in 1 .. k
        BY <3>3 DEF Up
      <4> QED BY Zenon, <4>1 DEF TopsWithout, Spread
    <3>4. nib[e] = IF n < k /\ n + 2 \notin B THEN s[n + 2] ELSE NULL
      BY <1>0, <3>2
    <3> HIDE DEF C
    <3> QED BY Zenon, <2>2, <3>1, <3>3, <3>4
  <2> QED BY Zenon, <2>1, <2>2
<1>4. ASSUME NEW i \in B \cup {0}, NEW x, Points(x, s, B, i)
      PROVE  Points(x, t, C, Down(n, i))
  <2>1. i # n + 1
    BY <1>0
  <2> QED BY Zenon, <1>0, <1>4, <2>1, PointsWithout
<1>5. Points(h, t, C, 0)
  <2>1. Down(n, 0) = 0 /\ Points(h, s, B, 0)
    BY DEF Down, Linked
  <2>2. Points(h, t, C, Down(n, 0))
    BY Zenon, <1>4, <2>1
  <2> HIDE DEF C
  <2> QED BY Zenon, <2>1, <2>2
<1>6. ASSUME NEW a \in C PROVE Points(nb2[t[a]], t, C, a)
  <2> HIDE DEF C
  <2>1. PICK i \in B : i # n + 1 /\ a = Down(n, i)
    BY Zenon, <1>d
  <2>2. Points(nb[s[i]], s, B, i)
    BY Zenon DEF Linked
  <2>3. t[a] = s[i] /\ nb2[s[i]] = nb[s[i]]
    BY Zenon, <1>d, <2>1
  <2> QED BY Zenon, <1>4, <2>1, <2>2, <2>3
<1> HIDE DEF C
<1>7. Linked(h, nb2, nib2, t, k, C)
  BY Zenon, <1>1, <1>2, <1>3, <1>5, <1>6, LinkedIf
<1> QED BY Zenon, <1>7 DEF C

-----------------------------------------------------------------------------
(* Where the bins start.                                                   *)

\* The order of events is asymmetric, and its complement is transitive.
LEMMA LessOrder ==
  ASSUME NEW w \in [Events -> Int], NEW a \in Events, NEW b \in Events, NEW c \in Events
  PROVE  /\ Less(w, a, b) => ~Less(w, b, a)
         /\ ~Less(w, b, a) /\ ~Less(w, c, b) => ~Less(w, c, a)
BY PriorityAssumption DEF Less

\* A bin starts where an event comes strictly after the one in front of it.
Tops(w, s, k) == {i \in 1 .. k : i = 1 \/ Less(w, s[i - 1], s[i])}

\* The first k elements of s are different events in the order of w.
Queue(w, s, k) ==
  /\ \A i \in 1 .. k : s[i] \in Events
  /\ \A i, j \in 1 .. k : s[i] = s[j] => i = j
  /\ \A i, j \in 1 .. k : i < j => ~Less(w, s[j], s[i])

\* The walk of insert() or remove() for e stops behind the first n elements.
StopsAt(w, s, k, e, n) ==
  /\ \A i \in 1 .. n : Less(w, s[i], e)
  /\ \A i \in n + 1 .. k : ~Less(w, s[i], e)

\* The tops of the bins after e has been put in.
LEMMA TopsInsert ==
  ASSUME NEW w \in [Events -> Int], NEW k \in Nat, NEW s, Queue(w, s, k), NEW e \in Events,
         NEW n \in 0 .. k, StopsAt(w, s, k, e, n), NEW t, Spread(s, k, n, e, t),
         NEW joins, joins <=> (n < k /\ ~Less(w, e, s[n + 1]))
  PROVE  Tops(w, t, k + 1) = TopsWith(Tops(w, s, k), n, joins)
<1> DEFINE B == Tops(w, s, k)
<1>t. t[n + 1] = e /\ \A i \in 1 .. k : t[Up(n, i)] = s[i]
  BY Zenon DEF Spread
<1>1. ASSUME NEW i \in 1 .. n PROVE i \in Tops(w, t, k + 1) <=> i \in B
  <2>1. t[i] = s[i] /\ (i # 1 => t[i - 1] = s[i - 1])
    BY <1>t DEF Up
  <2> QED BY <2>1 DEF Tops
<1>2. n + 1 \in Tops(w, t, k + 1)
  <2>1. n # 0 => t[n] = s[n] /\ Less(w, s[n], e)
    BY <1>t DEF Up, StopsAt
  <2>2. (n + 1) - 1 = n
    OBVIOUS
  <2> QED BY <1>t, <2>1, <2>2 DEF Tops
<1>3. n < k => n + 1 \in B
  <2> SUFFICES ASSUME n < k, n # 0 PROVE Less(w, s[n], s[n + 1])
    BY DEF Tops
  <2>1. s[n] \in Events /\ s[n + 1] \in Events /\ Less(w, s[n], e) /\ ~Less(w, s[n + 1], e)
    BY DEF Queue, StopsAt
  <2> QED BY Zenon, <2>1, LessOrder
<1>4. n < k => (n + 2 \in Tops(w, t, k + 1) <=> ~joins)
  <2> SUFFICES ASSUME n < k PROVE n + 2 \in Tops(w, t, k + 1) <=> Less(w, e, s[n + 1])
    BY Zenon
  <2>1. t[n + 2] = s[n + 1] /\ (n + 2) - 1 = n + 1 /\ n + 2 # 1 /\ n + 2 \in 1 .. k + 1
    BY <1>t DEF Up
  <2> QED BY Zenon, <1>t, <2>1 DEF Tops
<1>5. ASSUME NEW i \in n + 2 .. k PROVE i + 1 \in Tops(w, t, k + 1) <=> i \in B
  <2>1. /\ i - 1 \in 1 .. k /\ i \in 1 .. k /\ Up(n, i - 1) = i /\ Up(n, i) = i + 1
        /\ (i + 1) - 1 = i /\ i + 1 # 1 /\ i # 1 /\ i + 1 \in 1 .. k + 1
    BY DEF Up
  <2>2. t[i] = s[i - 1] /\ t[i + 1] = s[i]
    BY Zenon, <1>t, <2>1
  <2> QED BY Zenon, <2>1, <2>2 DEF Tops
<1>6. ASSUME NEW j PROVE j \in Tops(w, t, k + 1) <=> j \in TopsWith(B, n, joins)
  <2>0. Tops(w, t, k + 1) \subseteq 1 .. k + 1 /\ B \subseteq 1 .. k
    BY Zenon DEF Tops
  <2> HIDE DEF B
  <2>1. ASSUME j \in TopsWith(B, n, joins) PROVE j \in Tops(w, t, k + 1)
    <3>1. CASE j = n + 1
      BY Zenon, <1>2, <3>1
    <3>2. CASE j \in B /\ j <= n
      BY <1>1, <2>0, <3>2
    <3>3. ASSUME NEW i \in B, n < i, ~(joins /\ i = n + 1), j = i + 1
          PROVE  j \in Tops(w, t, k + 1)
      <4>1. i \in 1 .. k
        BY Zenon, <2>0
      <4>2. CASE i = n + 1
        BY <1>4, <3>3, <4>1, <4>2
      <4>3. CASE i # n + 1
        BY <1>5, <3>3, <4>1, <4>3
      <4> QED BY Zenon, <4>2, <4>3
    <3> QED BY Zenon, <2>1, <3>1, <3>2, <3>3 DEF TopsWith
  <2>2. ASSUME j \in Tops(w, t, k + 1) PROVE j \in TopsWith(B, n, joins)
    <3>0. j \in 1 .. k + 1
      BY Zenon, <2>0, <2>2
    <3>1. CASE j = n + 1
      BY Zenon, <3>1 DEF TopsWith
    <3>2. CASE j <= n
      <4>1. j \in B
        BY <1>1, <2>2, <3>0, <3>2
      <4> QED BY Zenon, <3>2, <4>1 DEF TopsWith
    <3>3. CASE n + 1 < j
      <4> DEFINE i == j - 1
      <4>1. j = i + 1 /\ n < i /\ i \in 1 .. k
        BY <3>0, <3>3
      <4>2. i \in B /\ ~(joins /\ i = n + 1)
        <5>1. CASE i = n + 1
          <6>1. n < k /\ j = n + 2
            BY <4>1, <5>1
          <6> QED BY Zenon, <1>3, <1>4, <2>2, <5>1, <6>1
        <5>2. CASE i # n + 1
          <6>1. i \in n + 2 .. k
            BY <4>1, <5>2
          <6> QED BY Zenon, <1>5, <2>2, <4>1, <5>2, <6>1
        <5> QED BY Zenon, <5>1, <5>2
      <4> HIDE DEF i
      <4> QED BY Zenon, <4>1, <4>2 DEF TopsWith
    <3> QED BY <3>0, <3>1, <3>2, <3>3
  <2> QED BY Zenon, <2>1, <2>2
<1> QED BY Zenon, <1>6

\* The tops of the bins after an element has been taken out.
LEMMA TopsRemove ==
  ASSUME NEW w \in [Events -> Int], NEW k \in Nat, NEW s, Queue(w, s, k + 1),
         NEW n \in 0 .. k, NEW t, NEW e, Spread(t, k, n, e, s)
  PROVE  Tops(w, t, k) = TopsWithout(Tops(w, s, k + 1), k, n)
<1> DEFINE B == Tops(w, s, k + 1)
<1>t. \A i \in 1 .. k : t[i] = s[Up(n, i)]
  BY Zenon DEF Spread
<1>1. ASSUME NEW i \in 1 .. k, i # n + 1 PROVE i \in Tops(w, t, k) <=> Up(n, i) \in B
  <2>1. Up(n, i) \in 1 .. k + 1 /\ (Up(n, i) = 1 <=> i = 1)
    BY <1>1 DEF Up
  <2>2. i # 1 => i - 1 \in 1 .. k /\ Up(n, i - 1) = Up(n, i) - 1
    BY <1>1 DEF Up
  <2>3. i # 1 => t[i - 1] = s[Up(n, i) - 1]
    BY Zenon, <1>t, <2>2
  <2> QED BY Zenon, <1>t, <2>1, <2>3 DEF Tops
<1>2. ASSUME n + 1 \in 1 .. k
      PROVE  n + 1 \in Tops(w, t, k) <=> n + 1 \in B \/ Up(n, n + 1) \in B
  <2>1. CASE n = 0
    BY <1>2, <2>1 DEF Tops
  <2>2. CASE n # 0
    <3>1. /\ Up(n, n + 1) = n + 2 /\ Up(n, n) = n /\ n \in 1 .. k /\ (n + 1) - 1 = n
          /\ (n + 2) - 1 = n + 1 /\ n + 1 # 1 /\ n + 2 # 1 /\ n + 2 \in 1 .. k + 1
          /\ n + 1 \in 1 .. k + 1 /\ n < n + 1 /\ n + 1 < n + 2
      BY <1>2, <2>2 DEF Up
    <3>2. t[n + 1] = s[n + 2] /\ t[n] = s[n]
      BY Zenon, <1>t, <1>2, <3>1
    <3>3. /\ s[n] \in Events /\ s[n + 1] \in Events /\ s[n + 2] \in Events
          /\ ~Less(w, s[n + 1], s[n]) /\ ~Less(w, s[n + 2], s[n + 1])
      <4>1. n \in 1 .. k + 1
        BY <3>1
      <4> QED BY Zenon, <3>1, <4>1 DEF Queue
    <3>4. Less(w, s[n], s[n + 2]) <=> Less(w, s[n], s[n + 1]) \/ Less(w, s[n + 1], s[n + 2])
      BY Zenon, <3>3, LessOrder
    <3> QED BY Zenon, <1>2, <3>1, <3>2, <3>4 DEF Tops
  <2> QED BY Zenon, <2>1, <2>2
<1>3. ASSUME NEW i \in 1 .. k
      PROVE  i \in Tops(w, t, k) <=> Up(n, i) \in B \/ (i = n + 1 /\ n + 1 \in B)
  BY Zenon, <1>1, <1>2
<1>4. Tops(w, t, k) \subseteq 1 .. k
  BY Zenon DEF Tops
<1> HIDE DEF B
<1>5. Tops(w, t, k) = TopsWithout(B, k, n)
  BY Zenon, <1>3, <1>4 DEF TopsWithout
<1> QED BY Zenon, <1>5 DEF B

\* A set of positions up to n has a last one.
LEMMA LastOne ==
  ASSUME NEW n \in Nat, NEW T \in SUBSET (0 .. n), T # {}
  PROVE  \E p \in T : \A m \in T : m <= p
<1> DEFINE U == {n - i : i \in T}
<1>1. U \in SUBSET Nat /\ U # {}
  <2>1. \A i \in T : n - i \in Nat
    OBVIOUS
  <2>2. PICK i : i \in T
    BY Zenon
  <2>3. n - i \in U
    BY Zenon, <2>2
  <2> QED BY Zenon, <2>1, <2>3
<1>2. PICK u \in U : \A v \in U : u <= v
  BY Zenon, <1>1, Least
<1>3. PICK p \in T : u = n - p
  BY Zenon, <1>2
<1>4. ASSUME NEW m \in T PROVE m <= p
  <2>1. u <= n - m
    BY Zenon, <1>2
  <2>2. m \in 0 .. n /\ p \in 0 .. n
    BY Zenon
  <2> QED BY <1>3, <2>1, <2>2
<1> QED BY Zenon, <1>4

\* The last top in front of where a walk stops.
LEMMA StopsAtTop ==
  ASSUME NEW w \in [Events -> Int], NEW k \in Nat, NEW s, Queue(w, s, k), NEW e \in Events,
         NEW n \in 0 .. k, StopsAt(w, s, k, e, n)
  PROVE  \E p : LastTop(k, Tops(w, s, k), n, p) /\ (n # 0 => p # 0)
<1> DEFINE B == Tops(w, s, k)
           T == {i \in B \cup {0} : i <= n}
<1>1. T \in SUBSET (0 .. n) /\ 0 \in T /\ (n # 0 => 1 \in T)
  BY DEF Tops
<1>2. PICK p \in T : \A m \in T : m <= p
  <2> HIDE DEF T
  <2>1. n \in Nat /\ T # {}
    BY <1>1
  <2> QED BY Zenon, <1>1, <2>1, LastOne
<1>3. n # 0 => p # 0
  <2>1. p \in 0 .. n
    BY Zenon, <1>1
  <2> QED BY <1>1, <1>2, <2>1
<1>4. \A m \in B : m <= p \/ n < m
  <2>1. B \subseteq 1 .. k
    BY Zenon DEF Tops
  <2> HIDE DEF B
  <2> QED BY <1>2, <2>1
<1>5. n < k => n + 1 \in B
  <2> SUFFICES ASSUME n < k, n # 0 PROVE Less(w, s[n], s[n + 1])
    BY DEF Tops
  <2>1. s[n] \in Events /\ s[n + 1] \in Events /\ Less(w, s[n], e) /\ ~Less(w, s[n + 1], e)
    BY DEF Queue, StopsAt
  <2> QED BY Zenon, <2>1, LessOrder
<1> HIDE DEF B
<1>6. LastTop(k, B, n, p)
  BY Zenon, <1>2, <1>4, <1>5 DEF LastTop
<1> QED BY Zenon, <1>3, <1>6 DEF B

-----------------------------------------------------------------------------
(* The walks of insert() and remove() on lists that are laid out.          *)

Lists == [head : Pointers, nextBin : [Events -> Pointers], nextInBin : [Events -> Pointers]]

Laid(l, w, s, k) == Linked(l.head, l.nextBin, l.nextInBin, s, k, Tops(w, s, k))

\* The top after i is where nextBin leads.
LEMMA NextTop ==
  ASSUME NEW l \in Lists, NEW w, NEW s, NEW k \in Nat, Queue(w, s, k), Laid(l, w, s, k),
         NEW i \in Tops(w, s, k), NEW x, x = l.nextBin[s[i]]
  PROVE  \/ x = NULL /\ \A m \in Tops(w, s, k) : m <= i
         \/ \E j \in Tops(w, s, k) : /\ i < j /\ x = s[j] /\ x # NULL /\ x \in Events
                                     /\ \A m \in Tops(w, s, k) : m <= i \/ j <= m
<1>1. Points(x, s, Tops(w, s, k), i)
  BY Zenon DEF Laid, Linked
<1>2. \A j \in Tops(w, s, k) : s[j] \in Events /\ s[j] # NULL
  BY Zenon, EventsAssumption DEF Tops, Queue
<1> QED BY Zenon, <1>1, <1>2 DEF Points

\* The walk along the bins reaches the last bin in front of e.
LEMMA lastBinBeforeStops ==
  ASSUME NEW l \in Lists, NEW w, NEW s, NEW k \in Nat, Queue(w, s, k), Laid(l, w, s, k),
         NEW e \in Events, NEW n \in 1 .. k, StopsAt(w, s, k, e, n),
         NEW p, LastTop(k, Tops(w, s, k), n, p), p # 0
  PROVE  lastBinBefore(l, w, e) = s[p]
<1> DEFINE B == Tops(w, s, k)
           g == l.nextBin
           stop == {x \in Events : ~(g[x] # NULL /\ Less(w, g[x], e))}
           F(f) == [prev \in Events |-> IF g[prev] # NULL /\ Less(w, g[prev], e)
                                        THEN f[g[prev]] ELSE prev]
           walk == CHOOSE f : f = F(f)
<1>1. lastBinBefore(l, w, e) = walk[l.head]
  BY Zenon DEF lastBinBefore
<1>2. walk = F(walk)
  <2>1. \A x \in Events : x \notin stop => g[x] \in Events
    BY Zenon DEF Lists, Pointers
  <2>3. PICK f : IsWalk(f, Events, stop, g)
    <3> HIDE DEF stop, g
    <3> QED BY Zenon, <2>1, WalkExists
  <2>4. f = F(f)
    <3>1. \A x \in Events : x \notin stop <=> (g[x] # NULL /\ Less(w, g[x], e))
      BY Zenon
    <3> HIDE DEF stop, g
    <3> QED BY Zenon, <2>3, <3>1 DEF IsWalk
  <2>5. \E h : h = F(h)
    BY Zenon, <2>4
  <2> HIDE DEF F
  <2> QED BY Zenon, <2>5
<1> HIDE DEF walk
<1>3. \A x \in Events : walk[x] = IF g[x] # NULL /\ Less(w, g[x], e) THEN walk[g[x]] ELSE x
  BY Zenon, <1>2
<1>b. B \subseteq 1 .. k /\ p \in B /\ 1 \in B
  BY DEF LastTop, Tops
<1>e. \A i \in B : s[i] \in Events
  BY Zenon, <1>b DEF Queue
<1>4. \A i \in B : i <= p => walk[s[i]] = s[p]
  <2> DEFINE T == {i \in B : i <= p /\ walk[s[i]] # s[p]}
  <2> SUFFICES ASSUME T # {} PROVE FALSE
    BY Zenon
  <2>1. PICK i \in T : \A m \in T : m <= i
    <3>1. T \in SUBSET (0 .. k)
      BY <1>b
    <3> HIDE DEF T
    <3> QED BY Zenon, <3>1, LastOne
  <2>2. i \in B /\ i <= p /\ walk[s[i]] # s[p] /\ i \in 1 .. k /\ s[i] \in Events
    BY Zenon, <1>b, <1>e
  <2>3. ASSUME NEW j \in B, i < j, g[s[i]] = s[j], s[j] # NULL, \A m \in B : m <= i \/ j <= m
        PROVE  FALSE
    <3>1. j \in 1 .. k /\ p \in 1 .. k
      BY Zenon, <1>b
    <3>2. CASE j <= p
      <4>1. Less(w, s[j], e)
        <5>1. j \in 1 .. n
          BY <3>1, <3>2 DEF LastTop
        <5> QED BY Zenon, <5>1 DEF StopsAt
      <4>2. walk[s[i]] = walk[s[j]]
        BY Zenon, <1>3, <2>2, <2>3, <4>1
      <4>3. j \in T
        BY Zenon, <2>2, <3>2, <4>2
      <4> HIDE DEF T
      <4> QED BY <2>1, <2>2, <2>3, <3>1, <4>3
    <3>3. CASE p < j
      <4>1. p = i
        BY <1>b, <2>2, <2>3, <3>1, <3>3
      <4>2. n < j
        BY <3>1, <3>3 DEF LastTop
      <4>3. ~Less(w, s[j], e)
        <5>1. j \in n + 1 .. k
          BY <3>1, <4>2
        <5> QED BY Zenon, <5>1 DEF StopsAt
      <4>4. walk[s[i]] = s[i]
        BY Zenon, <1>3, <2>2, <2>3, <4>3
      <4> QED BY Zenon, <2>2, <4>1, <4>4
    <3> QED BY <3>1, <3>2, <3>3
  <2>4. CASE g[s[i]] = NULL /\ \A m \in B : m <= i
    <3>1. p = i
      BY <1>b, <2>2, <2>4
    <3>2. walk[s[i]] = s[i]
      BY Zenon, <1>3, <2>2, <2>4
    <3> QED BY Zenon, <2>2, <3>1, <3>2
  <2> DEFINE x == g[s[i]]
  <2>5. \/ x = NULL /\ \A m \in B : m <= i
        \/ \E j \in B : i < j /\ x = s[j] /\ x # NULL /\ x \in Events /\ \A m \in B : m <= i \/ j <= m
    BY <2>2, NextTop
  <2> HIDE DEF B, g, T
  <2> QED BY Zenon, <2>3, <2>4, <2>5
<1>5. l.head = s[1]
  <2>1. Points(l.head, s, B, 0)
    BY Zenon DEF Laid, Linked
  <2>2. ~ \A m \in B : m <= 0
    BY <1>b
  <2>3. PICK j \in B : 0 < j /\ l.head = s[j] /\ \A m \in B : m <= 0 \/ j <= m
    BY Zenon, <2>1, <2>2 DEF Points
  <2>4. j = 1
    BY <1>b, <2>3
  <2> QED BY Zenon, <2>3, <2>4
<1>6. 1 <= p
  BY <1>b
<1> HIDE DEF B, g
<1> QED BY Zenon, <1>1, <1>4, <1>5, <1>6, <1>b

\* The walk down a bin reaches the event above the one that is looked for.
LEMMA itemAboveStops ==
  ASSUME NEW l \in Lists, NEW w, NEW s, NEW k \in Nat, Queue(w, s, k), Laid(l, w, s, k),
         NEW b \in 1 .. k, NEW m \in 1 .. k, b < m, \A j \in b + 1 .. m : j \notin Tops(w, s, k)
  PROVE  itemAbove(l, s[m], s[b]) = s[m - 1]
<1> DEFINE e == s[m]
           g == l.nextInBin
           stop == {x \in Events : ~(g[x] # NULL /\ g[x] # e)}
           F(f) == [curr \in Events |-> IF g[curr] # NULL /\ g[curr] # e THEN f[g[curr]] ELSE curr]
           walk == CHOOSE f : f = F(f)
<1>1. itemAbove(l, e, s[b]) = walk[s[b]]
  BY Zenon DEF itemAbove
<1>2. walk = F(walk)
  <2>1. \A x \in Events : x \notin stop => g[x] \in Events
    BY Zenon DEF Lists, Pointers
  <2>3. PICK f : IsWalk(f, Events, stop, g)
    <3> HIDE DEF stop, g
    <3> QED BY Zenon, <2>1, WalkExists
  <2>4. f = F(f)
    <3>1. \A x \in Events : x \notin stop <=> (g[x] # NULL /\ g[x] # e)
      BY Zenon
    <3> HIDE DEF stop, g, e
    <3> QED BY Zenon, <2>3, <3>1 DEF IsWalk
  <2>5. \E h : h = F(h)
    BY Zenon, <2>4
  <2> HIDE DEF F
  <2> QED BY Zenon, <2>5
<1> HIDE DEF walk
<1>3. \A x \in Events : walk[x] = IF g[x] # NULL /\ g[x] # e THEN walk[g[x]] ELSE x
  BY Zenon, <1>2
<1>4. \A i \in b .. m - 1 : g[s[i]] = s[i + 1] /\ s[i] \in Events /\ s[i + 1] # NULL
  <2> SUFFICES ASSUME NEW i \in b .. m - 1
               PROVE  g[s[i]] = s[i + 1] /\ s[i] \in Events /\ s[i + 1] # NULL
    BY Zenon
  <2>1. i \in 1 .. k /\ i + 1 \in 1 .. k /\ i + 1 \in b + 1 .. m /\ i < k
    OBVIOUS
  <2>2. s[i] \in Events /\ s[i + 1] \in Events
    BY Zenon, <2>1 DEF Queue
  <2>3. g[s[i]] = IF i < k /\ i + 1 \notin Tops(w, s, k) THEN s[i + 1] ELSE NULL
    BY Zenon, <2>1 DEF Laid, Linked, Stacked
  <2> QED BY Zenon, <2>1, <2>2, <2>3, EventsAssumption
<1>5. ASSUME NEW i \in b .. m - 1 PROVE walk[s[i]] = s[m - 1]
  <2> DEFINE T == {a \in b .. m - 1 : walk[s[a]] # s[m - 1]}
  <2> SUFFICES ASSUME T # {} PROVE FALSE
    BY Zenon
  <2>1. PICK a \in T : \A c \in T : c <= a
    <3>1. T \in SUBSET (0 .. k)
      OBVIOUS
    <3> HIDE DEF T
    <3> QED BY Zenon, <3>1, LastOne
  <2>2. a \in b .. m - 1 /\ walk[s[a]] # s[m - 1]
    BY Zenon
  <2>3. CASE a = m - 1
    <3>1. a + 1 = m
      BY <2>3
    <3>2. g[s[a]] = e
      BY Zenon, <1>4, <2>2, <3>1
    <3> QED BY Zenon, <1>3, <1>4, <2>2, <2>3, <3>2
  <2>4. CASE a # m - 1
    <3>1. a + 1 \in b .. m - 1 /\ a + 1 \in 1 .. k /\ a + 1 # m
      BY <2>2, <2>4
    <3>2. s[a + 1] # e
      BY Zenon, <3>1 DEF Queue
    <3>3. walk[s[a]] = walk[s[a + 1]]
      BY Zenon, <1>3, <1>4, <2>2, <3>2
    <3>4. a + 1 \in T
      BY Zenon, <2>2, <3>1, <3>3
    <3>5. a + 1 <= a
      BY Zenon, <2>1, <3>4
    <3> QED BY <2>2, <3>5
  <2> QED BY Zenon, <2>3, <2>4
<1> QED BY <1>1, <1>5

\* The head is the first event.
LEMMA HeadLaid ==
  ASSUME NEW l \in Lists, NEW w, NEW s, NEW k \in Nat, Queue(w, s, k), Laid(l, w, s, k)
  PROVE  IF k = 0 THEN l.head = NULL ELSE l.head = s[1] /\ s[1] \in Events /\ s[1] # NULL
<1> DEFINE B == Tops(w, s, k)
<1>1. Points(l.head, s, B, 0)
  BY Zenon DEF Laid, Linked
<1>2. CASE k = 0
  <2>1. B = {}
    BY <1>2 DEF Tops
  <2> HIDE DEF B
  <2> QED BY Zenon, <1>1, <1>2, <2>1 DEF Points
<1>3. CASE k # 0
  <2>1. 1 \in B /\ B \subseteq 1 .. k
    BY <1>3 DEF Tops
  <2> HIDE DEF B
  <2>2. PICK j \in B : 0 < j /\ l.head = s[j] /\ \A m \in B : m <= 0 \/ j <= m
    BY <1>1, <2>1 DEF Points
  <2>3. j = 1
    BY <2>1, <2>2
  <2>4. s[1] \in Events
    BY <1>3 DEF Queue
  <2> QED BY Zenon, <1>3, <2>2, <2>3, <2>4, EventsAssumption
<1> QED BY Zenon, <1>2, <1>3

\* What a walk finds behind the bin at p, where it stopped.
LEMMA FoundLaid ==
  ASSUME NEW l \in Lists, NEW w, NEW s, NEW k \in Nat, Queue(w, s, k), Laid(l, w, s, k),
         NEW n \in 0 .. k, NEW p, LastTop(k, Tops(w, s, k), n, p)
  PROVE  IF n < k THEN /\ Link(l.head, l.nextBin, s, p) = s[n + 1]
                       /\ s[n + 1] \in Events /\ s[n + 1] # NULL
         ELSE Link(l.head, l.nextBin, s, p) = NULL
<1> DEFINE B == Tops(w, s, k)
           x == Link(l.head, l.nextBin, s, p)
<1>1. p \in B \cup {0} /\ p <= n /\ (\A m \in B : m <= p \/ n < m) /\ (n < k => n + 1 \in B)
  BY Zenon DEF LastTop
<1>2. Points(x, s, B, p)
  BY Zenon, <1>1, LinkPoints DEF Laid
<1>3. B \subseteq 1 .. k
  BY Zenon DEF Tops
<1>p. p \in 0 .. n
  <2>1. p \in 0 .. k
    BY <1>1, <1>3
  <2> QED BY <1>1, <2>1
<1> HIDE DEF B, x
<1>4. CASE n < k
  <2>1. n + 1 \in B /\ ~(n + 1 <= p)
    BY <1>1, <1>p, <1>4
  <2>2. PICK j \in B : p < j /\ x = s[j] /\ \A m \in B : m <= p \/ j <= m
    BY Zenon, <1>2, <2>1 DEF Points
  <2>3. j <= n + 1 /\ n < j /\ j \in 1 .. k
    BY <1>1, <1>3, <1>p, <2>1, <2>2
  <2>4. j = n + 1
    BY <2>3
  <2>5. s[n + 1] \in Events
    BY <1>4 DEF Queue
  <2> QED BY Zenon, <1>4, <2>2, <2>4, <2>5, EventsAssumption DEF x
<1>5. CASE ~(n < k)
  <2>1. \A m \in B : m <= p
    BY <1>1, <1>3, <1>5
  <2>2. ~ \E j \in B : p < j
    BY <1>3, <1>p, <2>1
  <2>3. x = NULL
    BY Zenon, <1>2, <2>2 DEF Points
  <2> QED BY Zenon, <1>5, <2>3 DEF x
<1> QED BY Zenon, <1>4, <1>5

\* operator<= is the complement of operator< the other way round.
LEMMA LessOrEqualNot ==
  ASSUME NEW w \in [Events -> Int], NEW a \in Events, NEW b \in Events
  PROVE  LessOrEqual(w, a, b) <=> ~Less(w, b, a)
BY PriorityAssumption DEF Less, LessOrEqual

\* insert() lays out the queue with e behind the events that come before it.
LEMMA InsertLaid ==
  ASSUME NEW l \in Lists, NEW w \in [Events -> Int], NEW s, NEW k \in Nat,
         Queue(w, s, k), Laid(l, w, s, k), NEW e \in Events, \A i \in 1 .. k : s[i] # e,
         NEW n \in 0 .. k, StopsAt(w, s, k, e, n), NEW t, Spread(s, k, n, e, t)
  PROVE  insert(l, w, e) \in Lists /\ Laid(insert(l, w, e), w, t, k + 1)
<1> DEFINE B == Tops(w, s, k)
           joins == n < k /\ ~Less(w, e, s[n + 1])
<1>1. PICK p : LastTop(k, B, n, p) /\ (n # 0 => p # 0)
  BY Zenon, StopsAtTop
<1>b. B \subseteq 1 .. k /\ p \in B \cup {0} /\ (p # 0 => p \in B /\ p \in 1 .. k /\ s[p] \in Events)
  <2>1. B \subseteq 1 .. k
    BY Zenon DEF Tops
  <2>2. p \in B \cup {0}
    BY Zenon, <1>1 DEF LastTop
  <2> HIDE DEF B
  <2> QED BY Zenon, <2>1, <2>2 DEF Queue
<1>n. n = 0 <=> p = 0
  BY <1>1, <1>b DEF LastTop
<1> DEFINE curr == Link(l.head, l.nextBin, s, p)
<1>2. IF n < k THEN curr = s[n + 1] /\ s[n + 1] \in Events /\ s[n + 1] # NULL ELSE curr = NULL
  BY Zenon, <1>1, FoundLaid
<1>3. joins <=> ~(curr = NULL \/ Less(w, e, curr))
  BY Zenon, <1>2
<1>4. curr \in Pointers /\ l.head \in Pointers /\ l.nextBin \in [Events -> Pointers]
      /\ l.nextInBin \in [Events -> Pointers] /\ NULL \in Pointers /\ e \in Pointers
      /\ (joins => curr \in Events)
  BY Zenon, <1>2 DEF Lists, Pointers
<1> DEFINE m == insertBefore(l, w, e, curr)
           nb == [l.nextBin EXCEPT ![e] = IF joins THEN l.nextBin[curr] ELSE curr]
           nib == [l.nextInBin EXCEPT ![e] = IF joins THEN curr ELSE NULL]
<1>5. m = [head |-> l.head, nextBin |-> nb, nextInBin |-> nib]
  <2> HIDE DEF joins, curr
  <2> QED BY Zenon, <1>3, <1>4 DEF insertBefore, Lists
<1>6. /\ nb \in [Events -> Pointers] /\ nib \in [Events -> Pointers]
      /\ nb[e] = (IF joins THEN l.nextBin[curr] ELSE curr)
      /\ nib[e] = (IF joins THEN curr ELSE NULL)
      /\ \A x \in Events : x # e => nb[x] = l.nextBin[x] /\ nib[x] = l.nextInBin[x]
  <2> HIDE DEF joins, curr
  <2> QED BY Zenon, <1>4
<1> DEFINE r == insert(l, w, e)
           rb == IF p = 0 THEN nb ELSE [nb EXCEPT ![s[p]] = e]
<1>7. r = [head |-> IF p = 0 THEN e ELSE l.head, nextBin |-> rb, nextInBin |-> nib]
  <2>1. CASE p = 0
    <3>1. curr = l.head
      BY Zenon, <2>1 DEF Link
    <3>2. l.head = NULL \/ LessOrEqual(w, e, l.head)
      <4>1. k # 0 => ~Less(w, s[1], e)
        BY <1>n, <2>1 DEF StopsAt
      <4> QED BY Zenon, <4>1, HeadLaid, LessOrEqualNot
    <3>3. r = [m EXCEPT !.head = e]
      <4> HIDE DEF curr
      <4> QED BY Zenon, <3>1, <3>2 DEF insert
    <3> HIDE DEF m, nb, nib, r
    <3> QED BY Zenon, <1>5, <2>1, <3>3
  <2>2. CASE p # 0
    <3>1. n \in 1 .. k /\ k # 0
      BY <1>n, <2>2
    <3>2. l.head = s[1] /\ s[1] \in Events /\ s[1] # NULL
      BY Zenon, <3>1, HeadLaid
    <3>3. ~(l.head = NULL \/ LessOrEqual(w, e, l.head))
      <4>1. Less(w, s[1], e)
        BY <3>1 DEF StopsAt
      <4> QED BY Zenon, <3>2, <4>1, LessOrEqualNot
    <3>4. lastBinBefore(l, w, e) = s[p]
      BY <1>1, <2>2, <3>1, lastBinBeforeStops
    <3>5. curr = l.nextBin[s[p]]
      BY Zenon, <2>2 DEF Link
    <3>6. r = [m EXCEPT !.nextBin[s[p]] = e]
      <4> HIDE DEF curr
      <4> QED BY Zenon, <3>3, <3>4, <3>5 DEF insert
    <3> HIDE DEF m, nb, nib, r
    <3> QED BY Zenon, <1>5, <2>2, <3>6
  <2> QED BY Zenon, <2>1, <2>2
<1> HIDE DEF nb, nib, curr, r
<1>8. r \in Lists
  BY Zenon, <1>4, <1>6, <1>7, <1>b DEF Lists
<1>9. Linked(r.head, r.nextBin, r.nextInBin, t, k + 1, TopsWith(B, n, joins))
  <2>1. /\ \A i \in 1 .. k : s[i] \in Events /\ s[i] # e
        /\ \A i, j \in 1 .. k : s[i] = s[j] => i = j
    BY Zenon DEF Queue
  <2>2. \A i \in 1 .. k : r.nextInBin[s[i]] = l.nextInBin[s[i]]
    BY Zenon, <1>6, <1>7, <2>1
  <2>3. \A i \in B : i # p => r.nextBin[s[i]] = l.nextBin[s[i]]
    <3> SUFFICES ASSUME NEW i \in B, i # p PROVE r.nextBin[s[i]] = l.nextBin[s[i]]
      BY Zenon
    <3>1. s[i] \in Events /\ s[i] # e /\ (p # 0 => s[i] # s[p])
      BY Zenon, <1>b, <2>1
    <3> QED BY Zenon, <1>6, <1>7, <1>b, <3>1
  <2>4. p # 0 => r.head = l.head
    BY Zenon, <1>7
  <2>5. Link(r.head, r.nextBin, s, p) = e
    BY Zenon, <1>6, <1>7, <1>b DEF Link
  <2>6. r.nextBin[e] = nb[e] /\ r.nextInBin[e] = nib[e]
    BY Zenon, <1>6, <1>7, <1>b, <2>1
  <2>7. joins => n < k
    BY Zenon
  <2>8. ~joins => r.nextBin[e] = Link(l.head, l.nextBin, s, p) /\ r.nextInBin[e] = NULL
    BY Zenon, <1>6, <2>6 DEF curr
  <2>9. joins => r.nextBin[e] = l.nextBin[s[n + 1]] /\ r.nextInBin[e] = s[n + 1]
    BY Zenon, <1>2, <1>6, <2>6
  <2>10. Linked(l.head, l.nextBin, l.nextInBin, s, k, B)
    BY Zenon DEF Laid
  <2>11. joins \in BOOLEAN
    BY Zenon
  <2> HIDE DEF joins, B
  <2>12. LinksIn(l.head, l.nextBin, l.nextInBin, r.head, r.nextBin, r.nextInBin, s, k, B, n, p,
                 joins, e)
    BY Zenon, <2>2, <2>3, <2>4, <2>5, <2>8, <2>9 DEF LinksIn
  <2> QED BY Zenon, <1>1, <2>7, <2>10, <2>11, <2>12, InsertLinked
<1>10. Tops(w, t, k + 1) = TopsWith(B, n, joins)
  <2>1. joins <=> (n < k /\ ~Less(w, e, s[n + 1]))
    BY Zenon
  <2> HIDE DEF joins
  <2> QED BY <2>1, TopsInsert
<1>11. Laid(r, w, t, k + 1)
  BY Zenon, <1>9, <1>10 DEF Laid
<1> QED BY Zenon, <1>8, <1>11 DEF r

\* The bin of the event at n + 1 starts at b, and remove() finds it behind p.
BinAt(l, w, s, k, n, b, p) ==
  /\ b \in Tops(w, s, k) /\ b <= n + 1 /\ (\A j \in b + 1 .. n + 1 : j \notin Tops(w, s, k))
  /\ TopBefore(Tops(w, s, k), b, p) /\ (p = 0 <=> b = 1)
  /\ Link(l.head, l.nextBin, s, p) = s[b]
  /\ Equal(w, s[b], s[n + 1])
  /\ l.head = s[1]
  /\ Equal(w, l.head, s[n + 1]) <=> b = 1
  /\ b # 1 => lastBinBefore(l, w, s[n + 1]) = s[p]

\* operator== holds where operator< holds neither way.
LEMMA LessEqual ==
  ASSUME NEW w \in [Events -> Int], NEW a \in Events, NEW b \in Events
  PROVE  /\ Equal(w, a, b) <=> ~Less(w, a, b) /\ ~Less(w, b, a)
         /\ ~Less(w, a, a)
BY PriorityAssumption DEF Less, Equal

\* The walk of remove() finds the bin that an element is in.
LEMMA BinFound ==
  ASSUME NEW l \in Lists, NEW w \in [Events -> Int], NEW s, NEW k \in Nat,
         Queue(w, s, k), Laid(l, w, s, k), NEW n \in 0 .. k - 1
  PROVE  \E b, p : BinAt(l, w, s, k, n, b, p)
<1> DEFINE B == Tops(w, s, k)
           e == s[n + 1]
<1>0. n + 1 \in 1 .. k /\ n \in Nat
  OBVIOUS
<1>q. /\ \A i \in 1 .. k : s[i] \in Events
      /\ \A i, j \in 1 .. k : i < j => ~Less(w, s[j], s[i])
  BY Zenon DEF Queue
<1>e. e \in Events /\ \A i \in 1 .. k : s[i] \in Events
  BY Zenon, <1>0, <1>q
<1>b. B \subseteq 1 .. k /\ 1 \in B
  BY <1>0 DEF Tops
<1>1. PICK b \in B : b <= n + 1 /\ \A j \in b + 1 .. n + 1 : j \notin B
  <2> DEFINE T == {i \in B : i <= n + 1}
  <2>1. T \in SUBSET (0 .. k) /\ 1 \in T
    BY <1>0, <1>b
  <2>2. PICK b \in T : \A m \in T : m <= b
    <3> HIDE DEF T
    <3> QED BY Zenon, <2>1, LastOne
  <2>3. ASSUME NEW j \in b + 1 .. n + 1 PROVE j \notin B
    <3>1. CASE j \in B
      <4>1. j \in T
        BY <2>3, <3>1
      <4>2. j <= b /\ b \in 1 .. k
        BY Zenon, <1>b, <2>2, <4>1
      <4> QED BY <2>3, <4>2
    <3> QED BY Zenon, <3>1
  <2> QED BY Zenon, <2>2, <2>3
<1>2. b \in 1 .. k /\ b \in 1 .. n + 1
  BY <1>b, <1>1
<1>3. \A j \in b .. n + 1 : ~Less(w, s[j], e)
  <2> DEFINE T == {j \in b .. n + 1 : Less(w, s[j], e)}
  <2> SUFFICES ASSUME T # {} PROVE FALSE
    BY Zenon
  <2>1. PICK j \in T : \A m \in T : m <= j
    <3>1. T \in SUBSET (0 .. k)
      BY <1>2
    <3> HIDE DEF T
    <3> QED BY Zenon, <3>1, LastOne
  <2>2. j \in b .. n + 1 /\ Less(w, s[j], e)
    BY Zenon
  <2>3. j # n + 1
    BY Zenon, <1>e, <2>2, LessEqual
  <2>4. j + 1 \in b + 1 .. n + 1 /\ j \in 1 .. k /\ j + 1 \in 1 .. k /\ j + 1 \in b .. n + 1
    BY <1>2, <2>2, <2>3
  <2>5. ~Less(w, s[j + 1], e)
    <3>1. CASE Less(w, s[j + 1], e)
      <4>1. j + 1 \in T
        BY Zenon, <2>4, <3>1
      <4>2. j + 1 <= j
        BY Zenon, <2>1, <4>1
      <4> QED BY <2>4, <4>2
    <3> QED BY Zenon, <3>1
  <2>6. ~Less(w, s[j], s[j + 1])
    <3>1. j + 1 \notin B /\ j + 1 # 1 /\ (j + 1) - 1 = j
      BY <1>1, <2>4
    <3> QED BY Zenon, <2>4, <3>1 DEF Tops
  <2>7. s[j] \in Events /\ s[j + 1] \in Events
    BY Zenon, <1>e, <2>4
  <2> HIDE DEF e
  <2> QED BY Zenon, <1>e, <2>2, <2>5, <2>6, <2>7, LessOrder
<1>4. \A i \in 1 .. b - 1 : Less(w, s[i], e)
  <2> SUFFICES ASSUME NEW i \in 1 .. b - 1 PROVE Less(w, s[i], e)
    BY Zenon
  <2>1. b # 1 /\ b - 1 \in 1 .. k /\ i \in 1 .. k
    BY <1>2
  <2>2. Less(w, s[b - 1], s[b])
    BY Zenon, <2>1 DEF Tops
  <2>3. ~Less(w, s[b - 1], s[i])
    <3>1. i = b - 1 \/ i < b - 1
      BY <1>2
    <3> QED BY Zenon, <1>e, <1>q, <2>1, <3>1, LessEqual
  <2>4. ~Less(w, e, s[b])
    <3>1. b = n + 1 \/ b < n + 1
      BY <1>2
    <3> QED BY Zenon, <1>0, <1>2, <1>e, <1>q, <3>1, LessEqual
  <2>5. s[b] \in Events /\ s[b - 1] \in Events /\ s[i] \in Events
    BY Zenon, <1>2, <1>e, <2>1
  <2>6. Less(w, s[i], s[b])
    BY Zenon, <2>2, <2>3, <2>5, LessOrder
  <2> HIDE DEF e
  <2> QED BY Zenon, <1>e, <2>4, <2>5, <2>6, LessOrder
<1>5. StopsAt(w, s, k, e, b - 1)
  <2>1. ASSUME NEW i \in (b - 1) + 1 .. k PROVE ~Less(w, s[i], e)
    <3>1. i \in b .. n + 1 \/ (n + 1 < i /\ i \in 1 .. k)
      BY <1>0, <1>2
    <3>2. CASE n + 1 < i /\ i \in 1 .. k
      BY Zenon, <1>0, <1>q, <3>2
    <3> QED BY Zenon, <1>3, <3>1, <3>2
  <2> QED BY Zenon, <1>4, <2>1 DEF StopsAt
<1>c. b - 1 \in 0 .. k /\ b - 1 < k /\ (b - 1) + 1 = b
  BY <1>2
<1> DEFINE c == b - 1
<1> HIDE DEF c, e, B
<1>6. PICK p : LastTop(k, B, c, p) /\ (c # 0 => p # 0)
  BY <1>5, <1>c, <1>e, StopsAtTop DEF c, B
<1>7. TopBefore(B, b, p) /\ (p = 0 <=> b = 1)
  <2>1. p \in B \cup {0} /\ p <= c /\ (\A m \in B : m <= p \/ c < m)
    BY Zenon, <1>6 DEF LastTop
  <2>2. p \in 0 .. k
    BY <1>b, <2>1
  <2>3. p < b /\ (p = 0 <=> b = 1)
    BY <1>2, <1>6, <2>1, <2>2 DEF c
  <2>4. \A m \in B : m <= p \/ b <= m
    BY <1>2, <1>b, <2>1 DEF c
  <2> QED BY Zenon, <2>1, <2>3, <2>4 DEF TopBefore
<1>8. Link(l.head, l.nextBin, s, p) = s[b]
  <2>1. c \in 0 .. k /\ c < k /\ c + 1 = b
    BY Zenon, <1>c DEF c
  <2> QED BY Zenon, <1>6, <2>1, FoundLaid DEF B
<1>9. Equal(w, s[b], e)
  <2>1. ~Less(w, s[b], e)
    BY <1>2, <1>3
  <2>2. ~Less(w, e, s[b])
    <3>1. b = n + 1 \/ b < n + 1
      BY <1>2
    <3> QED BY Zenon, <1>0, <1>2, <1>e, <1>q, <3>1, LessEqual DEF e
  <2> QED BY Zenon, <1>2, <1>e, <2>1, <2>2, LessEqual
<1>10. l.head = s[1]
  BY <1>0, HeadLaid
<1>11. Equal(w, l.head, e) <=> b = 1
  <2>1. b # 1 => Less(w, s[1], e)
    BY <1>2, <1>4
  <2>2. 1 \in 1 .. k /\ s[1] \in Events
    BY <1>2, <1>e
  <2> QED BY Zenon, <1>9, <1>10, <1>e, <2>1, <2>2, LessEqual
<1>12. b # 1 => lastBinBefore(l, w, e) = s[p]
  <2> SUFFICES ASSUME b # 1 PROVE lastBinBefore(l, w, e) = s[p]
    BY Zenon
  <2>1. c \in 1 .. k /\ p # 0 /\ StopsAt(w, s, k, e, c)
    BY <1>2, <1>5, <1>7 DEF c
  <2> QED BY <1>6, <1>e, <2>1, lastBinBeforeStops DEF B
<1>13. BinAt(l, w, s, k, n, b, p)
  BY Zenon, <1>1, <1>7, <1>8, <1>9, <1>10, <1>11, <1>12 DEF BinAt, B, e
<1> QED BY Zenon, <1>13

\* The lists with the link at p set to x: what insert() and remove() do at the end.
Relink(l, s, p, x) ==
  IF p = 0 THEN [l EXCEPT !.head = x] ELSE [l EXCEPT !.nextBin[s[p]] = x]

Relinked(l, r, s, p, x) ==
  /\ r \in Lists /\ r.nextInBin = l.nextInBin /\ (p # 0 => r.head = l.head)
  /\ Link(r.head, r.nextBin, s, p) = x
  /\ \A y \in Events : (p # 0 => y # s[p]) => r.nextBin[y] = l.nextBin[y]

\* What storing a pointer at the head, or at the top of a bin, changes.
LEMMA RelinkFields ==
  ASSUME NEW l \in Lists, NEW s, NEW p, p # 0 => s[p] \in Events, NEW x \in Pointers,
         NEW r, r = Relink(l, s, p, x)
  PROVE  Relinked(l, r, s, p, x)
<1>1. CASE p = 0
  BY Zenon, <1>1 DEF Relink, Lists, Link, Relinked
<1>2. CASE p # 0
  BY Zenon, <1>2 DEF Relink, Lists, Link, Relinked
<1> QED BY Zenon, <1>1, <1>2

\* remove() is removeItem() on the bin that was found, and the link to it.
LEMMA RemoveFinds ==
  ASSUME NEW l \in Lists, NEW w, NEW s, NEW k, NEW n, NEW b, NEW p, BinAt(l, w, s, k, n, b, p),
         NEW e, e = s[n + 1]
  PROVE  remove(l, w, e) = Relink(removeItem(l, e, s[b])[1], s, p, removeItem(l, e, s[b])[2])
<1>1. CASE b = 1
  <2>1. Equal(w, l.head, e) /\ p = 0 /\ l.head = s[b]
    BY Zenon, <1>1 DEF BinAt
  <2> QED BY Zenon, <2>1 DEF remove, Relink
<1>2. CASE b # 1
  <2>1. ~Equal(w, l.head, e) /\ p # 0 /\ lastBinBefore(l, w, e) = s[p] /\ l.nextBin[s[p]] = s[b]
    BY Zenon, <1>2 DEF BinAt, Link
  <2> QED BY Zenon, <2>1 DEF remove, Relink
<1> QED BY Zenon, <1>1, <1>2

\* remove() finds e, at n + 1, and lays out the queue without it.
LEMMA RemoveLaid ==
  ASSUME NEW l \in Lists, NEW w \in [Events -> Int], NEW s, NEW k \in Nat,
         Queue(w, s, k + 1), Laid(l, w, s, k + 1), NEW n \in 0 .. k,
         NEW t, NEW e, Spread(t, k, n, e, s)
  PROVE  /\ remove(l, w, e) \in Lists
         /\ Laid(remove(l, w, e), w, t, k)
         /\ findable(l, w, e)
<1> DEFINE B == Tops(w, s, k + 1)
<1>0. n + 1 \in 1 .. k + 1 /\ n \in 0 .. (k + 1) - 1 /\ k + 1 \in Nat
  OBVIOUS
<1>1. PICK b, p : BinAt(l, w, s, k + 1, n, b, p)
  BY Zenon, <1>0, BinFound
<1>e. e = s[n + 1] /\ e \in Events /\ e \in Pointers
  BY Zenon, <1>0 DEF Queue, Spread, Pointers
<1>q. /\ \A i \in 1 .. k + 1 : s[i] \in Events /\ s[i] # NULL
      /\ \A i, j \in 1 .. k + 1 : s[i] = s[j] => i = j
  BY Zenon, EventsAssumption DEF Queue
<1>2. /\ b \in B /\ b <= n + 1 /\ (\A j \in b + 1 .. n + 1 : j \notin B)
      /\ TopBefore(B, b, p) /\ (p = 0 <=> b = 1)
      /\ Link(l.head, l.nextBin, s, p) = s[b] /\ Equal(w, s[b], e)
      /\ l.head = s[1] /\ (Equal(w, l.head, e) <=> b = 1)
      /\ (b # 1 => lastBinBefore(l, w, e) = s[p])
  BY Zenon, <1>1, <1>e DEF BinAt
<1>b. B \subseteq 1 .. k + 1
  BY Zenon DEF Tops
<1>3. /\ b \in 1 .. n + 1 /\ b \in 1 .. k + 1 /\ p \in B \cup {0} /\ p < b
      /\ (p # 0 => p \in 1 .. k + 1 /\ s[p] \in Events)
  <2>1. p \in B \cup {0} /\ p < b
    BY Zenon, <1>2 DEF TopBefore
  <2>2. b \in 1 .. k + 1
    BY Zenon, <1>2, <1>b
  <2> HIDE DEF B
  <2> QED BY <1>2, <1>b, <1>q, <2>1, <2>2
<1>t. \A i \in 1 .. k : t[i] \in Events /\ t[i] = s[Up(n, i)] /\ Up(n, i) \in 1 .. k + 1
  <2>1. \A i \in 1 .. k : Up(n, i) \in 1 .. k + 1
    BY DEF Up
  <2> QED BY Zenon, <1>q, <2>1 DEF Spread
<1>l. /\ l.head \in Pointers /\ l.nextBin \in [Events -> Pointers]
      /\ l.nextInBin \in [Events -> Pointers]
  BY Zenon DEF Lists
<1>4. Linked(l.head, l.nextBin, l.nextInBin, s, k + 1, B)
  BY Zenon DEF Laid
<1>5. Tops(w, t, k) = TopsWithout(B, k, n)
  BY Zenon, TopsRemove
<1> DEFINE r == remove(l, w, e)
           i1 == removeItem(l, e, s[b])[1]
           i2 == removeItem(l, e, s[b])[2]
<1>6. r = Relink(i1, s, p, i2)
  BY <1>1, <1>e, RemoveFinds
<1>7. CASE b = n + 1
  <2>0. e = s[b] /\ n + 1 \in B
    BY Zenon, <1>2, <1>e, <1>7
  <2> DEFINE next == l.nextInBin[e]
  <2>1. next \in Pointers /\ l.nextBin[e] \in Pointers
    BY Zenon, <1>e, <1>l
  <2>f. findable(l, w, e)
    <3>1. LET top == IF Equal(w, l.head, e) THEN l.head ELSE l.nextBin[lastBinBefore(l, w, e)]
          IN  top = s[b]
      BY Zenon, <1>2 DEF Link
    <3> QED BY <1>2, <1>3, <1>q, <2>0, <3>1 DEF findable
  <2>2. CASE next = NULL
    <3>1. i1 = l /\ i2 = l.nextBin[e]
      BY Zenon, <2>0, <2>2 DEF removeItem
    <3> HIDE DEF i1, i2, r
    <3>2. /\ r \in Lists /\ r.nextInBin = l.nextInBin /\ (p # 0 => r.head = l.head)
          /\ Link(r.head, r.nextBin, s, p) = l.nextBin[e]
          /\ \A y \in Events : (p # 0 => y # s[p]) => r.nextBin[y] = l.nextBin[y]
      <4>1. Relinked(l, r, s, p, l.nextBin[e])
        BY Zenon, <1>3, <1>6, <2>1, <3>1, RelinkFields
      <4> QED BY Zenon, <4>1 DEF Relinked
    <3>3. \A i \in B : i # p => r.nextBin[s[i]] = l.nextBin[s[i]]
      <4> HIDE DEF B
      <4> QED BY Zenon, <1>3, <1>b, <1>q, <3>2
    <3>4. LinksOut(l.head, l.nextBin, l.nextInBin, r.head, r.nextBin, r.nextInBin, s, t, k, B, n, p, e)
      <4> HIDE DEF B
      <4> QED BY Zenon, <2>2, <3>2, <3>3 DEF LinksOut
    <3> HIDE DEF B
    <3>5. Linked(r.head, r.nextBin, r.nextInBin, t, k, TopsWithout(B, k, n))
      BY Zenon, <1>2, <1>4, <1>7, <1>q, <2>0, <3>4, RemoveTop
    <3> QED BY Zenon, <1>5, <2>f, <3>2, <3>5 DEF Laid, r
  <2>3. CASE next # NULL
    <3> DEFINE m == [l EXCEPT !.nextBin[next] = l.nextBin[e]]
    <3>1. i1 = m /\ i2 = next
      BY Zenon, <2>0, <2>3 DEF removeItem
    <3>2. next \in Events
      BY Zenon, <2>1, <2>3 DEF Pointers
    <3>3. /\ m \in Lists /\ m.head = l.head /\ m.nextInBin = l.nextInBin
          /\ m.nextBin[next] = l.nextBin[e]
          /\ \A y \in Events : y # next => m.nextBin[y] = l.nextBin[y]
      BY Zenon, <1>l, <2>1, <3>2 DEF Lists
    <3>4. n < k /\ n + 2 \notin B /\ next = s[n + 2]
      <4>1. next = IF n + 1 < k + 1 /\ (n + 1) + 1 \notin B THEN s[(n + 1) + 1] ELSE NULL
        BY Zenon, <1>0, <1>4, <1>e DEF Linked, Stacked
      <4> HIDE DEF next, B
      <4> QED BY <2>3, <4>1
    <3> HIDE DEF m, i1, i2, r
    <3>5. /\ r \in Lists /\ r.nextInBin = m.nextInBin /\ (p # 0 => r.head = m.head)
          /\ Link(r.head, r.nextBin, s, p) = next
          /\ \A y \in Events : (p # 0 => y # s[p]) => r.nextBin[y] = m.nextBin[y]
      <4>1. Relinked(m, r, s, p, next)
        BY Zenon, <1>3, <1>6, <2>1, <3>1, <3>3, RelinkFields
      <4> QED BY Zenon, <4>1 DEF Relinked
    <3>6. \A i \in B : i # p => r.nextBin[s[i]] = l.nextBin[s[i]]
      <4> SUFFICES ASSUME NEW i \in B, i # p PROVE r.nextBin[s[i]] = l.nextBin[s[i]]
        BY Zenon
      <4>1. i \in 1 .. k + 1 /\ i # n + 2 /\ n + 2 \in 1 .. k + 1
        BY <1>b, <3>4
      <4>2. s[i] \in Events /\ s[i] # next /\ (p # 0 => s[i] # s[p])
        BY Zenon, <1>3, <1>q, <3>4, <4>1
      <4> QED BY Zenon, <3>3, <3>5, <4>2
    <3>7. r.nextBin[next] = l.nextBin[e]
      <4>1. p # 0 => p # n + 2 /\ n + 2 \in 1 .. k + 1
        BY <1>3, <1>7, <3>4
      <4>2. p # 0 => next # s[p]
        BY Zenon, <1>3, <1>q, <3>4, <4>1
      <4> QED BY Zenon, <3>2, <3>3, <3>5, <4>2
    <3>8. LinksOut(l.head, l.nextBin, l.nextInBin, r.head, r.nextBin, r.nextInBin, s, t, k, B, n, p, e)
      <4> HIDE DEF B
      <4> QED BY Zenon, <2>3, <3>3, <3>5, <3>6, <3>7 DEF LinksOut
    <3> HIDE DEF B
    <3>9. Linked(r.head, r.nextBin, r.nextInBin, t, k, TopsWithout(B, k, n))
      BY Zenon, <1>2, <1>4, <1>7, <1>q, <2>0, <3>8, RemoveTop
    <3> QED BY Zenon, <1>5, <2>f, <3>5, <3>9 DEF Laid, r
  <2> QED BY Zenon, <2>2, <2>3
<1>8. CASE b # n + 1
  <2>0. b < n + 1 /\ n + 1 \in b + 1 .. n + 1 /\ n + 1 \notin B /\ n \in 1 .. k + 1 /\ n \in 1 .. k
        /\ n # n + 1 /\ (n + 1) - 1 = n
    <3>1. b < n + 1
      BY <1>3, <1>8
    <3>2. n + 1 \in b + 1 .. n + 1 /\ n \in 1 .. k + 1 /\ n \in 1 .. k /\ n # n + 1 /\ (n + 1) - 1 = n
      BY <1>3, <3>1
    <3> QED BY Zenon, <1>2, <3>1, <3>2
  <2>1. e # s[b] /\ s[n] \in Events /\ s[n] # e /\ s[b] \in Pointers
    BY Zenon, <1>0, <1>3, <1>8, <1>e, <1>q, <2>0 DEF Pointers
  <2>2. itemAbove(l, e, s[b]) = s[n]
    <3>1. itemAbove(l, s[n + 1], s[b]) = s[(n + 1) - 1]
      BY <1>0, <1>2, <1>3, <2>0, itemAboveStops
    <3> QED BY Zenon, <1>e, <2>0, <3>1
  <2> DEFINE m == [l EXCEPT !.nextInBin[s[n]] = l.nextInBin[e]]
  <2>3. i1 = m /\ i2 = s[b]
    BY Zenon, <2>1, <2>2 DEF removeItem
  <2>4. /\ m \in Lists /\ m.head = l.head /\ m.nextBin = l.nextBin
        /\ m.nextInBin[s[n]] = l.nextInBin[e]
        /\ \A y \in Events : y # s[n] => m.nextInBin[y] = l.nextInBin[y]
    <3>1. l.nextInBin[e] \in Pointers
      BY Zenon, <1>e, <1>l
    <3> QED BY Zenon, <1>l, <2>1, <3>1 DEF Lists
  <2> HIDE DEF m, i1, i2, r
  <2>5. /\ r \in Lists /\ r.nextInBin = m.nextInBin /\ (p # 0 => r.head = m.head)
        /\ Link(r.head, r.nextBin, s, p) = s[b]
        /\ \A y \in Events : (p # 0 => y # s[p]) => r.nextBin[y] = m.nextBin[y]
    <3>1. Relinked(m, r, s, p, s[b])
      BY Zenon, <1>3, <1>6, <2>1, <2>3, <2>4, RelinkFields
    <3> QED BY Zenon, <3>1 DEF Relinked
  <2>6. r.head = l.head
    BY Zenon, <1>2, <2>4, <2>5 DEF Link
  <2>7. \A i \in B : r.nextBin[s[i]] = l.nextBin[s[i]]
    <3> SUFFICES ASSUME NEW i \in B PROVE r.nextBin[s[i]] = l.nextBin[s[i]]
      BY Zenon
    <3>1. i \in 1 .. k + 1 /\ s[i] \in Events
      BY Zenon, <1>b, <1>q
    <3>2. CASE p # 0 /\ s[i] = s[p]
      BY Zenon, <1>2, <2>5, <3>2 DEF Link
    <3> QED BY <2>4, <2>5, <3>1, <3>2
  <2>8. \A i \in 1 .. k : i # n => r.nextInBin[t[i]] = l.nextInBin[t[i]]
    <3> SUFFICES ASSUME NEW i \in 1 .. k, i # n PROVE r.nextInBin[t[i]] = l.nextInBin[t[i]]
      BY Zenon
    <3>1. Up(n, i) # n
      BY DEF Up
    <3>2. t[i] # s[n] /\ t[i] \in Events
      BY Zenon, <1>q, <1>t, <2>0, <3>1
    <3> QED BY Zenon, <2>4, <2>5, <3>2
  <2>9. LinksPast(l.nextBin, l.nextInBin, r.nextBin, r.nextInBin, s, t, k, B, n, e)
    <3> HIDE DEF B
    <3> QED BY Zenon, <2>4, <2>5, <2>7, <2>8 DEF LinksPast
  <2>f. findable(l, w, e)
    <3>1. LET top == IF Equal(w, l.head, e) THEN l.head ELSE l.nextBin[lastBinBefore(l, w, e)]
          IN  top = s[b]
      BY Zenon, <1>2 DEF Link
    <3>2. l.nextInBin[s[n]] = s[n + 1]
      <4>1. l.nextInBin[s[n]] = IF n < k + 1 /\ n + 1 \notin B THEN s[n + 1] ELSE NULL
        BY Zenon, <1>4, <2>0 DEF Linked, Stacked
      <4> HIDE DEF B
      <4> QED BY <2>0, <4>1
    <3> QED BY <1>2, <1>3, <1>e, <1>q, <2>2, <3>1, <3>2 DEF findable
  <2> HIDE DEF B
  <2>10. Linked(l.head, r.nextBin, r.nextInBin, t, k, TopsWithout(B, k, n))
    BY Zenon, <1>4, <2>0, <2>9, RemoveBelow
  <2> QED BY Zenon, <1>5, <2>5, <2>6, <2>10, <2>f DEF Laid, r
<1> QED BY Zenon, <1>7, <1>8

\* serviceOne() takes off the head as remove() does.
LEMMA PopRemoves ==
  ASSUME NEW l \in Lists, NEW w, l.head \in Events
  PROVE  popHead(l) = remove(l, w, l.head)
<1>1. Equal(w, l.head, l.head)
  BY Zenon DEF Equal
<1>2. remove(l, w, l.head) = [removeItem(l, l.head, l.head)[1] EXCEPT !.head = removeItem(l, l.head, l.head)[2]]
  BY Zenon, <1>1 DEF remove
<1> DEFINE next == l.nextInBin[l.head]
<1>3. CASE next = NULL
  <2>1. removeItem(l, l.head, l.head)[1] = l /\ removeItem(l, l.head, l.head)[2] = l.nextBin[l.head]
    BY Zenon, <1>3 DEF removeItem
  <2> QED BY Zenon, <1>2, <1>3, <2>1 DEF popHead
<1>4. CASE next # NULL
  <2>1. /\ removeItem(l, l.head, l.head)[1] = [l EXCEPT !.nextBin[next] = l.nextBin[l.head]]
        /\ removeItem(l, l.head, l.head)[2] = next
    BY Zenon, <1>4 DEF removeItem
  <2> QED BY Zenon, <1>2, <1>4, <2>1 DEF popHead, Lists
<1> QED BY Zenon, <1>3, <1>4

=============================================================================

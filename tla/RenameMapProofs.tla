-------------------------- MODULE RenameMapProofs --------------------------
(***************************************************************************)
(* No physical register leaks and none is handed out twice, for every number *)
(* of registers and every order of renames, squashes and commits.            *)
(*                                                                         *)
(* RegistersConserved alone is not inductive: undoing a rename puts its new  *)
(* register on the free list and its previous one back into the map, which   *)
(* keeps every register in one place only if the new one is what the map     *)
(* holds.  Linked says so of the whole history: the youngest rename of an    *)
(* architectural register made its present mapping, and each older one made  *)
(* the mapping that the next younger one replaced.                          *)
(***************************************************************************)
EXTENDS RenameMap, TLAPS, SequenceTheorems

TypeInv ==
    regs \in [map : [ArchRegs -> PhysRegs], free : Seq(PhysRegs),
              history : Seq(RenameHistory)]

\* Nothing between i and j in the history renames what i and j rename.
Adjacent(h, i, j) ==
    /\ h[i].archReg = h[j].archReg
    /\ \A k \in (i + 1)..(j - 1) : h[k].archReg # h[i].archReg

Linked(r) ==
    /\ \A i \in 1..Len(r.history) :
         (\A k \in 1..(i - 1) : r.history[k].archReg # r.history[i].archReg)
         => r.history[i].newPhysReg = r.map[r.history[i].archReg]
    /\ \A i, j \in 1..Len(r.history) :
         i < j /\ Adjacent(r.history, i, j)
         => r.history[i].prevPhysReg = r.history[j].newPhysReg

IInv == TypeInv /\ Linked(regs) /\ RegistersConserved

----------------------------------------------------------------------------

\* What the type says of the parts.
LEMMA Typed ==
    ASSUME TypeInv
    PROVE  /\ regs.map \in [ArchRegs -> PhysRegs]
           /\ Len(regs.free) \in Nat /\ Len(regs.history) \in Nat
           /\ \A i \in 1..Len(regs.history) :
                /\ regs.history[i].archReg \in ArchRegs
                /\ regs.history[i].newPhysReg \in PhysRegs
                /\ regs.history[i].prevPhysReg \in PhysRegs
<1>1. /\ regs.map \in [ArchRegs -> PhysRegs]
      /\ regs.free \in Seq(PhysRegs)
      /\ regs.history \in Seq(RenameHistory)
  BY DEF TypeInv
<1>2. \A i \in 1..Len(regs.history) : regs.history[i] \in RenameHistory
  BY <1>1
<1>3. \A x \in RenameHistory : /\ x.archReg \in ArchRegs
                               /\ x.newPhysReg \in PhysRegs
                               /\ x.prevPhysReg \in PhysRegs
  BY DEF RenameHistory
<1> QED
  BY <1>1, <1>2, <1>3

\* A rename pushes an entry on the history and takes the head of the free list
\* (SimpleRenameMap::rename, SimpleFreeList::getReg).
LEMMA RenameStep ==
    ASSUME TypeInv, NEW a \in ArchRegs, NEW sn \in Nat, Rename(a, sn)
    PROVE  /\ TypeInv'
           /\ Len(regs.free) > 0 /\ regs.free[1] \in PhysRegs
           /\ regs'.map = [regs.map EXCEPT ![a] = regs.free[1]]
           /\ Len(regs'.free) = Len(regs.free) - 1
           /\ \A i \in 1..Len(regs'.free) : regs'.free[i] = regs.free[i + 1]
           /\ Len(regs'.history) = Len(regs.history) + 1
           /\ regs'.history[1] =
                [instSeqNum |-> sn, archReg |-> a, newPhysReg |-> regs.free[1],
                 prevPhysReg |-> regs.map[a]]
           /\ \A i \in 1..Len(regs.history) :
                regs'.history[i + 1] = regs.history[i]
<1> DEFINE e == [instSeqNum |-> sn, archReg |-> a, newPhysReg |-> Head(regs.free),
                 prevPhysReg |-> regs.map[a]]
<1>1. /\ regs.map \in [ArchRegs -> PhysRegs]
      /\ regs.free \in Seq(PhysRegs)
      /\ regs.history \in Seq(RenameHistory)
  BY DEF TypeInv
<1>2. Len(regs.free) > 0 /\ regs.free # <<>>
  BY <1>1 DEF Rename, numFreeRegs
<1>3. Head(regs.free) = regs.free[1] /\ regs.free[1] \in PhysRegs
  BY <1>1, <1>2
<1>4. e \in RenameHistory
  BY <1>1, <1>3 DEF RenameHistory
<1>5. regs' = [map |-> [regs.map EXCEPT ![a] = Head(regs.free)],
               free |-> Tail(regs.free), history |-> <<e>> \o regs.history]
  BY DEF Rename, renameReg
<1>6. /\ regs'.map = [regs.map EXCEPT ![a] = Head(regs.free)]
      /\ regs'.free = Tail(regs.free)
      /\ regs'.history = <<e>> \o regs.history
  BY <1>5
<1>7. /\ Tail(regs.free) \in Seq(PhysRegs)
      /\ Len(Tail(regs.free)) = Len(regs.free) - 1
      /\ \A i \in 1..Len(Tail(regs.free)) :
           Tail(regs.free)[i] = regs.free[i + 1]
  BY <1>1, <1>2
<1> HIDE DEF e
<1>8. <<e>> \in Seq(RenameHistory) /\ Len(<<e>>) = 1 /\ <<e>>[1] = e
  BY <1>4
<1>9. /\ <<e>> \o regs.history \in Seq(RenameHistory)
      /\ Len(<<e>> \o regs.history) = Len(regs.history) + 1
      /\ (<<e>> \o regs.history)[1] = e
      /\ \A i \in 1..Len(regs.history) :
           (<<e>> \o regs.history)[i + 1] = regs.history[i]
  BY <1>1, <1>8
<1>10. TypeInv'
  BY <1>1, <1>3, <1>5, <1>7, <1>9 DEF TypeInv
<1>11. e = [instSeqNum |-> sn, archReg |-> a, newPhysReg |-> regs.free[1],
            prevPhysReg |-> regs.map[a]]
  BY <1>3 DEF e
<1> QED
  BY <1>2, <1>3, <1>6, <1>7, <1>9, <1>10, <1>11

\* Undoing the youngest rename pops it (the loop of doSquash).
LEMMA UndoStep ==
    ASSUME TypeInv, Undo
    PROVE  /\ TypeInv'
           /\ Len(regs.history) > 0 /\ regs.history[1] \in RenameHistory
           /\ regs'.map = [regs.map EXCEPT ![regs.history[1].archReg] =
                                              regs.history[1].prevPhysReg]
           /\ Len(regs'.free) = Len(regs.free) + 1
           /\ \A i \in 1..Len(regs.free) : regs'.free[i] = regs.free[i]
           /\ regs'.free[Len(regs'.free)] = regs.history[1].newPhysReg
           /\ Len(regs'.history) = Len(regs.history) - 1
           /\ \A i \in 1..Len(regs'.history) :
                regs'.history[i] = regs.history[i + 1]
<1> DEFINE hb == regs.history[1]
<1>1. /\ regs.map \in [ArchRegs -> PhysRegs]
      /\ regs.free \in Seq(PhysRegs)
      /\ regs.history \in Seq(RenameHistory)
      /\ regs = [map |-> regs.map, free |-> regs.free, history |-> regs.history]
  BY DEF TypeInv
<1>2. Len(regs.history) > 0 /\ hb \in RenameHistory /\ Head(regs.history) = hb
  BY <1>1 DEF Undo
<1>3. hb.archReg \in ArchRegs /\ hb.newPhysReg \in PhysRegs /\ hb.prevPhysReg \in PhysRegs
  BY <1>2 DEF RenameHistory
<1>4. regs' = [map |-> [regs.map EXCEPT ![hb.archReg] = hb.prevPhysReg],
               free |-> Append(regs.free, hb.newPhysReg),
               history |-> Tail(regs.history)]
  BY <1>1, <1>2 DEF Undo, undoRename, addReg
<1>5. /\ Tail(regs.history) \in Seq(RenameHistory)
      /\ Len(Tail(regs.history)) = Len(regs.history) - 1
      /\ \A i \in 1..Len(Tail(regs.history)) :
           Tail(regs.history)[i] = regs.history[i + 1]
  BY <1>1, <1>2
<1>6. /\ Append(regs.free, hb.newPhysReg) \in Seq(PhysRegs)
      /\ Len(Append(regs.free, hb.newPhysReg)) = Len(regs.free) + 1
      /\ \A i \in 1..Len(regs.free) :
           Append(regs.free, hb.newPhysReg)[i] = regs.free[i]
      /\ Append(regs.free, hb.newPhysReg)[Len(regs.free) + 1] = hb.newPhysReg
  BY <1>1, <1>3
<1>7. TypeInv'
  BY <1>1, <1>3, <1>4, <1>5, <1>6 DEF TypeInv
<1> QED
  BY <1>2, <1>4, <1>5, <1>6, <1>7

\* Committing the oldest rename drops it (the loop of removeFromHistory).
LEMMA RetireStep ==
    ASSUME TypeInv, Retire
    PROVE  /\ TypeInv'
           /\ Len(regs.history) > 0
           /\ regs.history[Len(regs.history)] \in RenameHistory
           /\ regs'.map = regs.map
           /\ Len(regs'.free) = Len(regs.free) + 1
           /\ \A i \in 1..Len(regs.free) : regs'.free[i] = regs.free[i]
           /\ regs'.free[Len(regs'.free)] =
                regs.history[Len(regs.history)].prevPhysReg
           /\ Len(regs'.history) = Len(regs.history) - 1
           /\ \A i \in 1..Len(regs'.history) : regs'.history[i] = regs.history[i]
<1> DEFINE n == Len(regs.history)
           p == regs.history[n].prevPhysReg
<1>1. /\ regs.map \in [ArchRegs -> PhysRegs]
      /\ regs.free \in Seq(PhysRegs)
      /\ regs.history \in Seq(RenameHistory)
      /\ regs = [map |-> regs.map, free |-> regs.free, history |-> regs.history]
  BY DEF TypeInv
<1>2. n \in Nat /\ n > 0 /\ regs.history[n] \in RenameHistory
  BY <1>1 DEF Retire
<1>3. p \in PhysRegs
  BY <1>2 DEF RenameHistory
<1>4. regs' = [map |-> regs.map, free |-> Append(regs.free, p),
               history |-> SubSeq(regs.history, 1, n - 1)]
  BY <1>1 DEF Retire, commitRename, addReg
<1>5. /\ SubSeq(regs.history, 1, n - 1) \in Seq(RenameHistory)
      /\ Len(SubSeq(regs.history, 1, n - 1)) = n - 1
      /\ \A i \in 1..(n - 1) : SubSeq(regs.history, 1, n - 1)[i] = regs.history[i]
  <2>1. \A i \in 1..(n - 1) : regs.history[i] \in RenameHistory
    BY <1>1, <1>2
  <2>2. n - 1 \in Int /\ Len(SubSeq(regs.history, 1, n - 1)) = n - 1
    BY <1>2, <2>1, SubSeqProperties
  <2> QED
    BY <1>2, <2>1, <2>2, SubSeqProperties
<1>6. /\ Append(regs.free, p) \in Seq(PhysRegs)
      /\ Len(Append(regs.free, p)) = Len(regs.free) + 1
      /\ \A i \in 1..Len(regs.free) : Append(regs.free, p)[i] = regs.free[i]
      /\ Append(regs.free, p)[Len(regs.free) + 1] = p
  BY <1>1, <1>3
<1>7. TypeInv'
  BY <1>1, <1>4, <1>5, <1>6 DEF TypeInv
<1> QED
  BY <1>2, <1>4, <1>5, <1>6, <1>7

----------------------------------------------------------------------------

\* Renaming keeps every register in one place, and the history linked.
LEMMA RenamePreserves ==
    ASSUME IInv, NEW a \in ArchRegs, NEW sn \in Nat, Rename(a, sn)
    PROVE  IInv'
<1> DEFINE p == regs.free[1]
           m == regs.map
           h == regs.history
           g == regs'.history
<1>1. /\ TypeInv /\ TypeInv' /\ Linked(regs) /\ Conserved(regs)
      /\ Len(regs.free) > 0 /\ p \in PhysRegs
      /\ regs'.map = [m EXCEPT ![a] = p]
      /\ Len(regs'.free) = Len(regs.free) - 1
      /\ \A i \in 1..Len(regs'.free) : regs'.free[i] = regs.free[i + 1]
      /\ Len(g) = Len(h) + 1
      /\ g[1] = [instSeqNum |-> sn, archReg |-> a, newPhysReg |-> p,
                 prevPhysReg |-> m[a]]
      /\ \A i \in 1..Len(h) : g[i + 1] = h[i]
  BY RenameStep DEF IInv, RegistersConserved
<1>2. /\ m \in [ArchRegs -> PhysRegs]
      /\ Len(regs.free) \in Nat /\ Len(h) \in Nat
      /\ Len(g) = Len(h) + 1
      /\ g[1].archReg = a /\ g[1].newPhysReg = p /\ g[1].prevPhysReg = m[a]
      /\ regs'.map[a] = p
      /\ \A b \in ArchRegs \ {a} : regs'.map[b] = m[b]
      /\ \A i \in 1..Len(h) : h[i].archReg \in ArchRegs
      /\ \A i \in 2..Len(g) : i - 1 \in 1..Len(h) /\ g[i] = h[i - 1]
  <2>1. /\ m \in [ArchRegs -> PhysRegs]
        /\ Len(regs.free) \in Nat /\ Len(h) \in Nat
        /\ \A i \in 1..Len(h) : h[i].archReg \in ArchRegs
    BY <1>1, Typed
  <2>2. /\ g[1].archReg = a /\ g[1].newPhysReg = p /\ g[1].prevPhysReg = m[a]
        /\ regs'.map[a] = p
        /\ \A b \in ArchRegs \ {a} : regs'.map[b] = m[b]
    BY <1>1, <2>1
  <2> HIDE DEF p, m, h, g
  <2>3. ASSUME NEW i \in 2..Len(g)
        PROVE  i - 1 \in 1..Len(h) /\ g[i] = h[i - 1]
    <3>1. i - 1 \in 1..Len(h) /\ (i - 1) + 1 = i
      BY <1>1, <2>1 DEF g, h
    <3> QED
      BY <1>1, <3>1 DEF g, h
  <2> QED
    BY <1>1, <2>1, <2>2, <2>3 DEF g, h
<1> HIDE DEF p, m, h, g
<1>3. Linked(regs')
  <2>1. ASSUME NEW i \in 1..Len(g),
               \A k \in 1..(i - 1) : g[k].archReg # g[i].archReg
        PROVE  g[i].newPhysReg = regs'.map[g[i].archReg]
    <3>1. CASE i = 1
      BY <1>2, <3>1
    <3>2. CASE i # 1
      <4>1. i - 1 \in 1..Len(h) /\ g[i] = h[i - 1] /\ h[i - 1].archReg # a
        BY <1>2, <2>1, <3>2
      <4>2. ASSUME NEW k \in 1..((i - 1) - 1)
            PROVE  h[k].archReg # h[i - 1].archReg
        <5>1. k + 1 \in 1..(i - 1) /\ k \in 1..Len(h)
          BY <1>2, <4>1
        <5> QED
          BY <1>1, <2>1, <4>1, <5>1 DEF h, g
      <4>3. h[i - 1].newPhysReg = m[h[i - 1].archReg]
        BY <1>1, <4>1, <4>2 DEF Linked, h, m
      <4> QED
        BY <1>2, <4>1, <4>3
    <3> QED
      BY <3>1, <3>2
  <2>2. ASSUME NEW i \in 1..Len(g), NEW j \in 1..Len(g), i < j,
               g[i].archReg = g[j].archReg,
               \A k \in (i + 1)..(j - 1) : g[k].archReg # g[i].archReg
        PROVE  g[i].prevPhysReg = g[j].newPhysReg
    <3>1. j - 1 \in 1..Len(h) /\ g[j] = h[j - 1]
      BY <1>2, <2>2
    <3>2. CASE i = 1
      <4>1. ASSUME NEW k \in 1..((j - 1) - 1)
            PROVE  h[k].archReg # h[j - 1].archReg
        <5>1. k + 1 \in (i + 1)..(j - 1) /\ k \in 1..Len(h)
          BY <1>2, <3>1, <3>2
        <5> QED
          BY <1>1, <2>2, <3>1, <5>1 DEF h, g
      <4>2. h[j - 1].newPhysReg = m[h[j - 1].archReg]
        BY <1>1, <3>1, <4>1 DEF Linked, h, m
      <4> QED
        BY <1>2, <2>2, <3>1, <3>2, <4>2
    <3>3. CASE i # 1
      <4>1. i - 1 \in 1..Len(h) /\ g[i] = h[i - 1] /\ i - 1 < j - 1
        BY <1>2, <2>2, <3>3
      <4>2. ASSUME NEW k \in ((i - 1) + 1)..((j - 1) - 1)
            PROVE  h[k].archReg # h[i - 1].archReg
        <5>1. k + 1 \in (i + 1)..(j - 1) /\ k \in 1..Len(h)
          BY <1>2, <3>1, <4>1
        <5> QED
          BY <1>1, <2>2, <4>1, <5>1 DEF h, g
      <4>3. Adjacent(h, i - 1, j - 1)
        BY <2>2, <3>1, <4>1, <4>2 DEF Adjacent
      <4> QED
        BY <1>1, <3>1, <4>1, <4>3 DEF Linked, h
    <3> QED
      BY <3>2, <3>3
  <2> QED
    BY <2>1, <2>2 DEF Linked, Adjacent, g
<1>4. Conserved(regs')
  <2>1. \A x : x \in Free(regs') <=> x \in Free(regs) /\ x # p
    <3>1. ASSUME NEW i \in 1..Len(regs'.free)
          PROVE  regs'.free[i] \in Free(regs) /\ regs'.free[i] # p
      <4>1. i + 1 \in 1..Len(regs.free) /\ 1 \in 1..Len(regs.free) /\ i + 1 # 1
        BY <1>1, <1>2
      <4> QED
        BY <1>1, <4>1 DEF Free, Conserved, p
    <3>2. ASSUME NEW i \in 1..Len(regs.free), regs.free[i] # p
          PROVE  regs.free[i] \in Free(regs')
      <4>1. i - 1 \in 1..Len(regs'.free) /\ (i - 1) + 1 = i
        BY <1>1, <1>2, <3>2 DEF p
      <4>2. regs'.free[i - 1] = regs.free[i]
        BY <1>1, <4>1
      <4> QED
        BY <4>1, <4>2 DEF Free
    <3> QED
      BY <3>1, <3>2 DEF Free
  <2>2. \A x : x \in Owned(regs') <=> (x \in Owned(regs) /\ x # m[a]) \/ x = p
    BY <1>1, <1>2 DEF Owned, Conserved, m
  <2>3. \A x : x \in Previous(regs') <=> x \in Previous(regs) \/ x = m[a]
    <3>1. ASSUME NEW i \in 1..Len(g)
          PROVE  g[i].prevPhysReg \in Previous(regs) \/ g[i].prevPhysReg = m[a]
      <4>1. CASE i = 1
        BY <1>2, <4>1
      <4>2. CASE i # 1
        BY <1>2, <4>2 DEF Previous, h
      <4> QED
        BY <4>1, <4>2
    <3>2. ASSUME NEW i \in 1..Len(h)
          PROVE  h[i].prevPhysReg \in Previous(regs')
      <4>1. i + 1 \in 1..Len(g) /\ g[i + 1] = h[i]
        BY <1>1, <1>2 DEF g, h
      <4> QED
        BY <4>1 DEF Previous, g
    <3>3. m[a] \in Previous(regs')
      <4>1. 1 \in 1..Len(g) /\ g[1].prevPhysReg = m[a]
        BY <1>2
      <4> QED
        BY <4>1 DEF Previous, g
    <3> QED
      BY <3>1, <3>2, <3>3 DEF Previous, g, h
  <2>4. p \in Free(regs) /\ m[a] \in Owned(regs)
    BY <1>1, <1>2 DEF Free, Owned, p, m
  <2>5. \A i, j \in 1..Len(regs'.free) : regs'.free[i] = regs'.free[j] => i = j
    BY <1>1, <1>2 DEF Conserved
  <2>6. \A b, c \in ArchRegs : regs'.map[b] = regs'.map[c] => b = c
    BY <1>1, <1>2, <2>4 DEF Conserved, Owned, m
  <2>7. ASSUME NEW i \in 1..Len(g), NEW j \in 1..Len(g),
               g[i].prevPhysReg = g[j].prevPhysReg
        PROVE  i = j
    <3>1. \A k \in 1..Len(h) : h[k].prevPhysReg # m[a]
      BY <1>1, <2>4 DEF Conserved, Previous, h
    <3>2. \A k \in 1..Len(g) : k # 1 => g[k].prevPhysReg # m[a]
      BY <1>2, <3>1
    <3>3. CASE i = 1 \/ j = 1
      BY <1>2, <2>7, <3>2, <3>3
    <3>4. CASE i # 1 /\ j # 1
      <4>1. /\ i - 1 \in 1..Len(h) /\ g[i] = h[i - 1]
            /\ j - 1 \in 1..Len(h) /\ g[j] = h[j - 1]
        BY <1>2, <3>4
      <4>2. i - 1 = j - 1
        <5>1. \A k, l \in 1..Len(h) :
                h[k].prevPhysReg = h[l].prevPhysReg => k = l
          BY <1>1 DEF Conserved, h
        <5> QED
          BY <2>7, <4>1, <5>1
      <4> QED
        BY <1>2, <4>2
    <3> QED
      BY <3>3, <3>4
  <2>8. /\ Free(regs') \cap Owned(regs') = {}
        /\ Free(regs') \cap Previous(regs') = {}
        /\ Owned(regs') \cap Previous(regs') = {}
        /\ PhysRegs = Free(regs') \cup Owned(regs') \cup Previous(regs')
    BY <1>1, <2>1, <2>2, <2>3, <2>4 DEF Conserved
  <2> QED
    BY <2>5, <2>6, <2>7, <2>8 DEF Conserved, g
<1> QED
  BY <1>1, <1>3, <1>4 DEF IInv, RegistersConserved

\* The free list after one register was put at its end.
LEMMA Freed ==
    ASSUME Len(regs.free) \in Nat, Len(regs'.free) = Len(regs.free) + 1,
           \A i \in 1..Len(regs.free) : regs'.free[i] = regs.free[i]
    PROVE  /\ \A x : x \in Free(regs') <=> \/ x \in Free(regs)
                                          \/ x = regs'.free[Len(regs'.free)]
           /\ /\ \A i, j \in 1..Len(regs.free) :
                   regs.free[i] = regs.free[j] => i = j
              /\ regs'.free[Len(regs'.free)] \notin Free(regs)
              => \A i, j \in 1..Len(regs'.free) :
                   regs'.free[i] = regs'.free[j] => i = j
<1> DEFINE f == regs.free
           q == regs'.free
           p == q[Len(q)]
<1>1. Len(f) \in Nat /\ Len(q) = Len(f) + 1 /\ \A i \in 1..Len(f) : q[i] = f[i]
  OBVIOUS
<1>2. /\ \A x : x \in Free(regs) <=> \E i \in 1..Len(f) : x = f[i]
      /\ \A x : x \in Free(regs') <=> \E i \in 1..Len(q) : x = q[i]
  BY DEF Free
<1> HIDE DEF f, q
<1>3. /\ \A i \in 1..Len(q) : i \in 1..Len(f) \/ i = Len(q)
      /\ \A i \in 1..Len(f) : i \in 1..Len(q)
      /\ Len(q) \in 1..Len(q)
  BY <1>1
<1>4. \A x : x \in Free(regs') <=> x \in Free(regs) \/ x = p
  BY <1>1, <1>2, <1>3
<1>5. ASSUME \A i, j \in 1..Len(f) : f[i] = f[j] => i = j, p \notin Free(regs),
             NEW i \in 1..Len(q), NEW j \in 1..Len(q), q[i] = q[j]
      PROVE  i = j
  <2>1. \A k \in 1..Len(f) : q[k] = f[k] /\ f[k] # p
    BY <1>1, <1>2, <1>5
  <2>2. CASE i \in 1..Len(f) /\ j \in 1..Len(f)
    BY <1>5, <2>1, <2>2
  <2>3. CASE i = Len(q) \/ j = Len(q)
    BY <1>3, <1>5, <2>1, <2>3
  <2> QED
    BY <1>3, <2>2, <2>3
<1> QED
  BY <1>4, <1>5 DEF f, q

\* Undoing the youngest rename gives its register back; the map held it.
LEMMA UndoPreserves ==
    ASSUME IInv, Undo
    PROVE  IInv'
<1> DEFINE m == regs.map
           h == regs.history
           g == regs'.history
           a == regs.history[1].archReg
           new == regs.history[1].newPhysReg
           old == regs.history[1].prevPhysReg
<1>1. /\ TypeInv /\ TypeInv' /\ Linked(regs) /\ Conserved(regs)
      /\ Len(h) > 0
      /\ regs'.map = [m EXCEPT ![a] = old]
      /\ Len(regs'.free) = Len(regs.free) + 1
      /\ \A i \in 1..Len(regs.free) : regs'.free[i] = regs.free[i]
      /\ regs'.free[Len(regs'.free)] = new
      /\ Len(g) = Len(h) - 1
      /\ \A i \in 1..Len(g) : g[i] = h[i + 1]
  BY UndoStep DEF IInv, RegistersConserved
<1>2. /\ m \in [ArchRegs -> PhysRegs]
      /\ Len(regs.free) \in Nat /\ Len(h) \in Nat /\ Len(h) > 0
      /\ Len(g) = Len(h) - 1
      /\ 1 \in 1..Len(h)
      /\ h[1].archReg = a /\ h[1].newPhysReg = new /\ h[1].prevPhysReg = old
      /\ a \in ArchRegs /\ new \in PhysRegs /\ old \in PhysRegs
      /\ \A i \in 1..Len(h) : h[i].archReg \in ArchRegs
      /\ \A i \in 1..Len(g) : i + 1 \in 1..Len(h) /\ g[i] = h[i + 1]
  BY <1>1, Typed
<1> HIDE DEF m, h, g, a, new, old
<1>3. /\ regs'.map[a] = old
      /\ \A b \in ArchRegs \ {a} : regs'.map[b] = m[b]
  BY <1>1, <1>2
<1>4. new = m[a]
  <2>1. \A k \in 1..(1 - 1) : h[k].archReg # h[1].archReg
    OBVIOUS
  <2> QED
    BY <1>1, <1>2, <2>1 DEF Linked, h, m
<1>5. Linked(regs')
  <2>1. ASSUME NEW i \in 1..Len(g),
               \A k \in 1..(i - 1) : g[k].archReg # g[i].archReg
        PROVE  g[i].newPhysReg = regs'.map[g[i].archReg]
    <3>1. i + 1 \in 1..Len(h) /\ g[i] = h[i + 1] /\ 1 < i + 1
      BY <1>2
    <3>2. \A k \in 2..i : h[k].archReg # h[i + 1].archReg
      <4>1. SUFFICES ASSUME NEW k \in 2..i
                     PROVE  h[k].archReg # h[i + 1].archReg
        OBVIOUS
      <4>2. /\ k - 1 \in 1..(i - 1) /\ k - 1 \in 1..Len(g)
            /\ (k - 1) + 1 = k
        BY <1>2
      <4> QED
        BY <1>2, <2>1, <3>1, <4>2
    <3>3. CASE h[i + 1].archReg = a
      <4>1. Adjacent(h, 1, i + 1)
        <5>1. \A k \in (1 + 1)..((i + 1) - 1) : k \in 2..i
          OBVIOUS
        <5> QED
          BY <1>2, <3>2, <3>3, <5>1 DEF Adjacent
      <4>2. h[1].prevPhysReg = h[i + 1].newPhysReg
        BY <1>1, <1>2, <3>1, <4>1 DEF Linked, h
      <4> QED
        BY <1>2, <1>3, <3>1, <3>3, <4>2
    <3>4. CASE h[i + 1].archReg # a
      <4>1. \A k \in 1..((i + 1) - 1) : h[k].archReg # h[i + 1].archReg
        BY <1>2, <3>2, <3>4
      <4>2. h[i + 1].newPhysReg = m[h[i + 1].archReg]
        BY <1>1, <3>1, <4>1 DEF Linked, h, m
      <4> QED
        BY <1>2, <1>3, <3>1, <3>4, <4>2
    <3> QED
      BY <3>3, <3>4
  <2>2. ASSUME NEW i \in 1..Len(g), NEW j \in 1..Len(g), i < j,
               g[i].archReg = g[j].archReg,
               \A k \in (i + 1)..(j - 1) : g[k].archReg # g[i].archReg
        PROVE  g[i].prevPhysReg = g[j].newPhysReg
    <3>1. /\ i + 1 \in 1..Len(h) /\ g[i] = h[i + 1]
          /\ j + 1 \in 1..Len(h) /\ g[j] = h[j + 1]
          /\ i + 1 < j + 1
      BY <1>2, <2>2
    <3>2. ASSUME NEW k \in ((i + 1) + 1)..((j + 1) - 1)
          PROVE  h[k].archReg # h[i + 1].archReg
      <4>1. /\ k - 1 \in (i + 1)..(j - 1) /\ k - 1 \in 1..Len(g)
            /\ (k - 1) + 1 = k
        BY <1>2
      <4> QED
        BY <1>2, <2>2, <3>1, <4>1
    <3>3. Adjacent(h, i + 1, j + 1)
      BY <2>2, <3>1, <3>2 DEF Adjacent
    <3> QED
      BY <1>1, <3>1, <3>3 DEF Linked, h
  <2> QED
    BY <2>1, <2>2 DEF Linked, Adjacent, g
<1>6. Conserved(regs')
  <2>1. \A x : x \in Free(regs') <=> x \in Free(regs) \/ x = new
    BY <1>1, <1>2, Freed
  <2>2. new \in Owned(regs) /\ old \in Previous(regs)
    BY <1>2, <1>4 DEF Owned, Previous, h, m
  <2>3. \A x : x \in Owned(regs') <=> (x \in Owned(regs) /\ x # new) \/ x = old
    BY <1>1, <1>2, <1>3, <1>4 DEF Owned, Conserved, m
  <2>4. \A k, l \in 1..Len(h) : h[k].prevPhysReg = h[l].prevPhysReg => k = l
    BY <1>1 DEF Conserved, h
  <2>5. \A x : x \in Previous(regs') <=> x \in Previous(regs) /\ x # old
    <3>1. ASSUME NEW i \in 1..Len(g)
          PROVE  g[i].prevPhysReg \in Previous(regs) /\ g[i].prevPhysReg # old
      <4>1. i + 1 \in 1..Len(h) /\ g[i] = h[i + 1] /\ i + 1 # 1
        BY <1>2
      <4>2. h[i + 1].prevPhysReg # h[1].prevPhysReg
        BY <1>2, <2>4, <4>1
      <4> QED
        BY <1>2, <4>1, <4>2 DEF Previous, h
    <3>2. ASSUME NEW i \in 1..Len(h), h[i].prevPhysReg # old
          PROVE  h[i].prevPhysReg \in Previous(regs')
      <4>1. i - 1 \in 1..Len(g) /\ (i - 1) + 1 = i
        BY <1>2, <3>2
      <4>2. g[i - 1] = h[i]
        BY <1>2, <4>1
      <4> QED
        BY <4>1, <4>2 DEF Previous, g
    <3> QED
      BY <3>1, <3>2 DEF Previous, g, h
  <2>6. \A i, j \in 1..Len(regs'.free) : regs'.free[i] = regs'.free[j] => i = j
    <3>1. new \notin Free(regs)
      BY <1>1, <2>2 DEF Conserved
    <3>2. \A i, j \in 1..Len(regs.free) : regs.free[i] = regs.free[j] => i = j
      BY <1>1 DEF Conserved
    <3> QED
      BY <1>1, <1>2, <3>1, <3>2, Freed
  <2>7. \A b, c \in ArchRegs : regs'.map[b] = regs'.map[c] => b = c
    <3>1. \A b, c \in ArchRegs : m[b] = m[c] => b = c
      BY <1>1 DEF Conserved, m
    <3>2. \A b \in ArchRegs : m[b] # old
      BY <1>1, <2>2 DEF Conserved, Owned, m
    <3> QED
      BY <1>2, <1>3, <3>1, <3>2
  <2>8. \A i, j \in 1..Len(g) : g[i].prevPhysReg = g[j].prevPhysReg => i = j
    <3>1. SUFFICES ASSUME NEW i \in 1..Len(g), NEW j \in 1..Len(g),
                          g[i].prevPhysReg = g[j].prevPhysReg
                   PROVE  i = j
      OBVIOUS
    <3>2. i + 1 = j + 1
      BY <1>2, <2>4, <3>1
    <3> QED
      BY <1>2, <3>2
  <2>9. /\ Free(regs') \cap Owned(regs') = {}
        /\ Free(regs') \cap Previous(regs') = {}
        /\ Owned(regs') \cap Previous(regs') = {}
        /\ PhysRegs = Free(regs') \cup Owned(regs') \cup Previous(regs')
    BY <1>1, <2>1, <2>2, <2>3, <2>5 DEF Conserved
  <2> QED
    BY <2>6, <2>7, <2>8, <2>9 DEF Conserved, g
<1> QED
  BY <1>1, <1>5, <1>6 DEF IInv, RegistersConserved

\* Committing the oldest rename frees what it replaced: nothing maps to it and
\* no rename that is left can bring it back.
LEMMA RetirePreserves ==
    ASSUME IInv, Retire
    PROVE  IInv'
<1> DEFINE h == regs.history
           g == regs'.history
           n == Len(regs.history)
           old == regs.history[Len(regs.history)].prevPhysReg
<1>1. /\ TypeInv /\ TypeInv' /\ Linked(regs) /\ Conserved(regs)
      /\ regs'.map = regs.map
      /\ Len(regs'.free) = Len(regs.free) + 1
      /\ \A i \in 1..Len(regs.free) : regs'.free[i] = regs.free[i]
      /\ regs'.free[Len(regs'.free)] = old
      /\ n > 0 /\ Len(g) = n - 1
      /\ \A i \in 1..Len(g) : g[i] = h[i]
  BY RetireStep DEF IInv, RegistersConserved
<1>2. /\ Len(regs.free) \in Nat /\ n \in Nat /\ n > 0
      /\ Len(h) = n /\ Len(g) = n - 1
      /\ n \in 1..n /\ h[n].prevPhysReg = old
      /\ \A i \in 1..Len(g) : i \in 1..n /\ i # n /\ g[i] = h[i]
  BY <1>1, Typed
<1> HIDE DEF h, g, n, old
<1>3. Linked(regs')
  <2>1. ASSUME NEW i \in 1..Len(g),
               \A k \in 1..(i - 1) : g[k].archReg # g[i].archReg
        PROVE  g[i].newPhysReg = regs'.map[g[i].archReg]
    <3>1. \A k \in 1..(i - 1) : h[k].archReg # h[i].archReg
      <4>1. \A k \in 1..(i - 1) : k \in 1..Len(g)
        BY <1>2
      <4> QED
        BY <1>2, <2>1, <4>1
    <3>2. h[i].newPhysReg = regs.map[h[i].archReg]
      BY <1>1, <1>2, <3>1 DEF Linked, h
    <3> QED
      BY <1>1, <1>2, <3>2
  <2>2. ASSUME NEW i \in 1..Len(g), NEW j \in 1..Len(g), i < j,
               g[i].archReg = g[j].archReg,
               \A k \in (i + 1)..(j - 1) : g[k].archReg # g[i].archReg
        PROVE  g[i].prevPhysReg = g[j].newPhysReg
    <3>1. \A k \in (i + 1)..(j - 1) : k \in 1..Len(g)
      BY <1>2
    <3>2. Adjacent(h, i, j)
      BY <1>2, <2>2, <3>1 DEF Adjacent
    <3>3. h[i].prevPhysReg = h[j].newPhysReg
      BY <1>1, <1>2, <2>2, <3>2 DEF Linked, h
    <3> QED
      BY <1>2, <3>3
  <2> QED
    BY <2>1, <2>2 DEF Linked, Adjacent, g
<1>4. Conserved(regs')
  <2>1. \A x : x \in Free(regs') <=> x \in Free(regs) \/ x = old
    BY <1>1, <1>2, Freed
  <2>2. old \in Previous(regs)
    BY <1>2 DEF Previous, h
  <2>3. Owned(regs') = Owned(regs)
    BY <1>1 DEF Owned
  <2>4. \A k, l \in 1..n : h[k].prevPhysReg = h[l].prevPhysReg => k = l
    BY <1>1, <1>2 DEF Conserved, h
  <2>5. \A x : x \in Previous(regs') <=> x \in Previous(regs) /\ x # old
    <3>1. ASSUME NEW i \in 1..Len(g)
          PROVE  g[i].prevPhysReg \in Previous(regs) /\ g[i].prevPhysReg # old
      <4>1. h[i].prevPhysReg # h[n].prevPhysReg
        BY <1>2, <2>4
      <4> QED
        BY <1>2, <4>1 DEF Previous, h
    <3>2. ASSUME NEW i \in 1..n, h[i].prevPhysReg # old
          PROVE  h[i].prevPhysReg \in Previous(regs')
      <4>1. i \in 1..Len(g) /\ g[i] = h[i]
        BY <1>2, <3>2
      <4> QED
        BY <4>1 DEF Previous, g
    <3> QED
      BY <1>2, <3>1, <3>2 DEF Previous, g, h
  <2>6. \A i, j \in 1..Len(regs'.free) : regs'.free[i] = regs'.free[j] => i = j
    <3>1. old \notin Free(regs)
      BY <1>1, <2>2 DEF Conserved
    <3>2. \A i, j \in 1..Len(regs.free) : regs.free[i] = regs.free[j] => i = j
      BY <1>1 DEF Conserved
    <3> QED
      BY <1>1, <1>2, <3>1, <3>2, Freed
  <2>7. \A b, c \in ArchRegs : regs'.map[b] = regs'.map[c] => b = c
    BY <1>1 DEF Conserved
  <2>8. \A i, j \in 1..Len(g) : g[i].prevPhysReg = g[j].prevPhysReg => i = j
    BY <1>2, <2>4
  <2>9. /\ Free(regs') \cap Owned(regs') = {}
        /\ Free(regs') \cap Previous(regs') = {}
        /\ Owned(regs') \cap Previous(regs') = {}
        /\ PhysRegs = Free(regs') \cup Owned(regs') \cup Previous(regs')
    BY <1>1, <2>1, <2>2, <2>3, <2>5 DEF Conserved
  <2> QED
    BY <2>6, <2>7, <2>8, <2>9 DEF Conserved, g
<1> QED
  BY <1>1, <1>3, <1>4 DEF IInv, RegistersConserved

----------------------------------------------------------------------------

\* Whatever instructions are renamed, squashed and committed, and in whatever
\* order, every physical register stays in exactly one place: on the free list,
\* in the map, or waiting in the history to be freed or restored
\* (renameDestRegs, doSquash, removeFromHistory).
THEOREM AlwaysRegistersConserved == SpecRegs => []RegistersConserved
<1>1. InitRegs => IInv
  <2>1. SUFFICES ASSUME InitRegs PROVE IInv
    OBVIOUS
  <2>2. /\ regs.history = <<>> /\ Len(regs.history) = 0
        /\ <<>> \in Seq(RenameHistory)
    BY <2>1 DEF InitRegs
  <2>3. TypeInv
    BY <2>1, <2>2 DEF InitRegs, TypeInv
  <2>4. \A i \in 1..Len(regs.history) : FALSE
    BY <2>2
  <2>5. Linked(regs)
    BY <2>4 DEF Linked
  <2>6. Previous(regs) = {}
    BY <2>4 DEF Previous
  <2>7. regs.map \in [ArchRegs -> PhysRegs] /\ Owned(regs) \subseteq PhysRegs
    BY <2>3, Typed DEF Owned
  <2>8. Conserved(regs)
    BY <2>1, <2>4, <2>6, <2>7 DEF Conserved, InitRegs
  <2> QED
    BY <2>3, <2>5, <2>8 DEF IInv, RegistersConserved
<1>2. IInv /\ [NextRegs]_regs => IInv'
  <2>1. SUFFICES ASSUME IInv, [NextRegs]_regs PROVE IInv'
    OBVIOUS
  <2>2. CASE Undo
    BY <2>1, <2>2, UndoPreserves
  <2>3. CASE Retire
    BY <2>1, <2>3, RetirePreserves
  <2>4. CASE \E a \in ArchRegs, sn \in Nat : Rename(a, sn)
    BY <2>1, <2>4, RenamePreserves
  <2>5. CASE UNCHANGED regs
    BY <2>1, <2>5 DEF IInv, TypeInv, RegistersConserved
  <2> QED
    BY <2>1, <2>2, <2>3, <2>4, <2>5 DEF NextRegs
<1>3. IInv => RegistersConserved
  BY DEF IInv
<1> QED
  BY <1>1, <1>2, <1>3, PTL DEF SpecRegs
=============================================================================

----------------------------- MODULE RenameMap -----------------------------
(***************************************************************************)
(* The rename map, the free list and the history buffer of the out of order  *)
(* processor (cpu/o3: SimpleRenameMap, SimpleFreeList, DefaultRename), for    *)
(* the registers of one class and one thread, without the zero register.     *)
(*                                                                         *)
(* The operators are the loop bodies of the rename stage, as functions from  *)
(* the three structures to what they become; O3Pipeline drives them.  Here    *)
(* they are also the steps of a specification of their own, SpecRegs, in      *)
(* which instructions are renamed, squashed and committed in any order: what  *)
(* is shown of it holds whatever the pipeline does.                           *)
(***************************************************************************)
EXTENDS Integers, Sequences

CONSTANTS
    ArchRegs,        \* the architectural registers
    PhysRegs         \* the physical registers

(***************************************************************************)
(* regs.map     what an architectural register is renamed to               *)
(* regs.free    freeRegs, a queue                                          *)
(* regs.history historyBuffer, the most recent rename first: the sequence    *)
(*              number, the register, its new and its previous mapping      *)
(***************************************************************************)
VARIABLE regs

RenameHistory ==
    [instSeqNum : Nat, archReg : ArchRegs, newPhysReg : PhysRegs,
     prevPhysReg : PhysRegs]

numFreeRegs(r) == Len(r.free)

addReg(r, p) == [r EXCEPT !.free = Append(@, p)]

\* SimpleRenameMap::rename, and the history kept of it.
renameReg(r, a, sn) ==
    [map |-> [r.map EXCEPT ![a] = Head(r.free)],
     free |-> Tail(r.free),
     history |-> <<[instSeqNum |-> sn, archReg |-> a,
                    newPhysReg |-> Head(r.free),
                    prevPhysReg |-> r.map[a]]>> \o r.history]

\* One turn of the loop of doSquash.
undoRename(r) ==
    LET hb == Head(r.history)
    IN addReg([r EXCEPT !.map[hb.archReg] = hb.prevPhysReg,
                        !.history = Tail(@)], hb.newPhysReg)

\* Mutant: the register of the instruction that commits is freed.
MutFreesNew(r) ==
    LET n == Len(r.history)
    IN addReg([r EXCEPT !.history = SubSeq(@, 1, n - 1)],
              r.history[n].newPhysReg)

\* One turn of the loop of removeFromHistory.
commitRename(r) ==
    LET n == Len(r.history)
    IN addReg([r EXCEPT !.history = SubSeq(@, 1, n - 1)],
              r.history[n].prevPhysReg)

----------------------------------------------------------------------------

Owned(r) == {r.map[a] : a \in ArchRegs}
Previous(r) == {r.history[i].prevPhysReg : i \in 1..Len(r.history)}
Free(r) == {r.free[i] : i \in 1..Len(r.free)}

\* The constructor of the processor takes a register for each architectural one.
InitRegs ==
    /\ regs \in [map : [ArchRegs -> PhysRegs], free : Seq(PhysRegs),
                 history : {<<>>}]
    /\ \A a, b \in ArchRegs : regs.map[a] = regs.map[b] => a = b
    /\ \A i, j \in 1..Len(regs.free) : regs.free[i] = regs.free[j] => i = j
    /\ Free(regs) = PhysRegs \ Owned(regs)

Rename(a, sn) ==
    /\ numFreeRegs(regs) > 0
    /\ regs' = renameReg(regs, a, sn)

Undo ==
    /\ regs.history # <<>>
    /\ regs' = undoRename(regs)

Retire ==
    /\ regs.history # <<>>
    /\ regs' = commitRename(regs)

NextRegs == Undo \/ Retire \/ \E a \in ArchRegs, sn \in Nat : Rename(a, sn)

SpecRegs == InitRegs /\ [][NextRegs]_regs

\* Every physical register is in exactly one place: free, the mapping of one
\* architectural register, or the previous mapping of one rename that may still
\* be undone (SimpleFreeList::getReg, addReg; doSquash, removeFromHistory).
\* None leaks, and none is handed out twice.
Conserved(r) ==
    /\ \A i, j \in 1..Len(r.free) : r.free[i] = r.free[j] => i = j
    /\ \A a, b \in ArchRegs : r.map[a] = r.map[b] => a = b
    /\ \A i, j \in 1..Len(r.history) :
         r.history[i].prevPhysReg = r.history[j].prevPhysReg => i = j
    /\ Free(r) \cap Owned(r) = {}
    /\ Free(r) \cap Previous(r) = {}
    /\ Owned(r) \cap Previous(r) = {}
    /\ PhysRegs = Free(r) \cup Owned(r) \cup Previous(r)

RegistersConserved == Conserved(regs)
=============================================================================

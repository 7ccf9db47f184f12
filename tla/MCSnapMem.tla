----------------------------- MODULE MCSnapMem -----------------------------
(***************************************************************************)
(* SnapMem with at most one CPU and two units of up to two blocks.          *)
(***************************************************************************)
EXTENDS SnapMem

CONSTANT c1

OneCPU == {c1}
NoCPU == {}
Timing == {TRUE}
Both == {TRUE, FALSE}
=============================================================================

---------------------------- MODULE MCEventQueue ----------------------------
(* Four events on two ticks.  e1, e2 and e3 share a priority, so that a bin  *)
(* can be three deep; e4 comes behind them in a bin of its own.  e2 is       *)
(* allocated and deleted automatically, the others are members of simulation *)
(* objects; e4 ends the simulation loop.                                     *)
EXTENDS EventQueueRefines, TLC

CONSTANTS e1, e2, e3, e4

MCEvents == {e1, e2, e3, e4}
MCPriority == (e1 :> 0) @@ (e2 :> 0) @@ (e3 :> 0) @@ (e4 :> 1)
MCHeap == {e2}
MCAutoDelete == {e2}
MCExitEvents == {e4}

\* Nothing tells e1 and e3 apart.
Symmetry == Permutations({e1, e3})
=============================================================================

----------------------------- MODULE MCEventList -----------------------------
(* Three events on three ticks; e1 and e2 share a priority, e2 is deleted    *)
(* automatically, e3 is allocated and ends the simulation loop.              *)
EXTENDS EventList, TLC

CONSTANTS e1, e2, e3

MCEvents == {e1, e2, e3}
MCPriority == (e1 :> 0) @@ (e2 :> 0) @@ (e3 :> 1)
MCHeap == {e2, e3}
MCAutoDelete == {e2}
MCExitEvents == {e3}
=============================================================================

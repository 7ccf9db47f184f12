------------------------- MODULE EventQueueRefines -------------------------
(* EventQueue as an implementation of EventList: the refinement mapping is the *)
(* sequence that a visit of the lists yields.                                  *)
EXTENDS EventQueue

\* The linked lists behave as the abstract queue: inserting, removing and
\* serving events through nextBin and nextInBin is inserting, removing and
\* serving them in one sequence ordered by tick and priority, last in first
\* out among equals, with nothing lost, duplicated or reordered.
Abstract == INSTANCE EventList WITH q <- Contents(list)
Implements == Abstract!Spec
=============================================================================

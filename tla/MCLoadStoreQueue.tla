------------------------- MODULE MCLoadStoreQueue -------------------------
(***************************************************************************)
(* LoadStoreQueue for programs of a few accesses to two blocks.              *)
(***************************************************************************)
EXTENDS LoadStoreQueue

Ld(bs) == [op |-> "load", bytes |-> bs]
St(bs) == [op |-> "store", bytes |-> bs]
MB == [op |-> "memBarrier", bytes |-> {}]
WB == [op |-> "writeBarrier", bytes |-> {}]

\* Bytes 0 and 1 are in one block.
Blocks == [b \in Bytes |-> b \div 2]

Setup(p, tso, sh, o, r, m) ==
    [predicted |-> p, actual |-> p, needsTSO |-> tso, shared |-> sh,
     others |-> o, late |-> ~tso, refusals |-> r, mispredictions |-> m]

Programs ==
    {\* two loads of a byte that others write
     Setup(<<Ld({0}), Ld({0})>>, FALSE, {0}, 2, 1, 1),
     Setup(<<Ld({0}), Ld({0}), Ld({0})>>, FALSE, {0}, 1, 0, 1),
     \* a store between loads, forwarded or not
     Setup(<<Ld({0}), St({0}), Ld({0})>>, FALSE, {0}, 0, 1, 1),
     Setup(<<Ld({0}), St({0}), Ld({0})>>, FALSE, {0}, 1, 0, 0),
     \* two loads wait for a store that has part of their data
     Setup(<<St({0}), Ld({0, 1}), Ld({0, 1})>>, FALSE, {1}, 1, 0, 0),
     Setup(<<St({0}), Ld({0, 1}), Ld({0, 1})>>, FALSE, {}, 0, 1, 1),
     \* the last of several stores is the one to forward, in a small queue
     Setup(<<St({0, 1}), St({0}), St({1}), Ld({0})>>, FALSE, {}, 0, 1, 0),
     Setup(<<St({0}), St({1}), Ld({0, 1})>>, FALSE, {}, 0, 0, 1),
     \* stores completed out of order
     Setup(<<St({0}), St({2}), Ld({0})>>, FALSE, {}, 0, 1, 0),
     \* a store on the wrong path
     [Setup(<<St({0}), St({0}), Ld({0})>>, FALSE, {}, 0, 0, 1)
      EXCEPT !.actual = <<St({0}), Ld({0}), Ld({0})>>],
     \* nothing is written by a predicated store
     Setup(<<St({}), Ld({}), St({0}), Ld({0})>>, FALSE, {}, 0, 1, 0),
     \* loads, and stores, of two blocks in total store order
     Setup(<<Ld({0}), Ld({2})>>, TRUE, {0, 2}, 2, 1, 0),
     Setup(<<Ld({0}), Ld({2}), Ld({0})>>, TRUE, {0, 2}, 2, 0, 0),
     Setup(<<St({0}), Ld({0}), Ld({2})>>, TRUE, {0, 2}, 2, 0, 0),
     Setup(<<St({0}), St({2}), St({0})>>, TRUE, {}, 0, 1, 1),
     \* barriers
     Setup(<<St({0}), MB, Ld({2})>>, FALSE, {2}, 1, 1, 1),
     Setup(<<St({0}), WB, St({2}), Ld({2})>>, FALSE, {}, 0, 1, 0),
     Setup(<<Ld({0}), MB, Ld({2})>>, FALSE, {0, 2}, 2, 0, 0)}

\* Invalidations that come with the response of a load at the head of the queue.
Relaxed ==
    {[Setup(<<Ld({0}), Ld({2})>>, TRUE, {0, 2}, 2, 0, 0) EXCEPT !.late = TRUE]}

\* A second barrier, on the wrong path.
TwoBarriers ==
    {[Setup(<<St({0}), MB, MB, Ld({2})>>, FALSE, {2}, 1, 0, 1)
      EXCEPT !.actual = <<St({0}), MB, Ld({2}), Ld({2})>>]}
=============================================================================

--------------------------- MODULE MCAsyncSignals ---------------------------
(***************************************************************************)
(* Instances of AsyncSignals for TLC.                                      *)
(***************************************************************************)
EXTENDS AsyncSignals

\* n threads, and the signals of a, as often as it says.
Setup(n, a) ==
    [queues |-> n, arrivals |-> [s \in Signals |-> IF s \in DOMAIN a THEN a[s] ELSE 0]]

Mixed == {Setup(1, [dumprst |-> 2, exit |-> 2, io |-> 2]),
          Setup(1, [exit |-> 1, io |-> 2, setup |-> 1, raise |-> 2]),
          Setup(2, [exit |-> 1, io |-> 2])}
DumpAndReset == {Setup(1, [dump |-> 1, dumprst |-> 1])}
TwoThreads == {Setup(2, [exit |-> 1, io |-> 1])}
OnlyRaise == {Setup(1, [raise |-> 1])}
=============================================================================

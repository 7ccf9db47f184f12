---------------------------- MODULE MCMIExample ----------------------------
(***************************************************************************)
(* Instances of MIExample for TLC.                                         *)
(***************************************************************************)
EXTENDS MIExample, TLC

CONSTANTS c1, c2, c3, d1

OneCache == {c1}
TwoCaches == {c1, c2}
ThreeCaches == {c1, c2, c3}
NoDMA == {}
OneDMA == {d1}
TwoValues == {0, 1}

\* The caches are interchangeable.
Symmetry == Permutations(Caches)
=============================================================================

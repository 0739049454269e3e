------------------------------- MODULE MCIdKeeper -------------------------------
(* Instances of IdKeeper for TLC.                                               *)
EXTENDS IdKeeper, TLC

CONSTANTS b1, b2, b3, s1

BundleSymmetry == Permutations(Bundles)
=============================================================================

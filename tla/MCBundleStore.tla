----------------------------- MODULE MCBundleStore -----------------------------
(* Instances of BundleStore for TLC.                                          *)
EXTENDS BundleStore

CONSTANTS b1, self, p1
=============================================================================

------------------------------ MODULE MCMeshtastic ------------------------------
(* Instances of Meshtastic for TLC.                                            *)
EXTENDS Meshtastic, TLC

CONSTANTS m1, m2, c1, c2

TwoClients == (m1 :> c1) @@ (m2 :> c2)

DifferentIDs == (m1 :> 1) @@ (m2 :> 2)

\* With a byte of three values, two chunks are the most that can be counted.
OneTooLong == (m1 :> 2) @@ (m2 :> 3)
=============================================================================

----------------------------- MODULE MCSprayAndWait -----------------------------
(* Instances of SprayAndWait for TLC.                                            *)
EXTENDS SprayAndWait, TLC

CONSTANTS o, p, q, r

Uniformly(m, k) == [mode |-> [n \in Nodes |-> m], copies |-> k]

AllLinked == [n \in Nodes |-> Nodes \ {n}]
\* Forwardings overlap at the origin.
OriginTwice == [n \in Nodes |-> IF n = Origin THEN 2 ELSE 1]

SprayConfigs == {Uniformly("basic", 2), Uniformly("binary", 3)}
\* The properties are about the states without an anomaly; one is never undone.
Regular == anomalies = {}

PeerSymmetry == Permutations(Nodes \ {Origin})
=============================================================================

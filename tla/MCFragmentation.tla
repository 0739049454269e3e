---------------------------- MODULE MCFragmentation ----------------------------
(* An instance of Fragmentation for TLC: a primary block that grows by a byte  *)
(* with the offset, one extension block that is replicated and one that is not.*)
EXTENDS Fragmentation, TLC

CONSTANTS age, prev

Primary == [x \in (0 .. Length) \X (0 .. Length) |-> IF x[1] < 3 THEN 1 ELSE 2]
OneByteEach == [s \in SUBSET Extensions |-> Cardinality(s)]
OneByte == [m \in MTUs |-> 1]
=============================================================================

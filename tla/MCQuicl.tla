-------------------------------- MODULE MCQuicl --------------------------------
(* An instance of Quicl for TLC: two bundles one way, one the other way.         *)
EXTENDS Quicl, TLC

CONSTANTS a, b, c, dtn1, dtn2

Senders == [s \in Sends |-> IF s = c THEN "listener" ELSE "dialer"]
Ids == ("dialer" :> dtn1) @@ ("listener" :> dtn2)
=============================================================================

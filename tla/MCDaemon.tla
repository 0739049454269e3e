-------------------------------- MODULE MCDaemon --------------------------------
(* An instance of Daemon for TLC.                                                *)
EXTENDS Daemon, TLC

CONSTANTS t1, t2

Announced(own, type) == [own |-> own, type |-> type]

\* The node's own packet, one of a peer, and one with a type this node does not know.
SomePackets ==
    {{Announced(TRUE, "MTCP")},
     {Announced(FALSE, "QUICL"), Announced(FALSE, "TCPCLv4")},
     {Announced(FALSE, "MTCP"), Announced(FALSE, "unknown")}}
=============================================================================

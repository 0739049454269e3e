------------------------------ MODULE MCCLAManager ------------------------------
(* Instances of CLAManager for TLC: two MTCP clients that share an address, a     *)
(* QUICL endpoint and an MTCP server.                                             *)
EXTENDS CLAManager, TLC

CONSTANTS c1, c2, q1, srv

AddressOf == [c \in Clas |-> IF c \in {c1, c2} THEN "peer" ELSE c]
TypeOf == [c \in Clas |-> IF c = srv THEN "server" ELSE IF c = q1 THEN "quicl" ELSE "mtcp"]

ClientSymmetry == Permutations({c1, c2})
=============================================================================

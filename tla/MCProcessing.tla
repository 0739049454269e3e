------------------------------ MODULE MCProcessing ------------------------------
(* Instances of Processing for TLC.                                            *)
EXTENDS Processing

CONSTANTS b1, self, p1

\* The node that is started once and never stopped.
SteadySpec == Init /\ [][Next /\ phase' = "up"]_vars /\ Fairness
=============================================================================

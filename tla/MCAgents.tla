------------------------------- MODULE MCAgents -------------------------------
(* Instances of Agents for TLC. *)
EXTENDS Agents

CONSTANTS b1, b2, e1, u1, q1, q2

\* All bundles are for the one endpoint.
DestOf == [b \in Bundles |-> e1]

Uses(names, bundles, requests, gets, boxes) ==
    [agents |-> names, bundles |-> bundles, requests |-> requests, gets |-> gets,
     boxes |-> boxes]

\* Endpoints that are registered again, under a delivery and a request that
\* know the first mailbox; concurrent requests of one mailbox; a request that
\* fails on the second of two bundles; a delivery to both agents.
SmallInstances ==
    { Uses({"rest"}, {b1}, {q1}, {}, 2),
      Uses({"unix"}, {b1}, {q1}, {<<"one", TRUE>>}, 2),
      Uses({"rest"}, {b1}, {q1, q2}, {}, 1),
      Uses({"unix"}, {b1}, {q1, q2},
           {<<"one", FALSE>>, <<"all", FALSE>>, <<"new", FALSE>>, <<"new", TRUE>>}, 1),
      Uses({"unix"}, {b1, b2}, {q1}, {<<"new", TRUE>>}, 1),
      Uses({"rest", "unix"}, {b1}, {}, {}, 2) }
=============================================================================

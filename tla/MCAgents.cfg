SPECIFICATION FairAgentsSpec
CONSTANTS
    b1 = b1
    b2 = b2
    e1 = e1
    u1 = u1
    q1 = q1
    q2 = q2
    Bundles = {b1, b2}
    Eids = {e1}
    Dest <- DestOf
    Uuids = {u1}
    Requests = {q1, q2}
    MaxBoxes = 2
    Instances <- SmallInstances
INVARIANT AgentsTypeOK
PROPERTIES
    KeptUntilAnswered
    DeliveredIsReachable
    StaleIsCollected

SPECIFICATION FairMeshSpec
CONSTANTS
    m1 = m1
    m2 = m2
    c1 = c1
    c2 = c2
    Messages = {m1, m2}
    Client <- TwoClients
    BundleID <- DifferentIDs
    Chunks <- OneTooLong
    Width = 3
    MaxSends = 2
    MaxCopies = 1
    Splice = Splice
CHECK_DEADLOCK FALSE
INVARIANTS
    NeverMixed
    AllArrivedIsDelivered
PROPERTIES
    SentIsDelivered
    BufferIsFreed

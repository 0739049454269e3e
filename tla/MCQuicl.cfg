SPECIFICATION FairQuiclSpec
CONSTANTS
    a = a
    b = b
    c = c
    dtn1 = dtn1
    dtn2 = dtn2
    Sends = {a, b, c}
    Owner <- Senders
    Invalid = {b}
    Id <- Ids
    RateLimit = 1
    MaxIncomingStreams = 2
CHECK_DEADLOCK FALSE
INVARIANTS
    KnownPeer
    ReportedIsDown
PROPERTIES
    HandshakeEnds
    LostIsReported
    SendReturns
    SentIsReceived

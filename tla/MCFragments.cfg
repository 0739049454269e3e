SPECIFICATION FragSpec
CONSTANTS
    age = age
    prev = prev
    Length = 6
    Extensions = {age, prev}
    Replicated = {age}
    PrimaryLen <- Primary
    BlocksLen <- OneByteEach
    PayloadLen <- OneByte
    MTUs = {6, 7, 8, 9, 13}
    MaxCuts = 2
    MaxReceived = 5
CHECK_DEADLOCK FALSE
INVARIANTS
    OneCutMerges
    ReassembledIsOriginal
    CompleteIsAccepted

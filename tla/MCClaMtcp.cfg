SPECIFICATION ClaSpec
CONSTANTS
    c1 = c1
    c2 = c2
    q1 = q1
    srv = srv
    Clas = {c1, c2, q1, srv}
    Address <- AddressOf
    Type <- TypeOf
    MaxNotify = 2
SYMMETRY ClientSymmetry
CHECK_DEADLOCK FALSE
INVARIANTS
    OpenedOnce
    LiveLinkIsListed

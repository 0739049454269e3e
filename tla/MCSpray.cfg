SPECIFICATION SpraySpec
CONSTANTS
    o = o
    p = p
    q = q
    r = r
    Nodes = {o, p, q, r}
    Origin = o
    Neighbours <- AllLinked
    Configs <- SprayConfigs
    MaxForwards <- OriginTwice
CONSTRAINT Regular
SYMMETRY PeerSymmetry
INVARIANTS
    CopiesConserved
    CarriersBounded

SPECIFICATION SteadySpec
CONSTANTS
    b1 = b1
    self = self
    p1 = p1
    Bundles = {b1}
    Epoch = {}
    Nodes = {self, p1}
    Self = self
    MiscValues = {}
    MaxGen = 1
    MaxForwards = 2
    MaxReceives = 1
    Faults = {"open"}
    NoRecord = NoRecord
INVARIANT MetadataPersisted
PROPERTIES
    EventuallyForwarded
    ExpiredIsCollected

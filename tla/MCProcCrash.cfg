SPECIFICATION Spec
CONSTANTS
    b1 = b1
    self = self
    p1 = p1
    Bundles = {b1}
    Epoch = {b1}
    Nodes = {self, p1}
    Self = self
    MiscValues = {}
    MaxGen = 1
    MaxForwards = 2
    MaxReceives = 1
    Faults = {"insert", "create", "write", "update", "delete", "remove", "open"}
    NoRecord = NoRecord
INVARIANTS
    MarkHasForwarder
    HoldersHaveBundle
PROPERTIES
    HoldersKept

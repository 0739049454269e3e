\* One bundle, every I/O operation may fail, arbitrary callers.
SPECIFICATION StoreSpec
CONSTANTS
    b1 = b1
    self = self
    p1 = p1
    Bundles = {b1}
    Epoch = {}
    Nodes = {self, p1}
    Self = self
    MiscValues = {1}
    MaxGen = 2
    Faults = {"insert", "create", "write", "update", "delete", "remove", "open"}
    NoRecord = NoRecord
INVARIANTS
    TypeOK
    DeletedIsUnconstrained
    FlagsFollowConstraints
    OneLiveDescriptor
    DeletesOwnDescriptor
    CopiesAgree
PROPERTY ImplementsView

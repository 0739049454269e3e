SPECIFICATION IdSpec
CONSTANTS
    b1 = b1
    b2 = b2
    b3 = b3
    s1 = s1
    Bundles = {b1, b2, b3}
    Sources = {s1}
    Hour = 2
    MaxTime = 6
SYMMETRY BundleSymmetry
INVARIANT UniquePerRun

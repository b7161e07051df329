SPECIFICATION MCSpec
CONSTANTS
    Processes = {p1, p2}
    Ids = {s1, s2}
    MaxLocks = 2
    MaxRecords = 1
    NoStore = NoStore
INVARIANT WritesAreSerialized
SYMMETRY Symmetry

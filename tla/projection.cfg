\* Two files, two ids: duplicates, moves, swaps and damage between any two
\* steps; and one file whose id and text change while vectors are rebuilt.
\* Operations that have begun go on; the rest may happen or not.
SPECIFICATION MCSpec
CONSTANTS
    p1 = p1
    i1 = i1
    i2 = i2
    t1 = t1
    t2 = t2
    Procs = {p1, p2}
    Paths = {1, 2}
    Ids = {i1, i2}
    Texts = {t1, t2}
    Ops = {"sync", "reindex", "vectors", "semantic reindex"}
    NoFile = NoFile
    Invalid = Invalid
    NoRow = NoRow
    NoVectors = NoVectors
    NoDb = NoDb
    NoJob = NoJob
    NoProc = NoProc
INVARIANTS
    TypeOK
    SyncIsExact
    VectorsMatchRows
    RebuildIsCurrent
PROPERTIES
    SwitchIsComplete
    Converges

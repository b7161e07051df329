\* The path of one record is taken by another.
SPECIFICATION CheckpointedSpec
CONSTANTS
    Procs = {p1}
    Paths = {1, 2}
    Ids = {i1, i2}
    Texts = {t1}
    Ops = {"sync"}
    NoFile = NoFile
    Invalid = Invalid
    NoRow = NoRow
    NoVectors = NoVectors
    NoDb = NoDb
    NoJob = NoJob
    NoProc = NoProc
INVARIANT SyncAcceptsFiles

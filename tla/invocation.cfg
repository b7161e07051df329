\* Two calls and two turns, or one turn and two edits by people.
SPECIFICATION MCSpec
CONSTANTS
    i1 = i1
    i2 = i2
    b1 = b1
    b2 = b2
    Ids = {i1, i2}
    Bodies = {b1, b2}
    Requests <- MCRequests
    Workers = {w1, w2}
    Clients = {c1}
    Granted = {"remember", "update"}
    Edits <- MCEdits
    MaxTurns = 2
    MaxEdits = 2
    NoRecord = NoRecord
    NoRequest = NoRequest
    NoRead = NoRead
SYMMETRY WorkerSymmetry
INVARIANTS
    TypeOK
    OneRecordPerRequest
    TurnsAreCaptured
PROPERTY PutsOverWhatWasRead

\* Three records: chains of supersessions, several links, duplicates of a third.
SPECIFICATION Spec
CONSTANTS
    Procs = {p1, p2}
    Editors = {}
    Ids = {i1, i2, i3}
    Titles = {t1}
    Bodies = {b1, b2}
    Dirs = {home}
    Home = home
    NoFile = NoFile
    Unreadable = Unreadable
    NoJournal = NoJournal
    NoJob = NoJob
    NoDraft = NoDraft
    NoProc = NoProc
SYMMETRY SafetySymmetry
INVARIANTS
    TypeOK
    JournalReplayable
PROPERTIES
    OldRetiresFirst
    TerminalHistory
    ImplementsMemoryStore

\* People also move record files between directories.
SPECIFICATION MovedSpec
CONSTANTS
    Procs = {p1}
    Editors = {}
    Ids = {i1, i2}
    Titles = {t1}
    Bodies = {b1}
    Dirs = {home, nested}
    Home = home
    NoFile = NoFile
    Unreadable = Unreadable
    NoJournal = NoJournal
    NoJob = NoJob
    NoDraft = NoDraft
    NoProc = NoProc
SYMMETRY SafetySymmetry
INVARIANT UniqueIds

\* People edit, damage, restore and delete record files between operations.
SPECIFICATION FairAuthoredSpec
CONSTANTS
    Procs = {p1, p2}
    Editors = {p1}
    Ids = {i1, i2}
    Titles = {t1}
    Bodies = {b1}
    Dirs = {home}
    Home = home
    NoFile = NoFile
    Unreadable = Unreadable
    NoJournal = NoJournal
    NoJob = NoJob
    NoDraft = NoDraft
    NoProc = NoProc
INVARIANTS
    NoBlindOverwrite
    ApprovalIsFresh
    UniqueIds
PROPERTY RecoveryProgress

SPECIFICATION FairSpec
CONSTANTS
    Threads = {t1}
    Tools = {c1}
    N = 2
    Size = 2
    NoFile = NoFile
    NoModel = NoModel
    NoThread = NoThread
INVARIANTS TypeOK LoadedIsPinned
PROPERTIES InstallsOnlyPinned ServerGetsModel

SPECIFICATION MCSpec
CONSTANTS
    i1 = i1
    i2 = i2
    i3 = i3
    i4 = i4
    t1 = t1
    t2 = t2
    home = home
    nested = nested
    Ids = {i1, i2, i3, i4}
    Texts = {t1, t2}
    Dirs = {home, nested}
    Home = home
    Here = here
    Elsewhere = elsewhere
    Archives <- MCArchives
    NoFile = NoFile
    NoJob = NoJob
    MaxFiles = 2
    StoreIds = {i1, i2, i3}
INVARIANTS TypeOK UniqueIds ImportedIsThere LinksStayTogether NothingIsDropped
PROPERTIES AsksBeforeOverwriting

SPECIFICATION FairSpec
CONSTANTS
    j1 = j1
    j2 = j2
    h = h
    Jobs = {j1, j2}
    Hashes = {h}
    None = None
    Absent = Absent
    Corrupt = Corrupt
    Procs = {p1, p2}
    Ops <- MCOps
    MaxCrashes = 1
    MaxCorruptions = 1
INVARIANTS
    TypeOK
    AtMostOneStoreTemp
    StoreTempSurvives
    NoLostUpdate
PROPERTIES
    ImplementsAtomicStore
    LockIsReleased

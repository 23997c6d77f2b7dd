SPECIFICATION FairSpec
CONSTANTS
    Writer = {w1, w2}
    Key = {1, 2}
    NoKey = 0
    Slabs = 1
    LastIndex = 3
    LastEpoch = 2
    NONEINDEX = 99
CHECK_DEADLOCK FALSE
INVARIANTS
    TypeOK
    EntriesStay
    ChainsAreSound
    PutsReachable
    RangeCovers
PROPERTIES
    SnapshotsStable
    PutsReturn

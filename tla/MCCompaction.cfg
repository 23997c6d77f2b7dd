SPECIFICATION FairSpec
CONSTANTS
    High = {h1}
    Low = {l1, l2}
    Key <- Keys6
    MEM_TABLE_MAX_SIZE = 2
    MAX_LEVEL = 3
    LEVEL_SIZE_RITIO = 2
    LEVEL_ONE_FILES = 2
    ZERO_LEVEL_FILES = 1
    Batch <- FourBatches
    Overwrite = TRUE
    LastMemtable = 4
INVARIANTS
    InputsPresent
    LevelOneDisjoint
    UpperReachable
PROPERTIES
    KeysKept
    StallLifts

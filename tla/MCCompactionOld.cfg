SPECIFICATION Spec
CONSTANTS
    High = {h1}
    Low = {l1}
    Key <- Keys3
    MEM_TABLE_MAX_SIZE = 2
    MAX_LEVEL = 3
    LEVEL_SIZE_RITIO = 2
    LEVEL_ONE_FILES = 1
    ZERO_LEVEL_FILES = 1
    Batch <- UpToTwo
    Overwrite = TRUE
    LastMemtable = 2
SYMMETRY Symmetry
INVARIANTS
    NewestIsRead

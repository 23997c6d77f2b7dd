SPECIFICATION Spec
CONSTANTS
    Key = {3, 5, 7}
    Value = {1, 2}
    MAX_BLOCK_SIZE = 45
    MEM_TABLE_MAX_SIZE = 2
    STANDARD_VECTOR_SIZE = 2
    Batch <- Puts
    Generations = 3
    KEY_MAX = 99
CHECK_DEADLOCK FALSE
INVARIANTS
    LookupExact
    ScanExact
    ScanKExact
    RangeExact

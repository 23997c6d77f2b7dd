SPECIFICATION Spec
CONSTANTS
    Writer = {w1, w2}
    Flusher = {f1}
    Write = {d1, d2, d3, d4, d5}
    MEM_TABLE_MAX_SIZE = 1
    MAX_MEMTABLE_NUM = 1
    LastMemtable = 6
    NoWrite = NoWrite
    SIZE_MAX = 7
CHECK_DEADLOCK FALSE
SYMMETRY Symmetry
INVARIANTS
    TypeOK
    ReplacedOnce
    CountExact
    Backpressure
    LockedPutsKept

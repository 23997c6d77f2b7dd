SPECIFICATION Spec
CONSTANTS
    Reader = {r1}
    Flusher = {f1, f2}
    LastMemtable = 4
    LastVersion = 5
    NoMemtable = NoMemtable
SYMMETRY Symmetry
INVARIANTS
    PromptReadsComplete
    ChainCovers

SPECIFICATION Spec
CONSTANTS
    Client = {c1, c2}
    Compactor = {p1}
    Addr = {v0, a1, a2}
    V0 = v0
    NULL = NULL
    File = {f1, f2}
    MAXTIME = 3
    Reuse = FALSE
SYMMETRY Symmetry
CHECK_DEADLOCK FALSE
INVARIANTS
    TypeOK
    RefExact
    NoDangling
    QuietReadIsCurrent
    
PROPERTIES
    ReadMovesForward

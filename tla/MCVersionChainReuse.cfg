SPECIFICATION Spec
CONSTANTS
    Client = {c1}
    Compactor = {p1, p2}
    Addr = {v0, a1, a2}
    V0 = v0
    NULL = NULL
    File = {f1, f2, f3, f4}
    MAXTIME = 2
    Reuse = TRUE
SYMMETRY Symmetry
CHECK_DEADLOCK FALSE
INVARIANTS PinnedIsLive

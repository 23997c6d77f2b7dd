SPECIFICATION FairSpec
CONSTANTS
    Writer = {w1, w2, w3}
    Reader = {w3}
    MAX_WORKER_THREAD = 3
    MAXTIME = 7
    Spurious = FALSE
INVARIANTS
    TypeOK
    OwnSlot
    ScanMissesNothing
PROPERTIES
    BeginsGoOn
    ImplementsActiveEpochs

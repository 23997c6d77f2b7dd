SPECIFICATION FairSpec
CONSTANTS
    Thread = {t1, t2}
    File = {1, 2, 3}
    Reader <- Addresses
    CacheSizes <- Sizes
    MaxFinds = 1
    MaxOpened = 5
    NULL = NULL
CHECK_DEADLOCK FALSE
INVARIANTS HeldIsOpen ReadersCounted SlotsExclusive
PROPERTIES FindsReturn

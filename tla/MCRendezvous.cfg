CONSTANTS
    V4 <- FirstAndLast
    V6 <- Middle
    TTL = 2
    TIMEOUT = 2
    MaxNow = 4
    MaxLookups = 2
    Repeats = 1
SPECIFICATION Spec
CHECK_DEADLOCK FALSE
INVARIANTS
    TypeOK
    RepliesCurrent
    PrintedFresh

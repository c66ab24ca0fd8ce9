CONSTANTS
    Attempts = 2
    Accepts = 2
    Datagrams = 1
    Faults = 2
    Scenarios <- RelayOnly
CHECK_DEADLOCK FALSE
SPECIFICATION Spec
INVARIANTS
    PeerIsOtherEnd

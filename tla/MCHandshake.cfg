CONSTANTS
    Attempts = 2
    Accepts = 2
    Datagrams = 1
    Faults = 2
    Scenarios <- AllScenarios
CHECK_DEADLOCK FALSE
SPECIFICATION FairSpec
INVARIANTS
    TypeOK
    Agreement
    PeerFixed
    RoutesMeet
PROPERTIES
    HandshakeReturns

CONSTANTS
    p = p
    q = q
    r = r
    s = s
    Daemons = {1, 2}
    TTL = 3
    CAP = 2
    MaxNow = 4
    Scenarios <- AllScenarios
SYMMETRY Alike
SPECIFICATION Spec
CHECK_DEADLOCK FALSE
INVARIANTS
    TypeOK
    RemembersRecent
    DropsOnlyRecent
PROPERTIES
    ImplementsFilter

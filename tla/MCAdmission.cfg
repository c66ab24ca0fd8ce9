CONSTANTS
    k1 = k1
    k2 = k2
    k3 = k3
    Keys <- ThreeKeys
    U64_MAX = 2
    TTLs = {1, 2}
    Caps = {1}
    MaxDepth = 2
    MaxIssued = 3
    MaxForged = 1
SYMMETRY Alike
SPECIFICATION Spec
INVARIANTS
    TypeOK
    AdmittedIsVouched
    LapsesForGood
    DepthIsShortest
    AdmissionBounded
PROPERTIES
    OnlyTimeRevokes

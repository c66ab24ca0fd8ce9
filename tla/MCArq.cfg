CONSTANTS
    SEQ_MOD = 16
    WINDOW_SIZE = 2
    RECV_WINDOW = 3
    ACK_BEHIND = 5
    FRAG_MOD = 4
    MAX_PARTS = 2
    MAX_ATTEMPTS = 2
    MAX_AGE = 1
    START = 0
    Sizes <- EmptyAndPair
    MaxFrames = 4
    RetxValues = {0, 1}
SPECIFICATION FairSpec
INVARIANTS
    TypeOK
    NoFalseAck
    GiveUpDiscardsNothing
    DeliveredIntact
    AckedMeansDelivered
PROPERTIES
    SlotStable
    Settles

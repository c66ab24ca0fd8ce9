CONSTANTS
    SEQ_MOD = 16
    WINDOW_SIZE = 2
    RECV_WINDOW = 3
    ACK_BEHIND = 5
    FRAG_MOD = 3
    MAX_PARTS = 5
    MAX_ATTEMPTS = 1
    MAX_AGE = 1
    START = 14
    Sizes <- SingleAndFive
    MaxFrames = 6
    RetxValues = {1}
SPECIFICATION Spec
INVARIANTS
    NoFalseAck
    CurrentAckCovers
    DeliveredIntact
    AckedMeansDelivered
    OvertakesAtWrap

CONSTANTS
    SEQ_MOD = 16
    WINDOW_SIZE = 2
    RECV_WINDOW = 3
    ACK_BEHIND = 5
    FRAG_MOD = 4
    MAX_PARTS = 2
    MAX_ATTEMPTS = 3
    MAX_AGE = 1
    START = 0
    Sizes <- SingleAndPair
    MaxFrames = 2
    RetxValues = {1}
    DEFAULT_RETX = 1
    Scenarios <- OneLoss
SPECIFICATION Spec
INVARIANTS
    LossRecovered

CONSTANTS
    SEQ_MOD = 3
    MAX_PENDING_BLOCKS = 2
    MESSAGE_MAX = 1
    RECEIVE_WINDOW = 0
    MaxSeq = 5
    WireCap = 3
    TxCap = 2
    MAX_RTO = 2
    MaxFaults = 2
    MaxReports = 0
    Notify = {FALSE}
    Respond = {FALSE}
SPECIFICATION FairSpec
PROPERTIES ImplementsLink EventuallyAcked
INVARIANTS ExactlyOnceInOrder
CHECK_DEADLOCK FALSE

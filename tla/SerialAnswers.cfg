CONSTANTS
    SEQ_MOD = 4
    MAX_PENDING_BLOCKS = 3
    MESSAGE_MAX = 1
    RECEIVE_WINDOW = 2
    MaxSeq = 4
    WireCap = 3
    TxCap = 2
    MAX_RTO = 1
    MaxFaults = 1
    MaxReports = 1
    Notify = {TRUE}
    Respond = {TRUE, FALSE}
SPECIFICATION Spec
INVARIANTS NotifyAfterResponse TimesUnambiguous ReceiveBufferSuffices
CHECK_DEADLOCK FALSE

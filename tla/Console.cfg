CONSTANTS
    Size = 4
    MaxSizes = {1, 2, 3}
    MaxMessages = 4
    RxSize = 5
    MESSAGE_MIN = 2
    MESSAGE_MAX = 3
    NumBlocks = 3
    LongBlocks = {1, 3}
    MaxBlocks = 5
    MaxShutdowns = 1
SPECIFICATION MCSpec
INVARIANTS TransmitInv ExecutedOnceInOrder NoSleepOnBlock
CHECK_DEADLOCK FALSE

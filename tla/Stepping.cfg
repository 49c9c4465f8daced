CONSTANTS
    BIAS = 16
    SingleSched = {TRUE, FALSE}
    move_count = 2
    Counts = {1, 2}
    MaxMoves = 3
    MaxHomings = 2
    MaxRestarts = 1
    Steppers = {1, 2}
    NUM_MOVES = 3
    CLOCK_DIFF_MAX = 2
    PulseTicks = 1
    LinkTicks = 1
    Intervals = {1}
    Lengths = {0, 1}
    Lookahead = 5
    FlushAhead = {3, 5}
    MaxClock = 5
    MaxShared = 5
    MaxStops = 1
SPECIFICATION MCSpec
INVARIANTS PoolInv PositionExact HostKnowsPosition StopHolds NeverOverflows LeavesInTime
CHECK_DEADLOCK FALSE

CONSTANTS
    Cruises = {10, 20}
    Deltas = {6, 12}
    Smooths = {6}
    Junctions = {0, 20}
    MaxQueue = 4
    Durations = {1, 4}
    MaxMoves = 2
    Delays = {1, 2}
    MinKin = 1
    Start = 2
    Low = 3
    High = 5
    Prime = 1
    Second = 2
    DripLead = 1
    DripSegment = 1
    MaxLate = 1
    Past = 4
    MaxLead = 4
    Queues = {q1, q2}
    Senders = {s1, s2}
    Clocks = {0, 3}
    MaxTime = 4
    MaxMsgs = 3
    ReqDelta = 1
    BgDelta = 1
    Far = 2
    PayloadMax = 2
    MaxPending = 2
SPECIFICATION MCSpec
INVARIANTS SpeedContinuous MovesFeasible AppendsAhead FlushInTime WakesInTime QueuesInOrder
PROPERTIES BufferBounded
SYMMETRY Alike
CHECK_DEADLOCK FALSE

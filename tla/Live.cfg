CONSTANTS
    N = 2
    McuCount = 1
    SampleCount = 2
    Retries = 1
    Droppable = {"report", "trigger"}
    Sessions = 1
    Faults = 1
    Backlog = 1
    V = 2
    Methods = {"arduino", "config_reset"}
    MaxRestarts = 1
    MaxFaults = 1
    MaxInput = 2
    MaxSessions = 1
    Durations = {3}
    MaxQueue = 2
    Delays = {1}
    MinKin = 1
    Start = 2
    Low = 3
    High = 5
    Prime = 1
    Second = 2
    DripLead = 1
    DripSegment = 1
    MaxLate = 1
    Past = 4
    MaxLead = 4
SPECIFICATION MCFairSpec
INVARIANTS ReadersInv
PROPERTIES SessionEnds HostComesToRest DisconnectEnds CommandsReturn
CHECK_DEADLOCK FALSE

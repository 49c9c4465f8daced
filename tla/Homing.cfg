SPECIFICATION Spec
CONSTANTS
    N = 2
    SampleCount = 1
    Retries = 1
    Droppable = {"answer"}
    Sessions = 1
    Faults = 1
    Backlog = 1
INVARIANTS SessionInv OutcomeIsTrue
CHECK_DEADLOCK FALSE

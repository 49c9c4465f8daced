SPECIFICATION Spec
CONSTANTS
    N = 2
    ExpireTicks = 2
    ReportTicks = 1
    MinExtend = 2
    MaxTime = 5
    Backlog = 1
INVARIANTS BoundedOvershoot
 
CHECK_DEADLOCK FALSE

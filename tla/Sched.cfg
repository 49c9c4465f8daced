CONSTANTS
    Users = {u1, u2, u3}
    Periodic = periodic
    Deleted = deleted
    Sentinel = sentinel
    NULL = null
    HALF = 6
    PERIOD = 2
    Horizon = 3
    Lag = 1
SPECIFICATION Spec
INVARIANTS ListInv 
VIEW LiveState

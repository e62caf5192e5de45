CONSTANTS
    PoolSizes = {2}
    MaxConns = 2
SPECIFICATION Spec
INVARIANTS CleanStop
CHECK_DEADLOCK FALSE

CONSTANTS
    PoolSizes = {1, 2}
    MaxConns = 2
SPECIFICATION LiveSpec
INVARIANTS ManagerTracks AloneStopsClean KeepsAccepting
PROPERTIES ShutsDown
CHECK_DEADLOCK FALSE

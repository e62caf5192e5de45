CONSTANTS
    Clients <- OneHeader
    Cap = 5
    Junk <- Uninitialised
SPECIFICATION Spec
INVARIANTS NeverBad
CHECK_DEADLOCK FALSE

CONSTANTS
    w1 = w1
    w2 = w2
    b1 = b1
    b2 = b2
    Windows <- TwoWindows
    Homes <- SameOrNot
    Conns = 2
    Loads <- ThreeLoads
    NoSid = NoSid
    MaxKeep = 1
    Drop = 1
SPECIFICATION LiveSpec
INVARIANTS ShownOnce ShownInOrder OnlyFailureLoses
PROPERTIES CatchesUp
CHECK_DEADLOCK FALSE

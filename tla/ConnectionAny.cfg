CONSTANTS
    Clients <- AllClients
    Cap = 5
    Junk <- Uninitialised
SPECIFICATION LiveSpec
INVARIANTS ReadHasRoom InOrderOnce OrderlyNeverBad
PROPERTIES DispatchedWhole Answered
CHECK_DEADLOCK FALSE

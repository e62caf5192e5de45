CONSTANTS
    Sizes = {7, 20}
    Chunk = 3
    MaxInt = 15
    Asks <- AnyRange
    Junk <- Few
SPECIFICATION LiveSpec
INVARIANTS BodyAsAsked BodyStaysInBounds
PROPERTIES Ends

CONSTANTS
    Chars = {"H", "T", "P", "1", ".", "/", ":", "sp", "cr", "lf", "hi"}
    Given <- Nothing
    MaxField = 1
    MaxHeaders = 1
    MaxInput = 24
SPECIFICATION Spec
INVARIANTS BackIsDefined AgreesWithGrammar

CONSTANTS
    Uploads <- AnyUpload
    Cap = 20
    MaxLen = 3
SPECIFICATION LiveSpec
INVARIANTS StoredExactly LengthAsSaved HoldsBeginning
PROPERTIES UploadEnds
CHECK_DEADLOCK FALSE

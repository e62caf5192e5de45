SPECIFICATION Spec
CONSTANTS
    Alnum = {"a"}
    Dictionaries <- FewDictionaries
    Frequencies <- FewFrequencies
    Texts <- ShortTexts
    Depth = 3
    Objects = {"a", "b"}
    Hosts = {"h1", "h2"}
    Values <- FewValues
    MaxCalls = 5
    MaxDoc = 5
    Inputs <- ShortInputs
    Room = {0, 3, 8}
    StreamLengths <- ShortStreams
    StreamChunks = {0, 1, 3, 8}
    ReplyLengths <- ShortReplies
    MaxRequests = 4
    DocRoot <- RootBytes
    Index <- IndexBytes
    Symbols <- FewSymbols
    Limit <- LongestTexts
INVARIANTS RunsTakenWhole ClassesAsLoaded MessageArrives ConvertedWhole StreamDelivered ReplyIsOwn PathsFound ParametersFound TextsSurvive
CHECK_DEADLOCK FALSE

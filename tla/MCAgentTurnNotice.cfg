\* A streaming provider and a tool that may fail.
CONSTANTS
    Plain = {}
    Streamed = {s1}
    Tool = {t1}
    MaxSteps = 2
    MaxPieces = 2
    MaxRound = 1
    ProviderStreams = TRUE
    StorageFails = FALSE
    NoOne = NoOne
SPECIFICATION Spec
INVARIANT NoticeReachesTheCaller

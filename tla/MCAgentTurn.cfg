\* A plain and a streamed caller, failing storage, a streaming provider.
CONSTANTS
    Plain = {p1}
    Streamed = {s1}
    Tool = {t1, t2}
    MaxSteps = 3
    MaxPieces = 1
    MaxRound = 1
    ProviderStreams = TRUE
    StorageFails = TRUE
    NoOne = NoOne
SPECIFICATION Spec
INVARIANTS TurnsAreWhole RecordedInBothHistories AnswersAreTrue
PROPERTY ImplementsService

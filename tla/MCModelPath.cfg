\* Two retries, a cooldown of two units; three calls; five texts; eight tools; two
\* keys of which one is an instruction; two browsers that ask for two texts of which
\* one is kept.
CONSTANTS
    MaxRetries = 2
    Cooldown = 2
    MaxPieces = 2
    MaxCalls = 3
    MaxLines = 2
    Text = {"duz", "uzun", "evet", "soru", "bilgi"}
    Size <- SmallSize
    Asks = {"soru", "bilgi"}
    BoundReply = {"evet"}
    BlockLike = {"bilgi"}
    NoText = "yok"
    ResultSize = {1, 4}
    EN_AZ_TUR = 2
    OZET_SATIR = 3
    Budget = 8
    MaxKept = 4
    MaxResults = 2
    MaxMessages = 7
    Limit = 8
    Developer = TRUE
    CuePairs <- SmallCuePairs
    Key = {"a", "b"}
    Value = {v1, v2}
    Merged = merged
    NoValue = none
    Similar <- SmallSimilar
    Instruction = {"b"}
    MergeSource = {"kullanici"}
    RecallLimit = 1
    PruneAge = 0
    MaxNow = 1
    MaxWrites = 3
    SpeechRequest = {r1, r2}
    Warmup = w
    NoThread = n
    MaxTexts = 2
    KeptTexts = 1
    CacheSize = 1
SPECIFICATION PathSpec
INVARIANTS
    AnswersAreSound
    WindowIsFaithful
    RoutingIsClean
    
    MemoryKeepsItsWord
    SpeechIsKept
PROPERTIES
    DeadServerIsLeftAlone
    EveryCallEnds
    StreamsAreTheirOwn
    EveryRequestIsAnswered
\* A bound on calls, messages or writes is reached.
CHECK_DEADLOCK FALSE

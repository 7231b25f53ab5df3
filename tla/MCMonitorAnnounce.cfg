\* Two loops that report one key each.
CONSTANTS
    Key = {"ram.high", "health.ollama"}
    Reporter <- TwoLoops
    Loops = {"telemetry", "health"}
    Levels <- SomeLevels
    Policy <- SomePolicies
    RecoverySamples = 2
    Cooldown = 1
    Gap = 1
SPECIFICATION FairSpec
INVARIANT SentencesAreInStep
PROPERTY AnnouncementsSettle

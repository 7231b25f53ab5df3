\* One typed, one ticked and two spoken requests at once, JARVIS_SESLI_TABAN=low;
\* two redirects, two results; a catalogue of three entries.
CONSTANTS
    Typed = {t1}
    Ticked = {a1}
    Spoken = {s1, s2}
    SpokenFloor = 0
    MaxCalls = 1
    NoOne = NoOne
    Names = {n1}
    MaxHops = 2
    MostResults = 2
    BuiltIn <- SmallCatalogue
    OwnerFiles <- SmallFiles
    Requests <- SmallRequests
    ShortName = 3
SPECIFICATION ToolsSpec
INVARIANTS
    ApprovalStaysInItsTurn
    AuthorityOfEveryRun
    FloorOfSpokenTurns
    WebIsHonest
    OpeningIsTrue
PROPERTIES
    EveryRequestAnswered

\* Turns one after another and a panel that may stop reading; two loops; two answers
\* spoken in one piece.
CONSTANTS
    Turn = {u1, u2}
    Hearing = {}
    Speech = {}
    Vision = {}
    Panel = {p1}
    QueueLimit = 2
    MaxCalls = 2
    Loops = {l1, l2}
    MaxAnswers = 2
    Pieces = 1
    SoundQueueLimit = 1
    Retries = 1
SPECIFICATION ServerSpec
INVARIANTS
    PanelsAgree
    
    PlaybackIsOrderly
PROPERTIES
    EveryActivityEnds
    ShutdownEnds
    PlaybackEnds
\* The server is closed, the console is left.
CHECK_DEADLOCK FALSE

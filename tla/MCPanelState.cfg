\* All four kinds of activity at once, two turns among them, no panel; two that ask
\* for a report that is kept for two units of time.
CONSTANTS
    Turn = {u1, u2}
    Hearing = {h1}
    Speech = {s1}
    Vision = {v1}
    Panel = {}
    QueueLimit = 1
    MaxCalls = 1
    Askers = {asker1, asker2}
    KeepFor = 2
    MaxTime = 3
SPECIFICATION PanelSpec
INVARIANTS
    RestIsStandby
    ReportIsHonest
\* The bound on time is reached.
CHECK_DEADLOCK FALSE

\* Failing notifications, two failing writes or restarts; one case and its session, two technicians;
\* two documents; a backup of two databases; files of two records, three archives;
\* two phrases; a settings file of two lines.
CONSTANTS
    Item = {i1}
    Cases = 1
    CaseLimit = 1
    Turn = {t1}
    NotifierFails = TRUE
    MaxMishaps = 2
    CaseId = {1}
    Session = {1}
    Technician = {e1, e2}
    Playbook = {"guc-yok", "goruntu-yok", "asiri-isinma"}
    NoCase = none
    MaxAnswers = 4
    File = {f1, f2}
    Content = {1}
    Gone = gone
    Blank = blank
    Refused = refused
    MaxEdits = 2
    Kept = {d1, d2}
    Passing = {g}
    MaxDataEdits = 2
    MaxKills = 1
    MaxRecords = 9
    PerFile = 2
    Archives = 3
    MaxCrashes = 2
    Phrases = {p1, p2}
    Meanings = {m1, m2}
    MaxHandEdits = 1
    Keys = {k1, k2}
    Values = {v1, v2}
    MaxEnvLines = 2
SPECIFICATION StoresSpec
INVARIANTS
    ToldOnce
    DiagnosisIsExplained
    IndexIsSound
    BackupIsSound
    CommandsSurvive
    SettingsAreRead
PROPERTIES
    TrailIsOneJournal
    ItemIsTold
    CaseIsTried
    SyncCatchesUp
\* A bound on answers, records or kills is reached.
CHECK_DEADLOCK FALSE

---------------------------- MODULE HealthPanel ----------------------------
(***************************************************************************)
(* The measured health report of the panel.                                *)
(*                                                                         *)
(* health_report measures every part (collect_health) under a lock, keeps  *)
(* the report for a while, and publishes its verdict after the lock is     *)
(* free.  Panels ask for it at every paint, the monitor with refresh.  The *)
(* keeping time is measured with the wall clock, which may be set back.    *)
(*                                                                         *)
(* A part's state is external; of the checks of one category that follow   *)
(* the same rule, one stands for all.                                      *)
(*                                                                         *)
(* An operator named X_Fault is X with a seeded fault.  The specification  *)
(* never uses it: it shows that the properties notice the fault.           *)
(***************************************************************************)
EXTENDS Integers, FiniteSets, FiniteSetsExt

CONSTANTS
    Askers,      (* panels' requests and the monitor's loop                 *)
    KeepFor,     (* the 15 s a report is kept, in ticks                     *)
    MaxTime      (* the last tick, a bound                                  *)

ASSUME HealthAssumption == KeepFor \in Nat \ {0} /\ MaxTime \in Nat \ {0}

VARIABLES
    world,       (* how the parts really are                                *)
    wallClock,   (* time.time()                                             *)
    elapsed,     (* time that really passed (history)                       *)
    setBack,     (* whether the clock was ever set back (history)           *)
    report,      (* _health_cache, or NoReport                              *)
    cachedAt,    (* _health_cached_at                                       *)
    asker,       (* what each asker is doing                                *)
    given        (* the report each asker was last given                    *)

healthVars == <<world, wallClock, elapsed, setBack, report, cachedAt, asker, given>>
clocks == <<wallClock, elapsed, setBack>>

-----------------------------------------------------------------------------
(* collect_health.                                                         *)

\* How the parts can be: the model, a vital part that is broken, and the
\* parts that are not vital, fine or bad together.
Worlds == [model : {"other_provider", "online", "not_found", "offline"},
           broken : {"nothing", "core", "packages", "memory", "tools"},
           lesser : {"fine", "bad"}]
Vital(w) == w.model \in {"other_provider", "online"} /\ w.broken = "nothing"

\* The checks: part, status, and whether the part is required.
SwallowedLimit == 5
Check(part, status, required) == [part |-> part, status |-> status, required |-> required]
UsageStatus(percent) ==
    IF percent >= 97 THEN "critical" ELSE IF percent >= 90 THEN "warning" ELSE "ready"
\* A provider other than Ollama is not asked.
Model(w) ==
    CASE w.model = "other_provider" ->
            {Check("server", "unknown", FALSE), Check("model", "ready", TRUE)}
      [] w.model = "online" -> {Check("server", "ready", TRUE), Check("model", "ready", TRUE)}
      [] w.model = "not_found" ->
            {Check("server", "ready", TRUE), Check("model", "critical", TRUE)}
      [] w.model = "offline" ->
            {Check("server", "critical", TRUE), Check("model", "critical", TRUE)}
Checks(w) ==
    LET vital(part) == Check(part, IF w.broken = part THEN "critical" ELSE "ready", TRUE)
        lesser(part, bad) == Check(part, IF w.lesser = "fine" THEN "ready" ELSE bad, FALSE)
        diskPercent == IF w.lesser = "fine" THEN 50 ELSE 98
        swallowed == IF w.lesser = "fine" THEN 0 ELSE SwallowedLimit
    IN
    Model(w) \cup {vital(part) : part \in {"core", "packages", "memory", "tools"}} \cup
    {Check("disk", UsageStatus(diskPercent), FALSE),
     Check("swallowed", IF swallowed < SwallowedLimit THEN "ready" ELSE "warning", FALSE),
     lesser("speech", "warning"), Check("microphone", "unknown", FALSE),
     lesser("gpu", "unknown"), lesser("index", "warning"), lesser("venv", "warning")}
Categories == {{"server", "model"}, {"core", "disk", "swallowed"}, {"gpu"},
               {"speech", "microphone"}, {"memory", "index"}, {"tools"}, {"packages", "venv"}}

\* round: to the nearest, a half to the even neighbour.
Rounded(sum, n) ==
    LET q == sum \div n
        twice == 2 * (sum % n)
    IN  IF twice > n \/ (twice = n /\ q % 2 = 1) THEN q + 1 ELSE q

\* A part that is unknown counts for nothing, nor does a category of them.
Points(status) == CASE status = "ready" -> 100 [] status = "warning" -> 50 [] OTHER -> 0
Average(S, value(_)) == Rounded(MapThenSumSet(value, S), Cardinality(S))
Known(w, c) == {k \in Checks(w) : k.part \in c /\ k.status # "unknown"}
CategoryScore(w, c) == LET points(k) == Points(k.status) IN Average(Known(w, c), points)
Score(w) == LET score(c) == CategoryScore(w, c)
            IN  Average({c \in Categories : Known(w, c) # {}}, score)

\* A required part that fails is critical whatever the others' points are.
RequiredFails_Fault(w) == FALSE
RequiredFails(w) == \E k \in Checks(w) : k.required /\ k.status = "critical"
Verdict(w) ==
    IF RequiredFails(w) \/ Score(w) < 50 THEN "CRITICAL"
    ELSE IF Score(w) >= 85 THEN "OPERATIONAL" ELSE "DEGRADED"
NoReport == [verdict |-> "none", vital |-> TRUE, at |-> 0]

-----------------------------------------------------------------------------
HealthInit ==
    /\ world \in Worlds
    /\ wallClock = 1
    /\ elapsed = 1
    /\ setBack = FALSE
    /\ report = NoReport
    /\ cachedAt = 0
    /\ asker = [a \in Askers |-> "idle"]
    /\ given = [a \in Askers |-> NoReport]

\* A part breaks or recovers.
Changes(w) ==
    /\ \E aspect \in DOMAIN w : w = [world EXCEPT ![aspect] = w[aspect]]
    /\ world' = w
    /\ UNCHANGED <<clocks, report, cachedAt, asker, given>>

TimePasses(back) ==
    /\ elapsed < MaxTime
    /\ elapsed' = elapsed + 1
    /\ wallClock' = IF back THEN 0 ELSE wallClock + 1
    /\ setBack' = (setBack \/ back)
    /\ UNCHANGED <<world, report, cachedAt, asker, given>>

\* health_report: the lock is held from the look at the kept report to the
\* end of the measurement.
Locked == \E a \in Askers : asker[a] = "measuring"
StillKept_Fault == report # NoReport
StillKept == report # NoReport /\ wallClock - cachedAt < KeepFor
AskHealth(a, refresh) ==
    /\ asker[a] = "idle"
    /\ ~Locked
    /\ IF ~refresh /\ StillKept
       THEN given' = [given EXCEPT ![a] = [report EXCEPT !.at = elapsed - report.at]]
            /\ UNCHANGED asker
       ELSE asker' = [asker EXCEPT ![a] = "measuring"] /\ UNCHANGED given
    /\ UNCHANGED <<world, clocks, report, cachedAt>>

Measured(a) ==
    /\ asker[a] = "measuring"
    /\ report' = [verdict |-> Verdict(world), vital |-> Vital(world), at |-> elapsed]
    /\ cachedAt' = wallClock
    /\ given' = [given EXCEPT ![a] = [report' EXCEPT !.at = 0]]
    /\ asker' = [asker EXCEPT ![a] = "publishing"]
    /\ UNCHANGED <<world, clocks>>

\* The verdict is published without the lock: a later one may overtake it.
PublishHealth(a) ==
    /\ asker[a] = "publishing"
    /\ asker' = [asker EXCEPT ![a] = "idle"]
    /\ UNCHANGED <<world, clocks, report, cachedAt, given>>

HealthNext ==
    \/ \E w \in Worlds : Changes(w)
    \/ \E back \in BOOLEAN : TimePasses(back)
    \/ \E a \in Askers, refresh \in BOOLEAN : AskHealth(a, refresh)
    \/ \E a \in Askers : Measured(a) \/ PublishHealth(a)

HealthSpec == HealthInit /\ [][HealthNext]_healthVars

-----------------------------------------------------------------------------
(* Properties.                                                             *)

\* Every variable keeps its type; a report's "at" is when it was measured, a
\* given report's how old it was.
HealthTypeOK ==
    /\ world \in Worlds
    /\ {wallClock, elapsed, cachedAt} \subseteq 0 .. MaxTime
    /\ setBack \in BOOLEAN
    /\ asker \in [Askers -> {"idle", "measuring", "publishing"}]
    /\ \A r \in {report} \cup {given[a] : a \in Askers} :
        /\ r.vital \in BOOLEAN
        /\ r.verdict \in {"none", "CRITICAL", "DEGRADED", "OPERATIONAL"}
        /\ r.at \in 0 .. MaxTime

\* A failing part the assistant cannot work without is never averaged away:
\* whoever is given a report that says OPERATIONAL or DEGRADED had the model,
\* the core, the packages, the memory and the tools when it was measured.
NothingVitalIsAveragedAway ==
    \A a \in Askers :
        given[a].verdict \in {"OPERATIONAL", "DEGRADED"} => given[a].vital

\* "Avoid repeating heavy probes on every paint", but not for longer than the
\* keeping time: no one is given an older report, with two askers at once too,
\* as long as the clock is not set back.
ReportIsRecent == \A a \in Askers : setBack \/ given[a].at < KeepFor

\* What a report says is true of the time it was measured, and that was not
\* long ago.
ReportIsHonest == HealthTypeOK /\ NothingVitalIsAveragedAway /\ ReportIsRecent
=============================================================================

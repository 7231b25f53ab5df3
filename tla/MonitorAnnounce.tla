-------------------------- MODULE MonitorAnnounce --------------------------
(***************************************************************************)
(* The proactive monitor and the spoken announcements that follow it.      *)
(*                                                                         *)
(* Each key (a measurement, a probe or a service) is reported by one       *)
(* thread: the telemetry loop, the health loop, or the turns, which the    *)
(* agent runs one at a time.  A thread takes a snapshot of its keys and    *)
(* judges them one after another.  ProactiveMonitor changes its issue      *)
(* under its lock and publishes afterwards, without the lock, a warning,   *)
(* an alert or a recovery; the bus calls Duyurucu on the same thread,      *)
(* which decides under a lock of its own whether the sentence is spoken,   *)
(* and speaks it after it released that one too.  Between these points     *)
(* other threads do the same, time passes, quiet hours begin and end.      *)
(*                                                                         *)
(* An operator named X_Fault is X with a seeded fault.  The specification  *)
(* never uses it: it shows that the properties notice the fault.           *)
(***************************************************************************)
EXTENDS Integers

CONSTANTS
    Key,             (* keys of issues                                      *)
    Reporter,        (* the name of the thread that reports each key        *)
    Loops,           (* the reporters that are background loops             *)
    Levels,          (* what each key may be measured as                    *)
    Policy,          (* the announcement settings the program may start with*)
    RecoverySamples, (* MonitorConfig.recovery_samples                      *)
    Cooldown,        (* MonitorConfig.cooldown, in ticks                    *)
    Gap              (* DuyuruAyari.en_az_ara, in ticks                     *)

Trouble == {"warning", "critical"}
Thread == {Reporter[k] : k \in Key}

ASSUME ReporterAssumption == Loops \subseteq Thread
ASSUME LevelsAssumption ==
    Levels \in [Key -> (SUBSET (Trouble \cup {"ok", "unknown"})) \ {{}}]
ASSUME PolicyAssumption ==
    Policy \subseteq [onlyCritical : BOOLEAN, speaksRecovery : BOOLEAN]
ASSUME BoundsAssumption ==
    RecoverySamples \in Nat \ {0} /\ Cooldown \in Nat \ {0} /\ Gap \in Nat

VARIABLES
    policy,      (* DuyuruAyari                                             *)
    level,       (* what a measurement of the key would give now            *)
    sample,      (* the key's part of the snapshot that is being judged     *)
    severity,    (* _issues: the severity of the key's issue, or "none"     *)
    clears,      (* clear_samples of the issue                              *)
    emitAge,     (* ticks since last_emit of the issue, at most Cooldown    *)
    publishing,  (* the event of the key on its way to the announcer        *)
    announced,   (* _duyurulan                                              *)
    spokeAge,    (* ticks since _son_duyuru, at most Gap                    *)
    speaking,    (* the sentence about the key that is about to be spoken   *)
    quiet,       (* whether it is a quiet hour                              *)
    heard        (* what was heard of the key's trouble since it last ended *)

issueVars == <<severity, clears, emitAge>>
announcerVars == <<announced, spokeAge>>
vars == <<policy, level, sample, issueVars, publishing, announcerVars, speaking,
          quiet, heard>>

Init ==
    /\ policy \in Policy
    /\ level \in [Key -> Trouble \cup {"ok", "unknown"}]
    /\ \A k \in Key : level[k] \in Levels[k]
    /\ sample = [k \in Key |-> "none"]
    /\ severity = [k \in Key |-> "none"]
    /\ clears = [k \in Key |-> 0]
    /\ emitAge = [k \in Key |-> 0]
    /\ publishing = [k \in Key |-> "none"]
    /\ announced = {}
    /\ spokeAge = Gap
    /\ speaking = [k \in Key |-> "none"]
    /\ quiet \in BOOLEAN
    /\ heard = [k \in Key |-> "nothing"]

-----------------------------------------------------------------------------
(* ProactiveMonitor.                                                       *)

\* The thread of a key is inside a publish: the bus calls its subscribers
\* before publish returns.
Busy(t) == \E k \in Key : Reporter[k] = t /\ (publishing[k] # "none" \/ speaking[k] # "none")

\* A loop collects telemetry or health, a turn meets its outcome: one
\* snapshot of all the keys of the thread.
BeginPass(t) ==
    /\ ~Busy(t)
    /\ \A k \in Key : Reporter[k] = t => sample[k] = "none"
    /\ sample' = [k \in Key |-> IF Reporter[k] = t THEN level[k] ELSE sample[k]]
    /\ UNCHANGED <<policy, level, issueVars, publishing, announcerVars, speaking, quiet, heard>>

\* _emit: a trouble is published when it is new, when its severity changed,
\* and again when the cooldown has passed.
ShouldEmit_Fault(k, s) == severity[k] # s
ShouldEmit(k, s) == severity[k] # s \/ emitAge[k] >= Cooldown
Emit(k) ==
    /\ sample[k] \in Trouble
    /\ ~Busy(Reporter[k])
    /\ sample' = [sample EXCEPT ![k] = "none"]
    /\ severity' = [severity EXCEPT ![k] = sample[k]]
    /\ clears' = [clears EXCEPT ![k] = 0]
    /\ IF ShouldEmit(k, sample[k])
       THEN /\ emitAge' = [emitAge EXCEPT ![k] = 0]
            /\ publishing' = [publishing EXCEPT ![k] = sample[k]]
       ELSE UNCHANGED <<emitAge, publishing>>
    /\ UNCHANGED <<policy, level, announcerVars, speaking, quiet, heard>>

\* _clear: the issue ends with RecoverySamples clear samples in a row.
Recovered_Fault(k) == clears[k] >= RecoverySamples
Recovered(k) == clears[k] + 1 >= RecoverySamples
Clear(k) ==
    /\ sample[k] = "ok"
    /\ ~Busy(Reporter[k])
    /\ sample' = [sample EXCEPT ![k] = "none"]
    /\ \/ /\ severity[k] = "none"
          /\ UNCHANGED <<issueVars, publishing>>
       \/ /\ severity[k] # "none" /\ ~Recovered(k)
          /\ clears' = [clears EXCEPT ![k] = @ + 1]
          /\ UNCHANGED <<severity, emitAge, publishing>>
       \/ /\ severity[k] # "none" /\ Recovered(k)
          /\ severity' = [severity EXCEPT ![k] = "none"]
          /\ clears' = [clears EXCEPT ![k] = 0]
          /\ emitAge' = [emitAge EXCEPT ![k] = 0]
          /\ publishing' = [publishing EXCEPT ![k] = "recovered"]
    /\ UNCHANGED <<policy, level, announcerVars, speaking, quiet, heard>>

\* A value that could not be measured, a check that is unknown, a call that
\* reported nothing: neither healthy nor actionable.
Skip(k) ==
    /\ sample[k] = "unknown"
    /\ ~Busy(Reporter[k])
    /\ sample' = [sample EXCEPT ![k] = "none"]
    /\ UNCHANGED <<policy, level, issueVars, publishing, announcerVars, speaking, quiet, heard>>

-----------------------------------------------------------------------------
(* Duyurucu.                                                               *)

\* _izin_ve_kaydet: the policy; the permission and its record are one step.
Permitted_Fault(k) ==
    /\ policy.onlyCritical => publishing[k] = "critical"
    /\ ~quiet
    /\ spokeAge >= Gap
Permitted(k) ==
    /\ policy.onlyCritical => publishing[k] = "critical"
    /\ k \notin announced
    /\ ~quiet
    /\ spokeAge >= Gap
DecideTrouble(k) ==
    /\ publishing[k] \in Trouble
    /\ publishing' = [publishing EXCEPT ![k] = "none"]
    /\ IF Permitted(k)
       THEN /\ announced' = announced \cup {k}
            /\ spokeAge' = 0
            /\ speaking' = [speaking EXCEPT ![k] = "trouble"]
       ELSE UNCHANGED <<announced, spokeAge, speaking>>
    /\ UNCHANGED <<policy, level, sample, issueVars, quiet, heard>>

\* _on_duzelme: the key is forgotten whether its recovery is told or not.
Closed_Fault(k) == IF policy.speaksRecovery THEN announced \ {k} ELSE announced
Closed(k) == announced \ {k}
TellsRecovery_Fault(k) == policy.speaksRecovery /\ ~quiet
TellsRecovery(k) == policy.speaksRecovery /\ k \in announced /\ ~quiet
DecideRecovery(k) ==
    /\ publishing[k] = "recovered"
    /\ publishing' = [publishing EXCEPT ![k] = "none"]
    /\ announced' = Closed(k)
    /\ IF TellsRecovery(k)
       THEN /\ spokeAge' = 0
            /\ speaking' = [speaking EXCEPT ![k] = "recovery"]
            /\ UNCHANGED heard
       ELSE /\ heard' = [heard EXCEPT ![k] = "nothing"]
            /\ UNCHANGED <<spokeAge, speaking>>
    /\ UNCHANGED <<policy, level, sample, issueVars, quiet>>

\* _seslendir: a voice that fails, or that is not there, is counted and
\* otherwise ignored.
Speak(k, works) ==
    /\ speaking[k] # "none"
    /\ speaking' = [speaking EXCEPT ![k] = "none"]
    /\ heard' = [heard EXCEPT ![k] =
                    IF speaking[k] = "recovery" THEN "nothing"
                    ELSE IF @ # "nothing" THEN "again"
                    ELSE IF works THEN "trouble" ELSE "lost"]
    /\ UNCHANGED <<policy, level, sample, issueVars, publishing, announcerVars, quiet>>

-----------------------------------------------------------------------------
(* The machine under measurement, the clocks and the night.                *)

LevelChanges(k) ==
    /\ \E l \in Levels[k] \ {level[k]} : level' = [level EXCEPT ![k] = l]
    /\ UNCHANGED <<policy, sample, issueVars, publishing, announcerVars, speaking, quiet, heard>>

\* Ages stop at the bound the code compares them with.
Older(age, bound) == IF age < bound THEN age + 1 ELSE bound
Tick ==
    /\ emitAge' = [k \in Key |-> IF severity[k] = "none" THEN 0
                                 ELSE Older(emitAge[k], Cooldown)]
    /\ spokeAge' = Older(spokeAge, Gap)
    /\ UNCHANGED <<policy, level, sample, severity, clears, publishing, announced,
                   speaking, quiet, heard>>

HourChanges ==
    /\ quiet' = ~quiet
    /\ UNCHANGED <<policy, level, sample, issueVars, publishing, announcerVars, speaking, heard>>

\* Judging one key of the pass, up to the return of publish.
Judge(k) ==
    \/ Emit(k) \/ Clear(k) \/ Skip(k)
    \/ DecideTrouble(k) \/ DecideRecovery(k)
    \/ \E works \in BOOLEAN : Speak(k, works)

Next ==
    \/ \E t \in Thread : BeginPass(t)
    \/ \E k \in Key : Emit(k) \/ Clear(k) \/ Skip(k)
    \/ \E k \in Key : DecideTrouble(k) \/ DecideRecovery(k)
    \/ \E k \in Key, works \in BOOLEAN : Speak(k, works)
    \/ \E k \in Key : LevelChanges(k)
    \/ Tick \/ HourChanges

Spec == Init /\ [][Next]_vars

\* The loops go on measuring and a judgement that was begun is finished; time
\* passes.  Nothing is assumed of turns, levels or hours.
Fairness ==
    /\ \A t \in Loops : WF_vars(BeginPass(t))
    /\ \A k \in Key : WF_vars(Judge(k))
    /\ WF_vars(Tick)
FairSpec == Spec /\ Fairness

-----------------------------------------------------------------------------
(* Properties.                                                             *)

TypeOK ==
    /\ policy \in Policy
    /\ level \in [Key -> Trouble \cup {"ok", "unknown"}]
    /\ sample \in [Key -> Trouble \cup {"ok", "unknown", "none"}]
    /\ severity \in [Key -> Trouble \cup {"none"}]
    /\ clears \in [Key -> 0 .. RecoverySamples - 1]
    /\ emitAge \in [Key -> 0 .. Cooldown]
    /\ publishing \in [Key -> Trouble \cup {"recovered", "none"}]
    /\ announced \subseteq Key
    /\ spokeAge \in 0 .. Gap
    /\ speaking \in [Key -> {"trouble", "recovery", "none"}]
    /\ quiet \in BOOLEAN
    /\ heard \in [Key -> {"nothing", "trouble", "lost", "again"}]

\* An announcement never outlives its issue: a key that the announcer
\* remembers has an open issue, or its recovery is on the way.  A key that
\* stayed behind would silence the next failure for ever.
AnnouncedIsOpen ==
    \A k \in announced : severity[k] # "none" \/ publishing[k] = "recovered"

\* "Back to normal" is only said of a key whose trouble was said before in
\* the same outage, whatever hours, settings and other keys' sentences came
\* between.  "lost" is a sentence that was decided on and whose voice then
\* failed: duyuru.py counts it as said, and tells the recovery of it.
RecoveryAnswersTrouble ==
    \A k \in Key : speaking[k] = "recovery" => heard[k] \in {"trouble", "lost"}

\* No outage is announced twice, though the monitor publishes it again at
\* every change of severity and after every cooldown.
OncePerOutage == \A k \in Key : heard[k] # "again"

\* When the measurements settle outside the quiet hours, every key of a loop
\* that settled as critical is announced in the end, though other keys'
\* sentences, the hours before or the gap swallowed its earlier alerts; and
\* every key that settled as healthy is closed and forgotten.
AnnouncementsSettle ==
    (<>[](~quiet) /\ <>[][UNCHANGED level]_level) =>
        \A k \in Key : Reporter[k] \in Loops =>
            <>[](/\ level[k] = "critical" => k \in announced
                 /\ level[k] = "ok" => k \notin announced /\ severity[k] = "none")

\* The announcer's sentences keep in step with the monitor's issues: one
\* trouble for an outage, its recovery after it, and nothing remembered
\* beyond.
SentencesAreInStep ==
    /\ TypeOK
    /\ AnnouncedIsOpen
    /\ RecoveryAnswersTrouble
    /\ OncePerOutage
=============================================================================

------------------------------ MODULE MCStores ------------------------------
(* What the program keeps in files and databases, for TLC.  They share no *)
(* state here: a behaviour is about one of them, its subject, from any    *)
(* initial state of that component, while the others keep one initial     *)
(* state.                                                                 *)
EXTENDS Reminders, DiagnosticCases, KnowledgeIndex, BackupRestore,
        AuditTrail, CustomCommands, Settings

VARIABLE subject

(* What is read from the environment without state, over bounded inputs.    *)
ASSUME SettingsCompute == CheckExaminesTheSpeaker /\ UnknownNameIsSilent /\ TyposAreHarmless

StoresInit ==
  /\ subject \in {"reminders", "cases", "index", "backup", "trail",
                 "commands", "settings"}
  /\ subject # "index" => disk = [f \in File |-> Gone] /\ server = [bulk |-> "raises", single |-> FALSE]
  /\ subject # "backup" =>
       data = [f \in Name |-> IF f \in Kept THEN 0 ELSE Absent]
  /\ subject # "commands" => change = CHOOSE p \in Phrases : TRUE
  /\ subject # "settings" => environment = [k \in Keys |-> Unset]
  /\ Init /\ DiagInit /\ IndexInit /\ BackupInit /\ TrailInit /\ CommandInit
  /\ SettingsInit
  \* To begin with the embedding server has one endpoint or both; what else
  \* they may do, they do later.
  /\ subject = "index" => server.single /\ server.bulk # "odd"

StoresNext ==
  /\ UNCHANGED subject
  /\ \/ /\ subject = "reminders" /\ Next
        /\ UNCHANGED <<diagVars, indexVars, backupVars, trailVars,
                      commandVars, settingVars>>
     \/ /\ subject = "cases" /\ DiagNext
        /\ UNCHANGED <<vars, indexVars, backupVars, trailVars, commandVars,
                      settingVars>>
     \/ /\ subject = "index" /\ IndexNext
        /\ UNCHANGED <<vars, diagVars, backupVars, trailVars, commandVars,
                      settingVars>>
     \/ /\ subject = "backup" /\ BackupNext
        /\ UNCHANGED <<vars, diagVars, indexVars, trailVars, commandVars,
                      settingVars>>
     \/ /\ subject = "trail" /\ TrailNext
        /\ UNCHANGED <<vars, diagVars, indexVars, backupVars, commandVars,
                      settingVars>>
     \/ /\ subject = "commands" /\ CommandNext
        /\ UNCHANGED <<vars, diagVars, indexVars, backupVars, trailVars,
                      settingVars>>
     \/ /\ subject = "settings" /\ SettingsNext
        /\ UNCHANGED <<vars, diagVars, indexVars, backupVars, trailVars,
                      commandVars>>

StoresVars == <<subject, vars, diagVars, indexVars, backupVars, trailVars,
                commandVars, settingVars>>

(* The fairness of Reminders, where it is the subject.                    *)
RemindersAreFair ==
  /\ WF_vars(subject = "reminders" /\ RunOnce)
  /\ \A i \in Item : SF_vars(subject = "reminders" /\ NotifyItem(i, TRUE))
  /\ SF_vars(subject = "reminders" /\ NotifyCase(TRUE))

(* The fairness of KnowledgeIndex, where it is the subject.               *)
SyncIsFair ==
  WF_indexVars(subject = "index" /\ Sync)

StoresSpec == /\ StoresInit /\ [][StoresNext]_StoresVars
              /\ RemindersAreFair /\ SyncIsFair
=============================================================================

----------------------------- MODULE AuditTrail -----------------------------
(* The two JSONL journals, audit.log.jsonl (security/audit.py) and             *)
(* requests.log.jsonl (core/observability.py): each record is appended to the  *)
(* file, which is first rotated when it would grow past its limit              *)
(* (maintenance/logs.py).  Every file operation is a step of its own: the      *)
(* process may die, or the system refuse, between any two of them.  A line is  *)
(* appended whole or not at all: one torn by a full disk is left out.          *)
EXTENDS Naturals, Sequences, FiniteSets

CONSTANTS MaxRecords,   \* bound: records made, numbered from 1
          PerFile,      \* max_bytes: the records a file may hold
          Archives,     \* backup_count
          MaxCrashes    \* bound: deaths of the process and refusals

ASSUME TrailAssumption == /\ MaxRecords \in Nat /\ PerFile \in Nat \ {0}
                          /\ Archives \in Nat \ {0} /\ MaxCrashes \in Nat

VARIABLES file,         \* file[0] is the journal, file[n] its archive .n
          records,      \* records made so far
          lost,         \* records whose append was refused or never reached
          doing,        \* the writer: "idle", "rotate", "unlink", "shift",
                        \* "first" or "append"
          number,       \* the archive to be shifted next
          entries,      \* the copy in memory: the records of this process
          troubles
trailVars == <<file, records, lost, doing, number, entries, troubles>>

LogFile == 0..Archives
NoFile == <<0>>
FileExists(n) == file[n] # NoFile

TrailInit ==
  /\ file = [n \in LogFile |-> NoFile] /\ records = 0 /\ lost = {} /\ entries = {}
  /\ doing = "idle" /\ number = 0 /\ troubles = 0

(* AuditLog.record, RequestTraceLog.record: memory first.                      *)
Record ==
  /\ doing = "idle" /\ records < MaxRecords
  /\ records' = records + 1 /\ entries' = entries \cup {records + 1}
  /\ doing' = "rotate" /\ UNCHANGED <<file, lost, number, troubles>>

(* rotate_if_needed: only when the line would cross the limit.                 *)
Crosses_Fault == FileExists(0) /\ Len(file[0]) + 1 >= PerFile
Crosses == FileExists(0) /\ Len(file[0]) + 1 > PerFile

Measure ==
  /\ doing = "rotate"
  /\ doing' = IF Crosses THEN "unlink" ELSE "append"
  /\ UNCHANGED <<file, records, lost, number, entries, troubles>>

(* The oldest archive is deleted,                                              *)
Unlink ==
  /\ doing = "unlink"
  /\ file' = [file EXCEPT ![Archives] = NoFile]
  /\ number' = Archives - 1 /\ doing' = "shift"
  /\ UNCHANGED <<records, lost, entries, troubles>>

(* the others move up by one, the highest first, holes skipped,                *)
Shift ==
  /\ doing = "shift"
  /\ IF number = 0 THEN doing' = "first" /\ UNCHANGED <<file, number>>
     ELSE /\ file' = IF FileExists(number)
                     THEN [file EXCEPT ![number + 1] = file[number], ![number] = NoFile]
                     ELSE file
          /\ number' = number - 1 /\ UNCHANGED doing
  /\ UNCHANGED <<records, lost, entries, troubles>>

(* and the journal becomes archive .1.                                         *)
First ==
  /\ doing = "first" /\ doing' = "append"
  /\ file' = [file EXCEPT ![1] = file[0], ![0] = NoFile]
  /\ UNCHANGED <<records, lost, number, entries, troubles>>

AppendLine ==
  /\ doing = "append" /\ doing' = "idle"
  /\ file' = [file EXCEPT ![0] = IF FileExists(0) THEN Append(@, records) ELSE <<records>>]
  /\ UNCHANGED <<records, lost, number, entries, troubles>>

(* OSError: a rotation is given up where it stands and the line is appended    *)
(* all the same; a refused append leaves the record in memory only.            *)
GiveUp == doing' = "append" /\ UNCHANGED number

RenameRefused ==
  /\ troubles < MaxCrashes /\ troubles' = troubles + 1
  /\ \/ doing \in {"unlink", "shift", "first"} /\ GiveUp /\ UNCHANGED lost
     \/ /\ doing = "append" /\ doing' = "idle"
        /\ lost' = lost \cup {records} /\ UNCHANGED number
  /\ UNCHANGED <<file, records, entries>>

(* The process dies and is started again.                                      *)
Crash ==
  /\ troubles < MaxCrashes /\ troubles' = troubles + 1
  /\ doing' = "idle" /\ number' = 0 /\ entries' = {}
  /\ lost' = IF doing = "idle" THEN lost ELSE lost \cup {records}
  /\ UNCHANGED <<file, records>>

TrailNext == Record \/ Measure \/ Unlink \/ Shift \/ First \/ AppendLine \/ RenameRefused \/ Crash
TrailSpec == TrailInit /\ [][TrailNext]_trailVars

-----------------------------------------------------------------------------
(* What a reader of all the files finds, the oldest archive first.             *)
Lines(n) == IF FileExists(n) THEN file[n] ELSE <<>>
Trail == LET upTo[n \in LogFile] == IF n = 0 THEN Lines(0) ELSE Lines(n) \o upTo[n - 1]
         IN upTo[Archives]
Made == IF doing = "idle" THEN records ELSE records - 1
Written == (1..Made) \ lost
OnDisk == {Trail[i] : i \in DOMAIN Trail}

TrailTypeOK ==
  /\ \A n \in LogFile : FileExists(n) => \A i \in DOMAIN file[n] : file[n][i] \in 1..records
  /\ records \in 0..MaxRecords /\ lost \subseteq 1..records /\ number \in 0..Archives
  /\ doing \in {"idle", "rotate", "unlink", "shift", "first", "append"}

(* Whatever dies or is refused in the middle of a rotation, the files read     *)
(* from the oldest archive to the journal are in the order of the records and  *)
(* only the oldest ones are missing: a rotation that stopped half-way is       *)
(* continued by the next without a hole in the trail.                          *)
TrailHasNoHole ==
  /\ \A i, j \in DOMAIN Trail : i < j => Trail[i] < Trail[j]
  /\ \A k \in Written, m \in OnDisk : m < k => k \in OnDisk

\* The trail is the newest records without a gap, in well formed files.
TrailIsWhole == TrailTypeOK /\ TrailHasNoHole

(* To a reader of all the files it is one journal that records are appended    *)
(* to.  What rotate_if_needed moves it never shows to him half moved, and a    *)
(* rotation, whole or broken off, however often, forgets from the oldest end   *)
(* and never the file it is about to move: PerFile records are always left.    *)
OneJournal == INSTANCE Journal WITH made <- Made, log <- Trail, Keep <- PerFile
TrailIsOneJournal == OneJournal!Spec /\ []TrailIsWhole
=============================================================================

---------------------------- MODULE BackupRestore ----------------------------
(* jarvis-yedek (maintenance/backup.py): a ZIP of the data directory with a    *)
(* manifest, made beside a running assistant, its verification, and its way    *)
(* back.  Files are taken and put back one after another; the process may be   *)
(* killed between two of them and the archive may rot on the disk.             *)
(*                                                                             *)
(* A content is the number of the state of the data it belongs to.             *)
EXTENDS Integers, FiniteSets

CONSTANTS Kept,         \* files that stay: databases, settings
          Passing,      \* files that come and go: journals, rotated logs
          MaxDataEdits, \* bound: states of the data
          MaxKills      \* bound: kills

ASSUME BackupAssumption == MaxDataEdits \in Nat /\ MaxKills \in Nat /\ Kept \cap Passing = {}

VARIABLES data,         \* the data directory
          dataEdits,
          archive,      \* the output: entries and manifest, or None
          job,          \* the command that runs and where it is
          todo,         \* the files it still has to handle
          staged,       \* its temporary directory
          kills,
          restored      \* the last restore that returned, or None
backupVars == <<data, dataEdits, archive, job, todo, staged, kills, restored>>

Name == Kept \cup Passing
Absent == -1
NoData == [f \in Name |-> Absent]
None == [files |-> NoData, manifest |-> NoData]
Damaged == -2
Files(d) == {f \in Name : d[f] # Absent}

BackupInit ==
  /\ data \in {[f \in Name |-> IF f \in there THEN 0 ELSE Absent] : there \in {Kept, Name}}
  /\ dataEdits = 0 /\ archive = None /\ job = "none" /\ todo = {} /\ staged = NoData
  /\ kills = 0 /\ restored = None

-----------------------------------------------------------------------------
(* The assistant runs on while a backup is made (docs: it is closed before a   *)
(* restore): a file changes, a passing one appears or goes.                    *)
EditData(f) ==
  /\ dataEdits < MaxDataEdits /\ job \in {"none", "copy", "zip"}
  /\ dataEdits' = dataEdits + 1
  /\ \/ data[f] # Absent /\ data' = [data EXCEPT ![f] = dataEdits + 1]
     \/ f \in Passing /\ data' = [data EXCEPT ![f] = IF data[f] = Absent THEN dataEdits + 1
                                                     ELSE Absent]
  /\ UNCHANGED <<archive, job, todo, staged, kills, restored>>

Rot(f) ==
  /\ dataEdits < MaxDataEdits /\ dataEdits' = dataEdits + 1
  /\ archive.files[f] # Absent /\ archive' = [archive EXCEPT !.files[f] = Damaged]
  /\ UNCHANGED <<data, job, todo, staged, kills, restored>>

(* create_backup: the list first,                                              *)
StartBackup ==
  /\ job = "none" /\ job' = "copy" /\ todo' = Files(data) /\ staged' = NoData
  /\ UNCHANGED <<data, dataEdits, archive, kills, restored>>

(* then a consistent copy of each; a listed file that is gone ends the command *)
(* with an error and leaves the output as it was.                              *)
Copy(f) ==
  /\ job = "copy" /\ f \in todo
  /\ IF data[f] = Absent THEN job' = "none" /\ todo' = {} /\ staged' = NoData
     ELSE /\ staged' = [staged EXCEPT ![f] = data[f]] /\ todo' = todo \ {f}
          /\ UNCHANGED job
  /\ UNCHANGED <<data, dataEdits, archive, kills, restored>>

(* The archive is written to output.tmp and renamed when it is complete.       *)
PartWritten_Fault == [archive EXCEPT !.manifest = staged]
PartWritten == archive

StartZip ==
  /\ job = "copy" /\ todo = {} /\ job' = "zip" /\ archive' = PartWritten
  /\ UNCHANGED <<data, dataEdits, todo, staged, kills, restored>>
Publish ==
  /\ job = "zip" /\ job' = "none" /\ staged' = NoData
  /\ archive' = [files |-> staged, manifest |-> staged]
  /\ UNCHANGED <<data, dataEdits, todo, kills, restored>>

(* verify_backup: the archive has a manifest, each of its files and no other,  *)
(* each with the length and the digest it names.                               *)
Verified(a) == a.files = a.manifest

(* restore_backup: verify, unpack everything beside the data (a rotten entry   *)
(* fails its checksum there), and only then replace file after file.           *)
StartRestore ==
  /\ job = "none" /\ archive # None
  /\ IF Verified(archive) THEN job' = "unpack" /\ todo' = Files(archive.manifest)
     ELSE UNCHANGED <<job, todo>>
  /\ staged' = NoData
  /\ UNCHANGED <<data, dataEdits, archive, kills, restored>>

Sound(f) == archive.files[f] # Damaged
Unpack(f) ==
  /\ job = "unpack" /\ f \in todo
  /\ IF Sound(f)
     THEN /\ staged' = [staged EXCEPT ![f] = archive.files[f]] /\ todo' = todo \ {f}
          /\ UNCHANGED job
     ELSE job' = "none" /\ todo' = {} /\ staged' = NoData
  /\ UNCHANGED <<data, dataEdits, archive, kills, restored>>

StartReplacing ==
  /\ job = "unpack" /\ todo = {} /\ job' = "replace" /\ todo' = Files(staged)
  /\ UNCHANGED <<data, dataEdits, archive, staged, kills, restored>>

Replaces_Fault(f) == data[f] <= staged[f]
Replaces(f) == TRUE
ReplaceFile(f) ==
  /\ job = "replace" /\ f \in todo /\ todo' = todo \ {f}
  /\ data' = IF Replaces(f) THEN [data EXCEPT ![f] = staged[f]] ELSE data
  /\ UNCHANGED <<dataEdits, archive, job, staged, kills, restored>>

Restored ==
  /\ job = "replace" /\ todo = {} /\ job' = "none" /\ staged' = NoData
  /\ restored' = [files |-> staged, manifest |-> data]
  /\ UNCHANGED <<data, dataEdits, archive, todo, kills>>

(* The command is killed; its temporary files are never looked at again.       *)
Kill ==
  /\ job # "none" /\ kills < MaxKills /\ kills' = kills + 1
  /\ job' = "none" /\ todo' = {} /\ staged' = NoData
  /\ UNCHANGED <<data, dataEdits, archive, restored>>

BackupNext ==
  \/ \E f \in Name : EditData(f) \/ Rot(f) \/ Copy(f) \/ Unpack(f) \/ ReplaceFile(f)
  \/ StartBackup \/ StartZip \/ Publish \/ StartRestore \/ StartReplacing \/ Restored
  \/ Kill
BackupSpec == BackupInit /\ [][BackupNext]_backupVars

-----------------------------------------------------------------------------
BackupTypeOK ==
  /\ data \in [Name -> Absent..MaxDataEdits] /\ todo \subseteq Name
  /\ {archive.files[f] : f \in Name} \subseteq Damaged..MaxDataEdits
  /\ job \in {"none", "copy", "zip", "unpack", "replace"}
  /\ staged \in [Name -> Absent..MaxDataEdits]

(* A backup that was once complete is never spoilt by a later one: killed,     *)
(* failed or still running, the output is a whole archive or none; only the    *)
(* disk can damage it.                                                         *)
ArchiveIsWhole ==
  Verified(archive) \/ \E f \in Name : archive.files[f] = Damaged

(* A restore that returned has put back every file of a verified archive, none *)
(* of them rotten, whatever an earlier restore that was killed left behind.    *)
RestoreIsComplete ==
  \A f \in Files(restored.files) :
    restored.manifest[f] = restored.files[f] /\ restored.files[f] # Damaged

\* A backup that is there is whole, and a restore that reported success
\* restored all of it.
BackupIsSound == BackupTypeOK /\ ArchiveIsWhole /\ RestoreIsComplete
=============================================================================

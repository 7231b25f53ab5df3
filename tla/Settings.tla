------------------------------ MODULE Settings ------------------------------
(***************************************************************************)
(* The settings: the .env file, the commands that write it, and what a     *)
(* start of the panel reads of it.                                         *)
(*                                                                         *)
(* A start takes a key's value from the environment, else from the first   *)
(* line of the file that has the key, else the default.  jarvis-ses writes *)
(* one key (_env_ayarla), rewriting the file in place; the owner edits it  *)
(* by hand, comments lines out and leaves old copies.  Read is what a      *)
(* start of the panel would get; a running one is not affected.            *)
(*                                                                         *)
(* An operator named X_Fault is X with a seeded fault.  The specification  *)
(* never uses it: it shows that the properties notice the fault.           *)
(***************************************************************************)
EXTENDS Integers, Sequences, Lists

CONSTANTS
    Keys,        (* the keys that are written and read                   *)
    Values,      (* their values                                         *)
    MaxEnvLines  (* lines of the file, a bound                           *)

VARIABLES
    environment, (* os.environ before a start: a value or Unset          *)
    envLines,    (* the file's lines: [key, value, comment]              *)
    writtenValue,(* the value a command told it has written, until the   *)
                 (* owner touches the key or a command for it is broken  *)
                 (* off, or Unset (history)                              *)
    atRisk       (* the keys whose lines a rewrite that was broken off   *)
                 (* may have lost, until they are written again          *)
                 (* (history)                                            *)

settingVars == <<environment, envLines, writtenValue, atRisk>>

Unset == "unset"
Default == "default"
Torn == "torn"
LineOf(k, v) == [key |-> k, value |-> v, comment |-> FALSE]

ASSUME SettingsAssumption ==
    Values # {} /\ Values \cap {Default, Torn, Unset} = {} /\ MaxEnvLines \in Nat

\* The places of the lines that set a key, and the first of them.
PlacesOf(k, file) == {i \in DOMAIN file : file[i].key = k /\ ~file[i].comment}
FirstPlace(k, file) == CHOOSE i \in PlacesOf(k, file) : \A j \in PlacesOf(k, file) : i <= j

\* _load_dotenv: setdefault, line by line, so the first line of a key counts
\* and the environment counts before the file.
FileValue(k, file) ==
    IF PlacesOf(k, file) = {} THEN Default ELSE file[FirstPlace(k, file)].value
Read(k) == IF environment[k] # Unset THEN environment[k] ELSE FileValue(k, envLines)

\* _env_ayarla: the first line of the key is replaced, its further copies are
\* dropped, comments stay; a key that is not there gets a line at the end.
Rewritten_Fault(k, v) == Append(envLines, LineOf(k, v))
Rewritten(k, v) ==
    LET at == FirstPlace(k, envLines)
        rest == SubSeq(envLines, at + 1, Len(envLines))
    IN  IF PlacesOf(k, envLines) = {} THEN Append(envLines, LineOf(k, v))
        ELSE SubSeq(envLines, 1, at - 1) \o <<LineOf(k, v)>>
                \o KeepOnly(rest, {l \in InSeq(rest) : l.key # k \/ l.comment})

SettingsInit ==
    /\ environment \in [Keys -> {Unset} \cup {CHOOSE v \in Values : TRUE}]
    /\ envLines = <<>>
    /\ writtenValue = [k \in Keys |-> Unset]
    /\ atRisk = {}

\* A setup command writes a key and says so.  In another folder than the
\* panel's it writes a file nobody reads; it warns of that only when the
\* folder had neither a .env nor a pyproject.toml.
WriteKey(k, v, inRoot) ==
    /\ inRoot => Len(Rewritten(k, v)) <= MaxEnvLines
    /\ IF inRoot
       THEN /\ envLines' = Rewritten(k, v)
            /\ writtenValue' = [writtenValue EXCEPT ![k] = v]
            /\ atRisk' = atRisk \ {k}
       ELSE UNCHANGED <<envLines, writtenValue, atRisk>>
    /\ UNCHANGED environment

\* The file is truncated before it is written: killed, or with a full disk,
\* a command leaves only some first lines, of which the last may be torn.
\* The other keys' commands have said that theirs are written all the same.
TornLine(l) == [l EXCEPT !.value = Torn]
BrokenOff(k, v, n, torn) ==
    LET whole == Rewritten(k, v) IN
    /\ Len(whole) <= MaxEnvLines
    /\ n < Len(whole)
    /\ envLines' = IF torn THEN Append(SubSeq(whole, 1, n), TornLine(whole[n + 1]))
                   ELSE SubSeq(whole, 1, n)
    /\ writtenValue' = [writtenValue EXCEPT ![k] = Unset]
    /\ atRisk' = Keys
    /\ UNCHANGED environment

\* The owner adds a line, comments one out or in, or gives it another value.
OwnerEdits(i, k, v, comment) ==
    /\ i \in 1 .. Len(envLines) + 1
    /\ i <= MaxEnvLines
    /\ LET line == [key |-> k, value |-> v, comment |-> comment] IN
       envLines' = IF i > Len(envLines) THEN Append(envLines, line) ELSE [envLines EXCEPT ![i] = line]
    /\ writtenValue' = [c \in Keys |->
                    IF c = k \/ (i <= Len(envLines) /\ envLines[i].key = c) THEN Unset ELSE writtenValue[c]]
    /\ UNCHANGED <<environment, atRisk>>

SettingsNext ==
    \/ \E k \in Keys, v \in Values, inRoot \in BOOLEAN : WriteKey(k, v, inRoot)
    \/ \E k \in Keys, v \in Values, n \in 0 .. MaxEnvLines, torn \in BOOLEAN :
        BrokenOff(k, v, n, torn)
    \/ \E i \in 1 .. MaxEnvLines, k \in Keys, v \in Values, comment \in BOOLEAN :
        OwnerEdits(i, k, v, comment)

SettingsSpec == SettingsInit /\ [][SettingsNext]_settingVars

-----------------------------------------------------------------------------
(* Which voice the settings choose: build_tts, and what jarvis-ses checks. *)

Xtts == {"xtts", "craig", "yerel-xtts"}
Edge == {"edge", "microsoft", "edge-tts"}
Off == {"yok", "kapali", "none", "off"}
KnownNames == Xtts \cup Edge \cup Off \cup {"", "piper", "elevenlabs", "11labs"}

\* What is there to speak with: keys for ElevenLabs, and installed packages.
Means == [keyed : BOOLEAN, xtts : BOOLEAN, edge : BOOLEAN, piper : BOOLEAN]
BuildTts(name, m) ==
    LET speaker(ready, which) == IF ready THEN which ELSE "silent"
        keyless == name = "" /\ ~m.keyed
    IN  CASE name \in Off -> "silent"
          [] name \in Xtts -> speaker(m.xtts, "xtts")
          [] name \in Edge \/ (keyless /\ m.edge) -> speaker(m.edge, "edge")
          [] name = "piper" \/ (keyless /\ ~m.edge) -> speaker(m.piper, "piper")
          [] name \in {"elevenlabs", "11labs", ""} /\ ~keyless -> speaker(m.keyed, "elevenlabs")
          [] OTHER -> "silent"

\* _aktif_saglayici and the branches of _cmd_check.  A name it does not know
\* is reported as unknown and nothing is examined.
Checked(name, m) ==
    LET active == IF name # "" THEN name
                  ELSE IF m.keyed THEN "elevenlabs" ELSE IF m.edge THEN "edge" ELSE "piper"
    IN  CASE active \in Xtts -> "xtts"
          [] active = "piper" -> "piper"
          [] active \in Edge -> "edge"
          [] active \in {"elevenlabs", "11labs"} -> "elevenlabs"
          [] OTHER -> "silent"

\* "If the two ever disagree this command reports on a provider that is not
\* the one speaking": for every name the code knows and whatever is
\* installed, the voice that speaks is the one the check examines.
CheckExaminesTheSpeaker ==
    \A name \in KnownNames, m \in Means :
        BuildTts(name, m) \in {Checked(name, m), "silent"}
\* A name it does not know is silent, and nothing is examined for it.
UnknownNameIsSilent ==
    \A m \in Means : BuildTts("unknown", m) = "silent" /\ Checked("unknown", m) = "silent"

-----------------------------------------------------------------------------
(* Reading a number: _float and the clamps of Config.                      *)

NotSaid == -1000
NotANumber == -1001
Number(raw, default) == IF raw \in {NotSaid, NotANumber} THEN default ELSE raw
AtLeast(low, n) == IF n < low THEN low ELSE n

\* The lowest value of the settings that have one, and their defaults.
Lowest == [monitor_interval |-> 4, monitor_health_interval |-> 15, monitor_cooldown |-> 30,
           monitor_recovery_samples |-> 1, duyuru_ara |-> 0, ollama_max_retries |-> 0,
           ollama_circuit_cooldown |-> 1, ollama_num_predict |-> 32,
           elevenlabs_max_retries |-> 0, xtts_cache_size |-> 0, rag_sync_interval |-> 10,
           reminder_interval |-> 5, log_max_bytes |-> 0, log_backup_count |-> 0]
Defaults == [monitor_interval |-> 15, monitor_health_interval |-> 60, monitor_cooldown |-> 300,
             monitor_recovery_samples |-> 2, duyuru_ara |-> 120, ollama_max_retries |-> 1,
             ollama_circuit_cooldown |-> 30, ollama_num_predict |-> 512,
             elevenlabs_max_retries |-> 2, xtts_cache_size |-> 32, rag_sync_interval |-> 60,
             reminder_interval |-> 30, log_max_bytes |-> 10485760, log_backup_count |-> 5]
Setting(name, raw) == AtLeast(Lowest[name], Number(raw, Defaults[name]))

\* The hours are taken modulo 24, a negative number too.
Hour(raw, default) == Number(raw, default) % 24

\* No typo leaves a loop without a wait, a breaker without a cooldown, or the
\* quiet hours outside the day.
TyposAreHarmless ==
    /\ \A name \in DOMAIN Lowest, raw \in {NotSaid, NotANumber, -5, 0, 3, 100000} :
        Setting(name, raw) >= Lowest[name]
    /\ \A name \in {"monitor_interval", "rag_sync_interval", "reminder_interval",
                    "ollama_circuit_cooldown"} : Lowest[name] > 0
    /\ \A raw \in {NotSaid, NotANumber, -1, 0, 24, 25} : Hour(raw, 23) \in 0 .. 23

-----------------------------------------------------------------------------
(* Properties.                                                             *)

\* Every variable keeps its type.
SettingsTypeOK ==
    /\ environment \in [Keys -> Values \cup {Unset}]
    /\ \A i \in DOMAIN envLines : envLines[i] \in [key : Keys, value : Values \cup {Torn}, comment : BOOLEAN]
    /\ Len(envLines) <= MaxEnvLines
    /\ writtenValue \in [Keys -> Values \cup {Unset}]
    /\ atRisk \subseteq Keys

\* "A second line with the same key would make the effective value depend on
\* read order, which is exactly the kind of thing nobody finds when the
\* setting does not work": whatever the file held, the value that a command in
\* the panel's folder says it has written is what the next start reads, unless
\* the environment has one, and the commands for other keys do not change
\* that.  One that is broken off may lose or tear it, since the file is
\* rewritten in place, but nothing brings an older value back.
WrittenIsRead ==
    \A k \in Keys :
        writtenValue[k] # Unset /\ environment[k] = Unset =>
            \/ Read(k) = writtenValue[k]
            \/ k \in atRisk /\ Read(k) \in {Default, Torn}

\* The file keeps its form, and what was written is what is read.
SettingsAreRead == SettingsTypeOK /\ WrittenIsRead
=============================================================================

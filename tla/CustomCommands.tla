--------------------------- MODULE CustomCommands ---------------------------
(***************************************************************************)
(* The phrases the owner taught the panel: CustomCommandStore.             *)
(*                                                                         *)
(* The commands live in memory and in one JSON file, rewritten whole       *)
(* through a temporary file at every change and read when the panel        *)
(* starts.  A save may fail, or the process may be killed, at any point.   *)
(* The owner may edit the file by hand; a row that cannot be read ends the *)
(* reading.  The file is a sequence of rows, as it was written.            *)
(*                                                                         *)
(* An operator named X_Fault is X with a seeded fault.  The specification  *)
(* never uses it: it shows that the properties notice the fault.           *)
(***************************************************************************)
EXTENDS Integers, Sequences, FiniteSets

CONSTANTS
    Phrases,     (* phrases, as they compare: folded and trimmed         *)
    Meanings,    (* what a phrase may stand for                          *)
    MaxHandEdits (* edits of the file by hand, a bound                   *)

VARIABLES
    alive,       (* whether the panel runs                               *)
    saving,      (* "no", or how far a save came: "begun", "written"     *)
    items,       (* _items: the meaning of each phrase, or Untaught      *)
    commandFile, (* the file's rows: <<phrase, meaning>>, or Unreadable  *)
    temporary,   (* the temporary file's rows                            *)
    change,      (* the phrase being taught or deleted                   *)
    promised,    (* what the owner was told is saved (history)           *)
    unsettled,   (* phrases whose last change ended in an error (history)*)
    handEdits    (* edits by hand so far                                 *)

commandVars == <<alive, saving, items, commandFile, temporary, change, promised, unsettled, handEdits>>

Untaught == "untaught"
Unreadable == <<"bad", "row">>
Rows == Phrases \X Meanings
NoCommands == [p \in Phrases |-> Untaught]

ASSUME CommandAssumption ==
    /\ IsFiniteSet(Phrases) /\ MaxHandEdits \in Nat
    /\ Untaught \notin Meanings /\ Unreadable \notin Rows

\* all: the commands sorted by phrase.  The order among phrases is fixed.
RowsOf(m) ==
    LET taught == {p \in Phrases : m[p] # Untaught}
    IN  CHOOSE s \in [1 .. Cardinality(taught) -> Rows] :
            {s[i][1] : i \in DOMAIN s} = taught /\ \A i \in DOMAIN s : s[i][2] = m[s[i][1]]

\* _load: the rows before the first bad one; a later row of a phrase wins.
CommandsIn(rows) ==
    LET good == {i \in DOMAIN rows : \A j \in 1 .. i : rows[j] # Unreadable}
        of(p) == {i \in good : rows[i][1] = p}
    IN  [p \in Phrases |->
            IF of(p) = {} THEN Untaught
            ELSE rows[CHOOSE i \in of(p) : \A j \in of(p) : j <= i][2]]

CommandInit ==
    /\ alive = TRUE
    /\ saving = "no"
    /\ items = NoCommands
    /\ commandFile = <<>>
    /\ temporary = <<>>
    /\ change \in Phrases
    /\ promised = NoCommands
    /\ unsettled = {}
    /\ handEdits = 0

\* teach and delete change the memory first, then save, under the lock.
\* Deleting what is not there saves nothing.
Alter(p, m) ==
    /\ alive
    /\ saving = "no"
    /\ m = Untaught => items[p] # Untaught
    /\ items' = [items EXCEPT ![p] = m]
    /\ change' = p
    /\ saving' = "begun"
    /\ UNCHANGED <<alive, commandFile, temporary, promised, unsettled, handEdits>>

\* The temporary file is written; a crash or an error leaves part of it.
WholeRows_Fault == IF items[change] = Untaught THEN <<>> ELSE << <<change, items[change]>> >>
WholeRows == RowsOf(items)
WriteTemporary ==
    /\ saving = "begun"
    /\ temporary' = WholeRows
    /\ saving' = "written"
    /\ UNCHANGED <<alive, items, commandFile, change, promised, unsettled, handEdits>>

\* The file is replaced at once, and the caller is told.
ReplaceCommandFile ==
    /\ saving = "written"
    /\ commandFile' = temporary
    /\ saving' = "no"
    /\ promised' = [promised EXCEPT ![change] = items[change]]
    /\ unsettled' = unsettled \ {change}
    /\ UNCHANGED <<alive, items, temporary, change, handEdits>>

\* The disk is full or the file is locked: the caller gets an error, and the
\* change stays in memory.
SaveFails ==
    /\ saving # "no"
    /\ saving' = "no"
    /\ unsettled' = unsettled \cup {change}
    /\ UNCHANGED <<alive, items, commandFile, temporary, change, promised, handEdits>>

Killed ==
    /\ alive
    /\ alive' = FALSE
    /\ saving' = "no"
    /\ items' = NoCommands
    /\ unsettled' = IF saving = "no" THEN unsettled ELSE unsettled \cup {change}
    /\ UNCHANGED <<commandFile, temporary, change, promised, handEdits>>

Starts ==
    /\ ~alive
    /\ alive' = TRUE
    /\ items' = CommandsIn(commandFile)
    /\ UNCHANGED <<saving, commandFile, temporary, change, promised, unsettled, handEdits>>

\* The owner's edit of the file while the panel is down: a row taken out or
\* made unreadable.  What the file no longer says is no longer promised.
EditByHand(i, bad) ==
    /\ ~alive
    /\ handEdits < MaxHandEdits
    /\ i \in DOMAIN commandFile
    /\ handEdits' = handEdits + 1
    /\ commandFile' = IF bad THEN [commandFile EXCEPT ![i] = Unreadable]
               ELSE SubSeq(commandFile, 1, i - 1) \o SubSeq(commandFile, i + 1, Len(commandFile))
    /\ promised' = CommandsIn(commandFile')
    /\ unsettled' = {}
    /\ UNCHANGED <<alive, saving, items, temporary, change>>

CommandNext ==
    \/ \E p \in Phrases, m \in Meanings \cup {Untaught} : Alter(p, m)
    \/ WriteTemporary \/ ReplaceCommandFile \/ SaveFails \/ Killed \/ Starts
    \/ \E i \in 1 .. Cardinality(Phrases), bad \in BOOLEAN : EditByHand(i, bad)

CommandSpec == CommandInit /\ [][CommandNext]_commandVars

-----------------------------------------------------------------------------
(* Properties.                                                             *)

\* Every variable keeps its type.
CommandTypeOK ==
    /\ alive \in BOOLEAN
    /\ saving \in {"no", "begun", "written"}
    /\ {items, promised} \subseteq [Phrases -> Meanings \cup {Untaught}]
    /\ \A f \in {commandFile, temporary} : \A i \in DOMAIN f : f[i] \in Rows \cup {Unreadable}
    /\ change \in Phrases
    /\ unsettled \subseteq Phrases
    /\ handEdits \in 0 .. MaxHandEdits

\* "Persistent": every command the owner was told is saved, and no command
\* the owner was told is gone, is what the next start reads, whatever was
\* killed or failed since.  A change that ended in an error is left out: it
\* stays in memory and the next save of another phrase keeps it.
PromisedCommandsSurvive ==
    \A p \in Phrases \ unsettled : CommandsIn(commandFile)[p] = promised[p]

\* The file keeps what the owner was promised, and its rows keep their form.
CommandsSurvive == CommandTypeOK /\ PromisedCommandsSurvive
=============================================================================

---------------------------- MODULE Applications ----------------------------
(***************************************************************************)
(* Opening things: a spoken name is looked up in the catalogue, and what   *)
(* it names is started by the first of the system's openers that reports   *)
(* success.  tarayicida_ac opens addresses the same way.                   *)
(*                                                                         *)
(* The catalogue is the built-in list followed by the owner's own file,    *)
(* read again at every request; a file that cannot be read adds nothing.   *)
(* Names are sequences of letters, already folded (katla).  An opener is   *)
(* external: it is missing, opens the thing, ends without having opened it, *)
(* or fails: it cannot be started or is cut off by its time-out, though it *)
(* may have opened the thing by then.  The code sees only the last of them: *)
(* the exit code of a program is not looked at.                            *)
(*                                                                         *)
(* An operator named X_Fault is X with a seeded fault.  The specification  *)
(* never uses it: it shows that the properties notice the fault.           *)
(***************************************************************************)
EXTENDS Integers, Sequences

CONSTANTS
    BuiltIn,     (* VARSAYILAN: a sequence of entries                       *)
    OwnerFiles,  (* what the owner's file may hold: sequences of entries    *)
    Requests,    (* the names that are asked for, as sequences of letters   *)
    ShortName    (* _EN_KISA_PARCA, 3 in the code                           *)

\* An entry has a title, a kind and all its names, title and aliases, letters
\* being numbers here.  No entry of either list has an empty name.
Entries == [title : STRING, kind : {"web", "windows", "uri"},
            names : SUBSET (Seq(Nat) \ {<<>>})]
ASSUME AppAssumption ==
    /\ BuiltIn \in Seq(Entries) /\ OwnerFiles \subseteq Seq(Entries)
    /\ Requests \subseteq Seq(Nat)

VARIABLES
    system,      (* "windows", "wsl" or "linux"                             *)
    installed,   (* the openers that can be found                           *)
    ownFile,     (* the entries of the owner's file                         *)
    spoken,      (* the name of the request in progress                     *)
    entry,       (* what it was resolved to                                 *)
    untried,     (* the openers still to be tried, in order                 *)
    fileThen,    (* the owner's file when the name was asked for (history)  *)
    opened,      (* whether the thing is known to have opened (history)     *)
    by,          (* the opener that reported success (history)              *)
    passed,      (* the openers tried in vain for it (history)              *)
    reply        (* "none", "opened", "unknown_name", "not_opened"          *)

appVars == <<system, installed, ownFile, spoken, entry, untried, fileThen,
             opened, by, passed, reply>>

NoEntry == [title |-> "none", kind |-> "web", names |-> {}]

-----------------------------------------------------------------------------
(* bul.                                                                    *)

Catalogue(file) == BuiltIn \o file

Starts(part, whole) ==
    Len(part) <= Len(whole) /\ SubSeq(whole, 1, Len(part)) = part
Within(part, whole) ==
    \E i \in 0 .. Len(whole) - Len(part) : SubSeq(whole, i + 1, i + Len(part)) = part

\* The three passes.  A short name is only found by all its letters.
Matches(pass, name, word) ==
    LET long == Len(name) >= ShortName /\ Len(word) >= ShortName IN
    CASE pass = "exact" -> name = word
      [] pass = "start" -> long /\ (Starts(word, name) \/ Starts(name, word))
      [] pass = "part" -> long /\ (Within(word, name) \/ Within(name, word))

\* In one pass the last entry wins: the owner's before the built-in ones.
Wins_Fault(i, hits) == \A j \in hits : i <= j
Wins(i, hits) == \A j \in hits : j <= i
Bul(word, file) ==
    LET list == Catalogue(file)
        hits(pass) == {i \in DOMAIN list : \E n \in list[i].names : Matches(pass, n, word)}
        found(pass) == list[CHOOSE i \in hits(pass) : Wins(i, hits(pass))]
    IN  IF word = <<>> THEN NoEntry
        ELSE IF hits("exact") # {} THEN found("exact")
        ELSE IF hits("start") # {} THEN found("start")
        ELSE IF hits("part") # {} THEN found("part")
        ELSE NoEntry

-----------------------------------------------------------------------------
(* uygulamayi_ac and tarayicida_ac: which openers, in which order.         *)

Openers == {"startfile", "wslview", "explorer", "cmd", "direct", "xdg_open"}

\* The system's own way first: under WSL xdg-open reports success though
\* there is no desktop to open anything on.
WebOrder_Fault(sys) ==
    CASE sys = "windows" -> <<"startfile", "xdg_open">>
      [] OTHER -> <<"xdg_open", "wslview", "explorer">>
WebOrder(sys) ==
    CASE sys = "windows" -> <<"startfile", "xdg_open">>
      [] sys = "wsl" -> <<"wslview", "explorer", "xdg_open">>
      [] sys = "linux" -> <<"xdg_open", "wslview", "explorer">>
Order(sys, kind) ==
    IF kind = "web" THEN WebOrder(sys)
    ELSE CASE sys = "linux" -> <<>>
           [] sys = "windows" -> <<"startfile">>
           [] sys = "wsl" -> IF kind = "windows" THEN <<"direct", "cmd">>
                                                 ELSE <<"explorer", "cmd">>

\* What can be found on a system.  xdg-open may be installed on any of them.
Installable(sys) ==
    CASE sys = "windows" -> {"startfile", "xdg_open"}
      [] sys = "wsl" -> Openers \ {"startfile"}
      [] sys = "linux" -> {"xdg_open"}

\* Only the shell's own call raises when nothing opens; of a program that was
\* run the code learns that it ended.
Sound(opener) == opener = "startfile"

-----------------------------------------------------------------------------
AppInit ==
    /\ system \in {"windows", "wsl", "linux"}
    /\ installed \in SUBSET Installable(system)
    /\ ownFile \in OwnerFiles
    /\ spoken = <<>>
    /\ entry = NoEntry
    /\ untried = <<>>
    /\ fileThen = ownFile
    /\ opened = FALSE
    /\ by = "none"
    /\ passed = {}
    /\ reply = "none"

\* The owner edits the file, also between two requests for the same name.
EditFile(file) ==
    /\ ownFile' = file
    /\ UNCHANGED <<system, installed, spoken, entry, untried, fileThen, opened,
                   by, passed, reply>>

\* uygulama_ac: an unknown name gets suggestions, never a guess.
AskFor(word) ==
    /\ untried = <<>>
    /\ spoken' = word
    /\ entry' = Bul(word, ownFile)
    /\ untried' = IF entry' = NoEntry THEN <<>> ELSE Order(system, entry'.kind)
    /\ fileThen' = ownFile
    /\ opened' = FALSE
    /\ by' = "none"
    /\ passed' = {}
    /\ reply' = IF entry' = NoEntry THEN "unknown_name"
                ELSE IF untried' = <<>> THEN "not_opened" ELSE "none"
    /\ UNCHANGED <<system, installed, ownFile>>

\* The next opener is tried; the first that does not fail ends the search.
Results == {"opens", "ends", "fails"}
Try(result) ==
    /\ untried # <<>>
    /\ LET opener == Head(untried)
           works == opener \in installed /\ result # "fails"
       IN  /\ result = "ends" => ~Sound(opener)
           /\ untried' = IF works THEN <<>> ELSE Tail(untried)
           /\ opened' = (works /\ result = "opens")
           /\ by' = IF works THEN opener ELSE "none"
           /\ passed' = IF works THEN passed ELSE passed \cup {opener}
           /\ reply' = IF works THEN "opened"
                       ELSE IF Tail(untried) = <<>> THEN "not_opened" ELSE "none"
    /\ UNCHANGED <<system, installed, ownFile, spoken, entry, fileThen>>

AppNext ==
    \/ \E file \in OwnerFiles : EditFile(file)
    \/ \E word \in Requests : AskFor(word)
    \/ \E result \in Results : Try(result)

AppSpec == AppInit /\ [][AppNext]_appVars

-----------------------------------------------------------------------------
(* Properties.                                                             *)

\* Every variable keeps its type.
AppTypeOK ==
    /\ system \in {"windows", "wsl", "linux"}
    /\ installed \subseteq Openers
    /\ ownFile \in OwnerFiles
    /\ spoken \in Requests \cup {<<>>}
    /\ entry = NoEntry \/ \E f \in OwnerFiles : \E i \in DOMAIN Catalogue(f) : entry = Catalogue(f)[i]
    /\ \A i \in DOMAIN untried : untried[i] \in Openers
    /\ fileThen \in OwnerFiles
    /\ opened \in BOOLEAN
    /\ by \in Openers \cup {"none"}
    /\ passed \subseteq Openers
    /\ reply \in {"none", "opened", "unknown_name", "not_opened"}

\* "User entries come last so a name they define wins over a built-in with
\* the same name": a name the owner's file had when it was asked for is never
\* answered with a built-in entry, however the two overlap.
OwnersNameWins ==
    LET owners == {i \in DOMAIN fileThen : spoken \in fileThen[i].names}
    IN  owners # {} => \E i \in owners : entry = fileThen[i]

\* The openers a system and a kind of thing have that are better than this
\* one: xdg-open ends well where there is no desktop, cmd's start always.
Better(opener) ==
    CASE opener = "xdg_open" /\ system # "linux" -> {"startfile", "wslview", "explorer"}
      [] opener = "cmd" -> {IF entry.kind = "windows" THEN "direct" ELSE "explorer"}
      [] OTHER -> {}

\* The order of the openers is what makes the answer as true as it can be.  A
\* thing is said to be open though nothing was opened only on the word of a
\* program that was run, never of Windows itself, and on the word of the two
\* that always report success only when each better one that could be found
\* was tried first, in vain.
OpenedIsReal ==
    reply = "opened" /\ ~opened
        => ~Sound(by) /\ installed \cap Better(by) \subseteq passed

\* What was opened is what the owner named, and was opened.
OpeningIsTrue == AppTypeOK /\ OwnersNameWins /\ OpenedIsReal
=============================================================================

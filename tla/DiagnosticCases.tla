-------------------------- MODULE DiagnosticCases --------------------------
(***************************************************************************)
(* Service cases and the guided diagnosis that runs on them.               *)
(*                                                                         *)
(* DiagnosticEngine.start binds a session to a case; answer reads the      *)
(* session, checks it, writes a note, moves the session on and, at a       *)
(* conclusion, writes a second note.  Each of these is a statement of its  *)
(* own on the shared database, committed at once.  Panels call the engine  *)
(* from request threads, without the agent's lock, and a turn calls it     *)
(* through the tools: the steps of two callers interleave, and a write may *)
(* fail (the file is locked, the program is killed) between any two.       *)
(*                                                                         *)
(* Cases themselves are opened, closed and reopened by one statement each. *)
(* answers is a history variable.                                          *)
(***************************************************************************)
EXTENDS Integers, FiniteSets

CONSTANTS
    CaseId,      (* case numbers                                            *)
    Session,     (* session numbers                                         *)
    Technician,  (* callers of the engine: panels and the turn              *)
    Playbook,    (* the playbooks in use, of the three below                *)
    NoCase,      (* the case of a session that was not started              *)
    MaxAnswers   (* bound: answers given                                    *)

ASSUME NoCaseAssumption ==
    NoCase \notin CaseId /\ MaxAnswers \in Nat
    /\ Playbook \subseteq {"guc-yok", "goruntu-yok", "asiri-isinma"}

-----------------------------------------------------------------------------
(* The playbooks: a node without a branch is a conclusion.                 *)

Books == {"guc-yok", "goruntu-yok", "asiri-isinma"}
FirstNode ==
    [p \in Books |-> CASE p = "guc-yok" -> "enerji"
                       [] p = "goruntu-yok" -> "monitor"
                       [] p = "asiri-isinma" -> "olcum"]

Branch ==
    [ enerji  |-> [evet |-> "tepki", hayir |-> "enerji_sonuc"],
      tepki   |-> [var |-> "minimal", yok |-> "anakart"],
      minimal |-> [evet |-> "post_sonuc", hayir |-> "cevre_sonuc"],
      anakart |-> [normal |-> "anakart_sonuc", anormal |-> "guc_hatti_sonuc"],
      monitor |-> [evet |-> "post", hayir |-> "monitor_sonuc"],
      post    |-> [ram |-> "ram", gpu |-> "gpu", yok |-> "cmos"],
      ram     |-> [evet |-> "ram_sonuc", hayir |-> "cmos"],
      gpu     |-> [evet |-> "gpu_sonuc", hayir |-> "cmos"],
      cmos    |-> [acildi |-> "bios_sonuc", acilmadi |-> "kart_sonuc"],
      olcum   |-> [yuksek |-> "hava", normal |-> "guc_sonuc"],
      hava    |-> [hayir |-> "temizlik_sonuc", evet |-> "temas"],
      temas   |-> [hayir |-> "temas_sonuc", evet |-> "yuk_sonuc"] ]

Asked == DOMAIN Branch
Conclusions ==
    {"enerji_sonuc", "post_sonuc", "cevre_sonuc", "anakart_sonuc", "guc_hatti_sonuc",
     "monitor_sonuc", "ram_sonuc", "gpu_sonuc", "bios_sonuc", "kart_sonuc",
     "temizlik_sonuc", "temas_sonuc", "yuk_sonuc", "guc_sonuc"}
Node == Asked \cup Conclusions
Next1(n) == {Branch[n][o] : o \in DOMAIN Branch[n]}

VARIABLES
    caseRow,   (* the status of each case; kapali comes with a resolution   *)
    session,   (* the row of each session                                   *)
    notes,     (* the diagnostic notes in the case log                      *)
    caller,    (* where each technician's call is, and what it read         *)
    answers    (* answers begun                                             *)

diagVars == <<caseRow, session, notes, caller, answers>>

NoSession == [case |-> NoCase, node |-> "enerji", status |-> "yok"]
Idle == [at |-> "idle"]
Started(s) == session[s] # NoSession

DiagInit ==
    /\ caseRow = [c \in CaseId |-> "yok"]
    /\ session = [s \in Session |-> NoSession]
    /\ notes = {}
    /\ caller = [t \in Technician |-> Idle]
    /\ answers = 0

-----------------------------------------------------------------------------
(* CaseStore.                                                              *)

Exists(c) == caseRow[c] # "yok"
SetCase(c, status) ==
    /\ caseRow' = [caseRow EXCEPT ![c] = status]
    /\ UNCHANGED <<session, notes, caller, answers>>

open_case(c) == ~Exists(c) /\ SetCase(c, "acik")
close_case(c) == Exists(c) /\ caseRow[c] # "kapali" /\ SetCase(c, "kapali")
set_status(c, status) == Exists(c) /\ SetCase(c, status)

Note(s, from, to, kind) ==
    [case |-> session[s].case, session |-> s, from |-> from, to |-> to, kind |-> kind]
Moved_Fault(s, n) ==
    session' = [session EXCEPT ![s].node = n, ![s].status = "aktif"]
Moved(s, n) ==
    session' = [session EXCEPT ![s].node = n,
                               ![s].status = IF n \in Conclusions THEN "tamamlandi" ELSE "aktif"]

-----------------------------------------------------------------------------
(* DiagnosticEngine, one action per statement on the database.             *)

start(t, s, c, p) ==
    /\ caller[t] = Idle /\ ~Started(s)
    /\ \A r \in Session : r < s => Started(r)
    /\ Exists(c)
    /\ session' = [session EXCEPT ![s] =
           [case |-> c, node |-> FirstNode[p], status |-> "aktif"]]
    /\ caller' = [caller EXCEPT ![t] = [at |-> "started", session |-> s]]
    /\ UNCHANGED <<caseRow, notes, answers>>

start_note(t) ==
    /\ caller[t].at = "started"
    /\ LET s == caller[t].session IN
       notes' = notes \cup {Note(s, session[s].node, session[s].node, "deneme")}
    /\ caller' = [caller EXCEPT ![t] = Idle]
    /\ UNCHANGED <<caseRow, session, answers>>

\* The session is read and checked once; what follows uses what was read.
Answerable(s) == Started(s) /\ session[s].status = "aktif"
answer(t, s, n) ==
    /\ caller[t] = Idle
    /\ answers < MaxAnswers /\ answers' = answers + 1
    /\ Answerable(s)
    /\ session[s].node \in Asked /\ n \in Next1(session[s].node)
    /\ caller' = [caller EXCEPT ![t] =
           [at |-> "note", session |-> s, from |-> session[s].node, to |-> n]]
    /\ UNCHANGED <<caseRow, session, notes>>

\* The note comes before the move.
AnswerNote_Fault(k) ==
    IF k.to \in Conclusions THEN {Note(k.session, k.from, k.to, "deneme")} ELSE {}
AnswerNote(k) == {Note(k.session, k.from, k.to, "deneme")}
answer_note(t) ==
    /\ caller[t].at = "note"
    /\ notes' = notes \cup AnswerNote(caller[t])
    /\ caller' = [caller EXCEPT ![t].at = "move"]
    /\ UNCHANGED <<caseRow, session, answers>>

answer_move(t) ==
    /\ caller[t].at = "move"
    /\ Moved(caller[t].session, caller[t].to)
    /\ caller' = [caller EXCEPT ![t] =
           IF @.to \in Conclusions THEN [@ EXCEPT !.at = "conclude"] ELSE Idle]
    /\ UNCHANGED <<caseRow, notes, answers>>

answer_conclude(t) ==
    /\ caller[t].at = "conclude"
    /\ notes' = notes \cup {Note(caller[t].session, caller[t].to, caller[t].to, "sonuc")}
    /\ caller' = [caller EXCEPT ![t] = Idle]
    /\ UNCHANGED <<caseRow, session, answers>>

\* A statement fails, or the program ends: what was committed stays.
Broken(t) ==
    /\ caller[t] # Idle
    /\ caller' = [caller EXCEPT ![t] = Idle]
    /\ UNCHANGED <<caseRow, session, notes, answers>>

DiagNext ==
    \/ \E c \in CaseId : open_case(c) \/ close_case(c)
    \/ \E c \in CaseId, status \in {"acik", "bekliyor"} : set_status(c, status)
    \/ \E t \in Technician, s \in Session, c \in CaseId, p \in Playbook : start(t, s, c, p)
    \/ \E t \in Technician, s \in Session, n \in Node : answer(t, s, n)
    \/ \E t \in Technician :
          start_note(t) \/ answer_note(t) \/ answer_move(t) \/ answer_conclude(t) \/ Broken(t)

DiagSpec == DiagInit /\ [][DiagNext]_diagVars

-----------------------------------------------------------------------------
(* Properties.                                                             *)

\* Type correctness of the cases, the sessions, the log and the callers.
DiagTypeOK ==
    /\ caseRow \in [CaseId -> {"yok", "acik", "bekliyor", "kapali"}]
    /\ session \in [Session ->
           [case: CaseId \cup {NoCase}, node: Node, status: {"yok", "aktif", "tamamlandi"}]]
    /\ notes \subseteq [case: CaseId, session: Session, from: Node, to: Node,
                        kind: {"deneme", "sonuc"}]
    /\ caller \in [Technician ->
           {Idle} \cup [at: {"started"}, session: Session]
                  \cup [at: {"note", "move", "conclude"}, session: Session, from: Node, to: Node]]
    /\ answers \in 0..MaxAnswers

\* The log explains how a session came where it is: the node it stands at,
\* and every node an answer was given at, is the playbook's first one or the
\* answer of another note of the same session, in the log of its own case.
\* It holds whatever two technicians answer at once and wherever a write
\* fails, because the note precedes the move.
Explained(s, n) ==
    \/ \E p \in Books : n = FirstNode[p]
    \/ \E k \in notes : k.session = s /\ k.case = session[s].case /\ k.to = n /\ k.from # n
PositionIsExplained ==
    /\ \A s \in Session : Started(s) => Explained(s, session[s].node)
    /\ \A k \in notes : Explained(k.session, k.from)

\* A technician is never left without a question or a result: an active
\* session stands at a node with options and a completed one at a conclusion.
NeverStuck ==
    \A s \in Session : Started(s) =>
        (session[s].status = "aktif" <=> session[s].node \in Asked)

\* What the guided diagnosis promises: the case explains where the session
\* stands, and the session can always go on.
DiagnosisIsExplained == DiagTypeOK /\ PositionIsExplained /\ NeverStuck
=============================================================================

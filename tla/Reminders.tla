----------------------------- MODULE Reminders -----------------------------
(***************************************************************************)
(* The reminder service, the agenda it reads and the database file that    *)
(* the agenda shares with the memory store.                                *)
(*                                                                         *)
(* One background thread calls ReminderService.run_once at intervals.  A   *)
(* pass reads the due agenda items and tells each of them, marking it only *)
(* when the notification was shown; then it reads the service cases whose  *)
(* promised time is near and tells each of them that it can claim, the     *)
(* claim (a row with a unique key) being written first.  Meanwhile items   *)
(* are created, completed or cancelled, cases are closed, and agent turns  *)
(* write their messages through another connection to the same file.       *)
(*                                                                         *)
(* SQLite gives the write lock of the file to one connection at a time.  A *)
(* statement that writes begins a transaction and takes the lock, and the  *)
(* commit that follows it frees it: those pairs are one step here.  The    *)
(* claim of a key that exists raises IntegrityError and commits nothing:   *)
(* its transaction stays open, and so does its lock, until the agenda's    *)
(* connection commits something else.  A write may also fail, the file     *)
(* locked by another process or the disk full: that ends the whole pass,   *)
(* and the loop that swallows the error begins the next one in time.       *)
(*                                                                         *)
(* An operator named X_Fault is X with a seeded fault.  The specification  *)
(* never uses it: it shows that the properties notice the fault.           *)
(***************************************************************************)
EXTENDS Integers, FiniteSets

CONSTANTS
    Item,         (* agenda items                                           *)
    Cases,        (* the number of service cases, numbered by promised_ts   *)
    CaseLimit,    (* promised_cases's limit (50 in the code)                *)
    Turn,         (* agent turns that write a message to memory             *)
    NotifierFails,(* whether a notification may fail to be shown            *)
    MaxMishaps    (* how often the program may be killed and started, or a  *)
                  (* write of the agenda may fail                           *)

Case == 1 .. Cases
ASSUME CasesAssumption == Cases \in Nat
ASSUME LimitAssumption == CaseLimit \in Nat \ {0} /\ MaxMishaps \in Nat
ASSUME NotifierAssumption == NotifierFails \in BOOLEAN

VARIABLES
    item,       (* "absent", "later", "due", "completed" or "cancelled"     *)
                (* (durable)                                                *)
    marked,     (* items with a notified_ts (durable)                       *)
    case,       (* "later", "near" or "closed" (durable)                    *)
    claimed,    (* cases with an agenda_notifications row (durable)         *)
    message,    (* each turn's message: "unsaid", "written" or "refused"    *)
    holder,     (* the connection with the write lock: "none" or "agenda"   *)
    pass,       (* where run_once stands                                    *)
    itemsLeft,  (* due items of this pass still to be told                  *)
    casesLeft,  (* near cases of this pass still to be claimed              *)
    current,    (* the item or case being told, or NoCurrent                *)
    itemTold,   (* how often each item's notification was shown             *)
    caseTold,   (* how often each case's notification was shown             *)
    restarts,   (* how often the program was killed                         *)
    failures    (* how often a write of the agenda failed                   *)

durable == <<item, marked, case, claimed>>
passVars == <<pass, itemsLeft, casesLeft, current>>
toldVars == <<itemTold, caseTold>>
mishaps == <<restarts, failures>>
vars == <<durable, message, holder, passVars, toldVars, mishaps>>

NoCurrent == {}
Shown == IF NotifierFails THEN BOOLEAN ELSE {TRUE}

Init ==
    /\ item = [i \in Item |-> "absent"]
    /\ marked = {}
    /\ case = [c \in Case |-> "later"]
    /\ claimed = {}
    /\ message = [t \in Turn |-> "unsaid"]
    /\ holder = "none"
    /\ pass = "waiting"
    /\ itemsLeft = {} /\ casesLeft = {} /\ current = NoCurrent
    /\ itemTold = [i \in Item |-> 0]
    /\ caseTold = [c \in Case |-> 0]
    /\ restarts = 0 /\ failures = 0

-----------------------------------------------------------------------------
(* ReminderService.run_once.                                               *)

\* due_reminders: open, not yet marked, and their reminder time has come.
DueReminders_Fault == {i \in Item : item[i] = "due"}
DueReminders == {i \in Item : item[i] = "due" /\ i \notin marked}
BeginPass ==
    /\ pass = "waiting"
    /\ pass' = "items"
    /\ itemsLeft' = DueReminders
    /\ UNCHANGED <<durable, message, holder, casesLeft, current, toldVars, mishaps>>

\* notify: an item that was not shown is not marked; the next pass reads it
\* again.
Marks_Fault(shown) == TRUE
Marks(shown) == shown
NotifyItem(i, shown) ==
    /\ pass = "items"
    /\ i \in itemsLeft
    /\ itemsLeft' = itemsLeft \ {i}
    /\ itemTold' = [itemTold EXCEPT ![i] = IF shown THEN @ + 1 ELSE @]
    /\ IF Marks(shown)
       THEN pass' = "marking" /\ current' = {i}
       ELSE UNCHANGED <<pass, current>>
    /\ UNCHANGED <<durable, message, holder, casesLeft, caseTold, mishaps>>

\* mark_notified: UPDATE and commit; the loop goes on to its next item.
AfterMark_Fault == current
AfterMark == NoCurrent
MarkNotified ==
    /\ pass = "marking"
    /\ marked' = marked \cup current
    /\ holder' = "none"
    /\ pass' = "items"
    /\ current' = AfterMark
    /\ UNCHANGED <<item, case, claimed, message, itemsLeft, casesLeft,
                   toldVars, mishaps>>

\* mark_notified or claim_notification raises and SQLite rolls back: the rest
\* of the pass is not done, and a notification that was shown stays unmarked.
\* An error before the statement leaves an open transaction as it is.
WriteFails ==
    /\ restarts + failures < MaxMishaps
    /\ pass = "marking" \/ (pass = "cases" /\ casesLeft # {})
    /\ failures' = failures + 1
    /\ holder' \in {holder, "none"}
    /\ pass' = "waiting"
    /\ itemsLeft' = {} /\ casesLeft' = {} /\ current' = NoCurrent
    /\ UNCHANGED <<durable, message, toldVars, restarts>>

\* promised_cases: the open cases near their time, the earliest promised
\* first, CaseLimit of them at most.
NearCases == {c \in Case : case[c] = "near"}
PromisedCases_Fault ==
    {c \in NearCases : Cardinality({d \in NearCases : d <= c}) < CaseLimit}
PromisedCases ==
    {c \in NearCases : Cardinality({d \in NearCases : d < c}) < CaseLimit}
ReadCases ==
    /\ pass = "items" /\ itemsLeft = {}
    /\ pass' = "cases"
    /\ casesLeft' = PromisedCases
    /\ UNCHANGED <<durable, message, holder, itemsLeft, current, toldVars, mishaps>>

\* claim_notification: INSERT and commit, or IntegrityError and no commit.
Claimable_Fault(c) == TRUE
Claimable(c) == c \notin claimed
Claim(c) ==
    /\ pass = "cases"
    /\ c \in casesLeft
    /\ casesLeft' = casesLeft \ {c}
    /\ IF Claimable(c)
       THEN /\ claimed' = claimed \cup {c}
            /\ holder' = "none"
            /\ pass' = "telling"
            /\ current' = {c}
       ELSE /\ holder' = "agenda"
            /\ UNCHANGED <<claimed, pass, current>>
    /\ UNCHANGED <<item, marked, case, message, itemsLeft, toldVars, mishaps>>

\* notify, for the claimed case; whether it was shown only goes to the panel.
NotifyCase(shown) ==
    /\ pass = "telling"
    /\ caseTold' = [c \in Case |->
                        IF c \in current /\ shown THEN caseTold[c] + 1 ELSE caseTold[c]]
    /\ pass' = "cases"
    /\ current' = NoCurrent
    /\ UNCHANGED <<durable, message, holder, itemsLeft, casesLeft, itemTold, mishaps>>

\* The pass returns and the loop waits for the next one.
EndPass ==
    /\ pass = "cases" /\ casesLeft = {}
    /\ pass' = "waiting"
    /\ UNCHANGED <<durable, message, holder, itemsLeft, casesLeft, current,
                   toldVars, mishaps>>

-----------------------------------------------------------------------------
(* The other users of the file.                                            *)

\* create: INSERT and commit on the agenda's connection, whatever transaction
\* that connection had open.
Create(i) ==
    /\ item[i] = "absent"
    /\ item' = [item EXCEPT ![i] = "later"]
    /\ holder' = "none"
    /\ UNCHANGED <<marked, case, claimed, message, passVars, toldVars, mishaps>>

\* A reminder time comes; a promised time is less than an hour away.
ItemFallsDue(i) ==
    /\ item[i] = "later"
    /\ item' = [item EXCEPT ![i] = "due"]
    /\ UNCHANGED <<marked, case, claimed, message, holder, passVars, toldVars, mishaps>>
CaseDrawsNear(c) ==
    /\ case[c] = "later"
    /\ case' = [case EXCEPT ![c] = "near"]
    /\ UNCHANGED <<item, marked, claimed, message, holder, passVars, toldVars, mishaps>>

\* set_status, from the panel or a tool: UPDATE and commit, as in create.  It
\* asks only that the item exists.
SetStatus(i) ==
    /\ item[i] # "absent"
    /\ \E s \in {"completed", "cancelled"} : item' = [item EXCEPT ![i] = s]
    /\ holder' = "none"
    /\ UNCHANGED <<marked, case, claimed, message, passVars, toldVars, mishaps>>

\* A case is closed through the cases' own connection: it needs the lock.
CloseCase(c) ==
    /\ case[c] \in {"later", "near"}
    /\ holder = "none"
    /\ case' = [case EXCEPT ![c] = "closed"]
    /\ UNCHANGED <<item, marked, claimed, message, holder, passVars, toldVars, mishaps>>

\* The cases' set_status: it reopens even a case that is closed.
ReopenCase(c) ==
    /\ case[c] = "closed"
    /\ holder = "none"
    /\ \E s \in {"later", "near"} : case' = [case EXCEPT ![c] = s]
    /\ UNCHANGED <<item, marked, claimed, message, holder, passVars, toldVars, mishaps>>

\* add_message through the memory store's connection: it needs the lock, and
\* waits for it for its timeout.
Write(t) ==
    /\ message[t] = "unsaid"
    /\ holder = "none"
    /\ message' = [message EXCEPT ![t] = "written"]
    /\ UNCHANGED <<durable, holder, passVars, toldVars, mishaps>>

\* "database is locked": the timeout passed and the lock was held all along.
\* A pair of execute and commit takes milliseconds, so only a transaction
\* that was left open outlasts the timeout.
Refuse(t) ==
    /\ message[t] = "unsaid"
    /\ holder # "none"
    /\ message' = [message EXCEPT ![t] = "refused"]
    /\ UNCHANGED <<durable, holder, passVars, toldVars, mishaps>>

\* The program is killed and started again; open transactions roll back.
Restart ==
    /\ restarts + failures < MaxMishaps
    /\ restarts' = restarts + 1
    /\ holder' = "none"
    /\ pass' = "waiting"
    /\ itemsLeft' = {} /\ casesLeft' = {} /\ current' = NoCurrent
    /\ UNCHANGED <<durable, message, toldVars, failures>>

-----------------------------------------------------------------------------
RunOnce ==
    \/ BeginPass \/ MarkNotified \/ WriteFails \/ ReadCases \/ EndPass
    \/ \E i \in Item, shown \in Shown : NotifyItem(i, shown)
    \/ \E c \in Case : Claim(c)
    \/ \E shown \in Shown : NotifyCase(shown)

Next ==
    \/ RunOnce
    \/ \E i \in Item : Create(i) \/ ItemFallsDue(i) \/ SetStatus(i)
    \/ \E c \in Case : CaseDrawsNear(c) \/ CloseCase(c) \/ ReopenCase(c)
    \/ \E t \in Turn : Write(t) \/ Refuse(t)
    \/ Restart

\* The reminder thread goes on, and a notification that is tried again and
\* again is shown at last.  A write that fails for ever is outside: failures
\* are bounded.
Spec ==
    /\ Init
    /\ [][Next]_vars
    /\ WF_vars(RunOnce)
    /\ \A i \in Item : SF_vars(NotifyItem(i, TRUE))
    /\ SF_vars(NotifyCase(TRUE))

-----------------------------------------------------------------------------
(* Properties.                                                             *)

Passes == {"waiting", "items", "marking", "cases", "telling"}

\* Every variable keeps its type; at most one item or case is being told.
TypeOK ==
    /\ item \in [Item -> {"absent", "later", "due", "completed", "cancelled"}]
    /\ marked \subseteq Item
    /\ case \in [Case -> {"later", "near", "closed"}]
    /\ claimed \subseteq Case
    /\ message \in [Turn -> {"unsaid", "written", "refused"}]
    /\ holder \in {"none", "agenda"}
    /\ pass \in Passes
    /\ itemsLeft \subseteq Item /\ casesLeft \subseteq Case
    /\ pass \in {"waiting", "items", "cases"} => current = NoCurrent
    /\ pass = "marking" => \E i \in Item : current = {i}
    /\ pass = "telling" => \E c \in Case : current = {c}
    /\ itemTold \in [Item -> Nat]
    /\ caseTold \in [Case -> Nat]
    /\ restarts \in Nat /\ failures \in Nat /\ restarts + failures <= MaxMishaps

\* test_reminder_and_case_promise_are_sent_once, for a case: it is shown at
\* most once, through any restarts, because the claim comes first.
CaseToldOnce == \A c \in Case : caseTold[c] <= 1

\* The same test for an item, which is shown before it is marked: each further
\* showing has a kill or a failed write between the two steps to answer for.
ItemToldOnce == \A i \in Item : itemTold[i] <= 1 + restarts + failures

\* "Bildirim gosterilemezse ajanda kaydi isaretlenmez ve sonraki turda tekrar
\* denenir": an item that is due is shown, or is closed first.
ItemIsTold ==
    \A i \in Item : item[i] = "due" ~> itemTold[i] > 0 \/ item[i] # "due"

\* The same of a case: when no more cases are near than the limit, an open
\* case near its time gets its one notification, or is closed first, through
\* failing notifications, failing writes and restarts.
CaseIsTried ==
    \A c \in Case : case[c] = "near" ~> c \in claimed \/ case[c] # "near"

\* "Acik servis vakalarinin promised_ts teslim zamani bir saat kala ayrica
\* bildirilir": an open case near its time is shown, or is closed first.
CaseIsTold ==
    \A c \in Case : case[c] = "near" ~> caseTold[c] > 0 \/ case[c] # "near"

\* "Writes are short ...  a busy timeout keeps a concurrent panel request
\* from failing outright if the two ever overlap": no write is refused.
NoWriteIsRefused == \A t \in Turn : message[t] # "refused"

\* Through restarts, failing writes and failing notifications no case is told
\* again, and an item only when one of those kept its mark from being written.
ToldOnce == TypeOK /\ CaseToldOnce /\ ItemToldOnce
=============================================================================

---------------------------- MODULE StoreProofs -----------------------------
(***************************************************************************)
(* Theorems about what the program keeps on disk, for any constants,       *)
(* however its writers interleave and wherever a write fails or the        *)
(* process is killed. For each store one inductive invariant; what it adds *)
(* to the store's safety property is said where it begins.                 *)
(***************************************************************************)
EXTENDS Reminders, DiagnosticCases, BackupRestore, KnowledgeIndex,
        AuditTrail, CustomCommands, Settings, ListFacts, SequenceTheorems,
        FiniteSetTheorems, TLAPS

-----------------------------------------------------------------------------
(***************************************************************************)
(* Reminders. That nothing is told twice is inductive with what the claim  *)
(* and the mark say of a case and of an item between the two steps of a    *)
(* pass: a shown item is marked, about to be, or a mishap came between.    *)
(***************************************************************************)

Telling(c) == pass = "telling" /\ c \in current
Marking(i) == pass = "marking" /\ i \in current

CaseCount(c) ==
    /\ caseTold[c] = 0 \/ (caseTold[c] = 1 /\ c \in claimed /\ ~Telling(c))
    /\ Telling(c) => c \in claimed
ItemCount(i) ==
    /\ \/ itemTold[i] <= restarts + failures
       \/ itemTold[i] = restarts + failures + 1 /\ (i \in marked \/ Marking(i))
    /\ i \in itemsLeft => i \notin marked /\ ~Marking(i)

ReminderInv ==
    /\ TypeOK
    /\ \A c \in Case : CaseCount(c)
    /\ \A i \in Item : ItemCount(i)
    /\ pass \in {"waiting", "cases", "telling"} => itemsLeft = {}

LEMMA ReminderInit == Init => ReminderInv
  BY CasesAssumption, LimitAssumption
  DEF Init, ReminderInv, TypeOK, CaseCount, ItemCount, Telling, Marking, Passes,
      NoCurrent

LEMMA ReminderStep == ReminderInv /\ [Next]_vars => ReminderInv'
  <1> SUFFICES ASSUME ReminderInv, [Next]_vars PROVE ReminderInv'
    OBVIOUS
  <1> USE LimitAssumption
      DEF mishaps, ReminderInv, TypeOK, CaseCount, ItemCount, Telling, Marking, Passes, NoCurrent
  <1>1. CASE BeginPass
    BY <1>1 DEF BeginPass, DueReminders, durable, toldVars
  <1>2. ASSUME NEW i \in Item, NEW shown \in Shown, NotifyItem(i, shown)
        PROVE  ReminderInv'
    <2>1. shown \in BOOLEAN
      BY DEF Shown
    <2>2. CASE shown
      BY <1>2, <2>2 DEF NotifyItem, Marks, durable
    <2>3. CASE ~shown
      BY <1>2, <2>3 DEF NotifyItem, Marks, durable
    <2>. QED
      BY <2>1, <2>2, <2>3
  <1>3. CASE MarkNotified
    BY <1>3 DEF MarkNotified, AfterMark, toldVars
  <1>4. CASE ReadCases
    BY <1>4 DEF ReadCases, PromisedCases, NearCases, durable, toldVars
  <1>5. ASSUME NEW c \in Case, Claim(c) PROVE ReminderInv'
    <2>1. CASE Claimable(c)
      BY <1>5, <2>1 DEF Claim, Claimable, toldVars
    <2>2. CASE ~Claimable(c)
      BY <1>5, <2>2 DEF Claim, Claimable, toldVars
    <2>. QED
      BY <2>1, <2>2
  <1>6. ASSUME NEW shown \in Shown, NotifyCase(shown) PROVE ReminderInv'
    BY <1>6 DEF NotifyCase, durable
  <1>7. CASE EndPass
    BY <1>7 DEF EndPass, durable, toldVars
  <1>8. ASSUME NEW i \in Item, Create(i) \/ ItemFallsDue(i) \/ SetStatus(i) PROVE ReminderInv'
    BY <1>8 DEF Create, ItemFallsDue, SetStatus, passVars, toldVars
  <1>9. ASSUME NEW c \in Case, CaseDrawsNear(c) \/ CloseCase(c) \/ ReopenCase(c) PROVE ReminderInv'
    BY <1>9 DEF CaseDrawsNear, CloseCase, ReopenCase, passVars, toldVars
  <1>10. ASSUME NEW t \in Turn, Write(t) \/ Refuse(t) PROVE ReminderInv'
    BY <1>10 DEF Write, Refuse, durable, passVars, toldVars
  <1>11. CASE Restart
    BY <1>11 DEF Restart, durable, toldVars
  <1>13. CASE WriteFails
    BY <1>13 DEF WriteFails, durable, toldVars
  <1>12. CASE UNCHANGED vars
    BY <1>12 DEF vars, durable, passVars, toldVars
  <1>. QED
    BY <1>1, <1>2, <1>3, <1>4, <1>5, <1>6, <1>7, <1>8, <1>9, <1>10, <1>11, <1>12, <1>13
    DEF Next, RunOnce

LEMMA ReminderInvariant == Spec => []ReminderInv
  BY ReminderInit, ReminderStep, PTL DEF Spec

\* TypeOK, for any items, cases and restarts.
THEOREM RemindersTypeCorrect == Spec => []TypeOK
  <1>1. ReminderInv => TypeOK
    BY DEF ReminderInv
  <1>. QED
    BY <1>1, ReminderInvariant, PTL

\* claim_notification before notify: no case is shown twice, whatever is
\* killed and restarted when.
THEOREM NoCaseIsToldTwice == Spec => []CaseToldOnce
  <1>1. ReminderInv => CaseToldOnce
    BY DEF ReminderInv, CaseToldOnce, CaseCount
  <1>. QED
    BY <1>1, ReminderInvariant, PTL

\* mark_notified after notify: an item is shown again only as often as a
\* restart or a failed write came between the two.
THEOREM ItemsAreToldAgainOnlyUnmarked == Spec => []ItemToldOnce
  <1>1. ReminderInv => ItemToldOnce
    BY LimitAssumption DEF ReminderInv, TypeOK, ItemToldOnce, ItemCount
  <1>. QED
    BY <1>1, ReminderInvariant, PTL

\* run_once: no case is told again, and an item only when its mark was kept
\* from being written.
THEOREM RemindersAreToldOnce == Spec => []ToldOnce
  <1>1. ToldOnce <=> TypeOK /\ CaseToldOnce /\ ItemToldOnce
    BY DEF ToldOnce
  <1>. QED
    BY <1>1, RemindersTypeCorrect, NoCaseIsToldTwice, ItemsAreToldAgainOnlyUnmarked, PTL

-----------------------------------------------------------------------------
(***************************************************************************)
(* DiagnosticCases. That the log explains a session is inductive with what *)
(* a call under way has read: the node it read was explained then, and     *)
(* stays so because the log only grows and a session never changes its     *)
(* case.                                                                   *)
(***************************************************************************)

\* What is known of a call between two of its statements.
CallInv(k) ==
    k # Idle =>
        /\ Started(k.session)
        /\ k.at \in {"note", "move"} =>
              k.from \in Asked /\ k.to \in Next1(k.from) /\ Explained(k.session, k.from)
        /\ k.at \in {"move", "conclude"} => Explained(k.session, k.to)
DiagInv ==
    /\ DiagnosisIsExplained
    /\ \A k \in notes : Started(k.session)
    /\ \A s \in Session : Started(s) => session[s].case \in CaseId
    /\ \A t \in Technician : CallInv(caller[t])

\* The playbooks: an option leads to another node, and a first node asks.
LEMMA BooksAreSound ==
    /\ \A p \in Books : FirstNode[p] \in Asked
    /\ Asked \cap Conclusions = {}
    /\ \A n \in Asked : Next1(n) \subseteq Node \ {n}
  <1>1. Asked = {"enerji", "tepki", "minimal", "anakart", "monitor", "post", "ram", "gpu",
                 "cmos", "olcum", "hava", "temas"}
    BY DEF Asked, Branch
  <1>2. \A p \in Books : FirstNode[p] \in Asked
    BY <1>1 DEF Books, FirstNode
  <1>3. Asked \cap Conclusions = {}
    BY <1>1 DEF Conclusions
  <1>4. ASSUME NEW n \in Asked PROVE Next1(n) \subseteq Node \ {n}
    <2>1. CASE n = "enerji"
      BY <1>1, <2>1 DEF Next1, Branch, Node, Conclusions
    <2>2. CASE n = "tepki"
      BY <1>1, <2>2 DEF Next1, Branch, Node, Conclusions
    <2>3. CASE n = "minimal"
      BY <1>1, <2>3 DEF Next1, Branch, Node, Conclusions
    <2>4. CASE n = "anakart"
      BY <1>1, <2>4 DEF Next1, Branch, Node, Conclusions
    <2>5. CASE n = "monitor"
      BY <1>1, <2>5 DEF Next1, Branch, Node, Conclusions
    <2>6. CASE n = "post"
      BY <1>1, <2>6 DEF Next1, Branch, Node, Conclusions
    <2>7. CASE n = "ram"
      BY <1>1, <2>7 DEF Next1, Branch, Node, Conclusions
    <2>8. CASE n = "gpu"
      BY <1>1, <2>8 DEF Next1, Branch, Node, Conclusions
    <2>9. CASE n = "cmos"
      BY <1>1, <2>9 DEF Next1, Branch, Node, Conclusions
    <2>10. CASE n = "olcum"
      BY <1>1, <2>10 DEF Next1, Branch, Node, Conclusions
    <2>11. CASE n = "hava"
      BY <1>1, <2>11 DEF Next1, Branch, Node, Conclusions
    <2>12. CASE n = "temas"
      BY <1>1, <2>12 DEF Next1, Branch, Node, Conclusions
    <2>. QED
      BY <1>1, <2>1, <2>2, <2>3, <2>4, <2>5, <2>6, <2>7, <2>8, <2>9, <2>10, <2>11, <2>12
  <1>. QED
    BY <1>2, <1>3, <1>4

LEMMA DiagStart == DiagInit => DiagInv
  BY NoCaseAssumption
  DEF DiagInit, DiagInv, DiagnosisIsExplained, DiagTypeOK, PositionIsExplained, NeverStuck,
      CallInv, Started, NoSession, Idle, Node, Asked, Branch

\* What is explained stays so while the log grows and the case stays.
LEMMA ExplainedStays ==
    ASSUME NEW s \in Session, NEW n, Explained(s, n), notes \subseteq notes',
           session'[s].case = session[s].case
    PROVE  Explained(s, n)'
  BY DEF Explained

\* A step that writes only notes and the place of one call.
LEMMA NotesGrow ==
    ASSUME DiagInv, NEW t \in Technician, NEW call, NEW new,
           DiagTypeOK', UNCHANGED <<caseRow, session>>,
           notes' = notes \cup new, caller' = [caller EXCEPT ![t] = call],
           \A k \in new : k.session \in Session /\ k.from \in Node
                          /\ Started(k.session) /\ Explained(k.session, k.from),
           CallInv(call)'
    PROVE  DiagInv'
  <1>1. ASSUME NEW s \in Session, NEW n, Explained(s, n) PROVE Explained(s, n)'
    BY <1>1, ExplainedStays
  <1>2. \A s \in Session : Started(s)' <=> Started(s)
    BY DEF Started
  <1>3. (\A s \in Session : Started(s) => Explained(s, session[s].node))'
    BY <1>1, <1>2 DEF DiagInv, DiagnosisIsExplained, PositionIsExplained
  <1>4. ASSUME NEW k \in notes' PROVE Started(k.session)' /\ Explained(k.session, k.from)'
    <2>1. k.session \in Session /\ Started(k.session) /\ Explained(k.session, k.from)
      BY DEF DiagInv, DiagnosisIsExplained, PositionIsExplained, DiagTypeOK
    <2>. QED
      BY <1>1, <1>2, <2>1
  <1>5. NeverStuck'
    BY <1>2 DEF DiagInv, DiagnosisIsExplained, NeverStuck
  <1>6. ASSUME NEW u \in Technician PROVE CallInv(caller[u])'
    <2>1. CASE u = t
      BY <2>1 DEF DiagInv, DiagnosisIsExplained, DiagTypeOK
    <2>2. CASE u # t
      <3>1. caller'[u] = caller[u] /\ CallInv(caller[u])
        BY <2>2 DEF DiagInv, DiagnosisIsExplained, DiagTypeOK
      <3>2. caller[u] # Idle => caller[u].session \in Session
        BY DEF DiagInv, DiagnosisIsExplained, DiagTypeOK
      <3>. QED
        BY <1>1, <1>2, <3>1, <3>2 DEF CallInv
    <2>. QED
      BY <2>1, <2>2
  <1>7. (\A s \in Session : Started(s) => session[s].case \in CaseId)'
    BY <1>2 DEF DiagInv
  <1>. QED
    BY <1>3, <1>4, <1>5, <1>6, <1>7 DEF DiagInv, DiagnosisIsExplained, PositionIsExplained

\* A step that writes only the rows of the cases.
LEMMA CasesKeep ==
    ASSUME DiagInv, UNCHANGED <<session, notes, caller, answers>>,
           caseRow' \in [CaseId -> {"yok", "acik", "bekliyor", "kapali"}]
    PROVE  DiagInv'
  BY DEF DiagInv, DiagnosisIsExplained, DiagTypeOK, PositionIsExplained, NeverStuck, CallInv,
         Explained, Started

LEMMA StartKeeps ==
    ASSUME DiagInv, NEW t \in Technician, NEW s \in Session, NEW c \in CaseId,
           NEW p \in Playbook, start(t, s, c, p)
    PROVE  DiagInv'
  <1> DEFINE row == [case |-> c, node |-> FirstNode[p], status |-> "aktif"]
             call == [at |-> "started", session |-> s]
  <1>1. DiagTypeOK /\ ~Started(s) /\ session' = [session EXCEPT ![s] = row]
        /\ caller' = [caller EXCEPT ![t] = call] /\ UNCHANGED <<caseRow, notes, answers>>
    BY DEF DiagInv, DiagnosisIsExplained, start
  <1>2. p \in Books /\ FirstNode[p] \in Asked
    BY BooksAreSound, NoCaseAssumption DEF Books
  <1>3. DiagTypeOK'
    BY <1>1, <1>2 DEF DiagTypeOK, Node
  <1>4. Started(s)' /\ session'[s].node \in Asked /\ session'[s].status = "aktif"
        /\ session'[s].case \in CaseId /\ Explained(s, session[s].node)'
    BY <1>1, <1>2 DEF Started, NoSession, DiagTypeOK, Explained
  <1>5. ASSUME NEW r \in Session, r # s PROVE session'[r] = session[r] /\ (Started(r)' <=> Started(r))
    BY <1>1, <1>5 DEF Started, DiagTypeOK
  <1>6. ASSUME NEW r \in Session, NEW n, r # s, Explained(r, n) PROVE Explained(r, n)'
    BY <1>1, <1>5, <1>6, ExplainedStays
  <1>7. ASSUME NEW k \in notes' PROVE Started(k.session)' /\ Explained(k.session, k.from)'
    <2>1. k.session \in Session /\ Started(k.session) /\ Explained(k.session, k.from)
      BY <1>1 DEF DiagInv, DiagnosisIsExplained, PositionIsExplained, DiagTypeOK
    <2>2. k.session # s
      BY <1>1, <2>1
    <2>. QED
      BY <1>5, <1>6, <2>1, <2>2
  <1>8. (\A r \in Session : Started(r) => Explained(r, session[r].node))'
    BY <1>4, <1>5, <1>6 DEF DiagInv, DiagnosisIsExplained, PositionIsExplained
  <1>9. NeverStuck'
    BY <1>4, <1>5 DEF DiagInv, DiagnosisIsExplained, NeverStuck
  <1>10. ASSUME NEW u \in Technician PROVE CallInv(caller[u])'
    <2>1. CASE u = t
      <3>1. caller'[u] = call
        BY <1>1, <2>1 DEF DiagTypeOK
      <3>. QED
        BY <1>4, <3>1 DEF CallInv
    <2>2. CASE u # t
      <3>1. caller'[u] = caller[u] /\ CallInv(caller[u])
        BY <1>1, <2>2 DEF DiagInv, DiagTypeOK
      <3>2. caller[u] # Idle => caller[u].session \in Session /\ caller[u].session # s
        BY <1>1, <3>1 DEF DiagTypeOK, CallInv
      <3>. QED
        BY <1>5, <1>6, <3>1, <3>2 DEF CallInv
    <2>. QED
      BY <2>1, <2>2
  <1>11. (\A r \in Session : Started(r) => session[r].case \in CaseId)'
    BY <1>4, <1>5 DEF DiagInv
  <1>. QED
    BY <1>3, <1>7, <1>8, <1>9, <1>10, <1>11 DEF DiagInv, DiagnosisIsExplained, PositionIsExplained

LEMMA MoveKeeps ==
    ASSUME DiagInv, NEW t \in Technician, answer_move(t)
    PROVE  DiagInv'
  <1> DEFINE k == caller[t]
             s == k.session
             n == k.to
             call == IF n \in Conclusions THEN [k EXCEPT !.at = "conclude"] ELSE Idle
  <1>1. DiagTypeOK /\ k # Idle /\ k.at = "move" /\ s \in Session /\ n \in Node /\ k.from \in Node
        /\ k \in [at: {"note", "move", "conclude"}, session: Session, from: Node, to: Node]
    BY DEF DiagInv, DiagnosisIsExplained, DiagTypeOK, answer_move, Idle
  <1>2. Started(s) /\ Explained(s, n)
    BY <1>1 DEF DiagInv, CallInv
  <1>3. /\ session' = [session EXCEPT ![s].node = n,
                         ![s].status = IF n \in Conclusions THEN "tamamlandi" ELSE "aktif"]
        /\ caller' = [caller EXCEPT ![t] = call]
        /\ UNCHANGED <<caseRow, notes, answers>>
    BY DEF answer_move, Moved
  <1>4. /\ call \in {Idle} \cup [at: {"conclude"}, session: Session, from: Node, to: Node]
        /\ call # Idle => call.at = "conclude" /\ call.session = s /\ call.to = n
    BY <1>1
  <1> HIDE DEF call, k
  <1>5. /\ session' \in [Session -> [case: CaseId \cup {NoCase}, node: Node,
                                     status: {"yok", "aktif", "tamamlandi"}]]
        /\ session'[s].node = n /\ session'[s].case = session[s].case
        /\ session'[s].status = IF n \in Conclusions THEN "tamamlandi" ELSE "aktif"
    BY <1>1, <1>3 DEF DiagTypeOK
  <1>6. DiagTypeOK'
    BY <1>1, <1>3, <1>4, <1>5 DEF DiagTypeOK
  <1>7. ASSUME NEW r \in Session, r # s PROVE session'[r] = session[r]
    BY <1>1, <1>3, <1>7 DEF DiagTypeOK
  <1>8. ASSUME NEW r \in Session PROVE session'[r].case = session[r].case /\ (Started(r)' <=> Started(r))
    BY <1>2, <1>5, <1>7 DEF Started, NoSession
  <1>9. ASSUME NEW r \in Session, NEW m, Explained(r, m) PROVE Explained(r, m)'
    BY <1>3, <1>8, <1>9, ExplainedStays
  <1>10. (\A r \in Session : Started(r) => Explained(r, session[r].node))'
    BY <1>2, <1>5, <1>7, <1>8, <1>9 DEF DiagInv, DiagnosisIsExplained, PositionIsExplained
  <1>11. ASSUME NEW m \in notes' PROVE Started(m.session)' /\ Explained(m.session, m.from)'
    <2>1. m.session \in Session /\ Started(m.session) /\ Explained(m.session, m.from)
      BY <1>1, <1>3 DEF DiagInv, DiagnosisIsExplained, PositionIsExplained, DiagTypeOK
    <2>. QED
      BY <1>8, <1>9, <2>1
  <1>12. NeverStuck'
    <2>1. n \in Asked <=> n \notin Conclusions
      BY <1>1, BooksAreSound DEF Node
    <2>. QED
      BY <1>5, <1>7, <1>8, <2>1 DEF DiagInv, DiagnosisIsExplained, NeverStuck
  <1>13. ASSUME NEW u \in Technician PROVE CallInv(caller[u])'
    <2>1. CASE u = t
      <3>1. caller'[u] = call
        BY <1>1, <1>3, <2>1 DEF DiagTypeOK
      <3>. QED
        BY <1>1, <1>2, <1>4, <1>8, <1>9, <3>1 DEF CallInv
    <2>2. CASE u # t
      <3>1. caller'[u] = caller[u] /\ CallInv(caller[u])
        BY <1>1, <1>3, <2>2 DEF DiagInv, DiagTypeOK
      <3>2. caller[u] # Idle => caller[u].session \in Session
        BY <1>1 DEF DiagTypeOK
      <3>. QED
        BY <1>8, <1>9, <3>1, <3>2 DEF CallInv
    <2>. QED
      BY <2>1, <2>2
  <1>14. (\A r \in Session : Started(r) => session[r].case \in CaseId)'
    BY <1>8 DEF DiagInv
  <1>. QED
    BY <1>6, <1>10, <1>11, <1>12, <1>13, <1>14 DEF DiagInv, DiagnosisIsExplained, PositionIsExplained

\* The other calls of the engine: what they write is explained by what they
\* read.
LEMMA EngineKeeps ==
    ASSUME DiagInv, NEW t \in Technician
    PROVE  /\ \A s \in Session, n \in Node : answer(t, s, n) => DiagInv'
           /\ start_note(t) => DiagInv'
           /\ answer_note(t) => DiagInv'
           /\ answer_conclude(t) => DiagInv'
           /\ Broken(t) => DiagInv'
  <1>0. PICK k : k = caller[t]
    OBVIOUS
  <1>1. DiagTypeOK /\ CallInv(k)
    BY <1>0 DEF DiagInv, DiagnosisIsExplained
  <1>2. CallInv(Idle)'
    BY DEF CallInv
  <1>3. k # Idle => /\ k.session \in Session /\ Started(k.session)
                    /\ session[k.session].node \in Node /\ session[k.session].case \in CaseId
                    /\ Explained(k.session, session[k.session].node)
                    /\ k.at # "started" => k.from \in Node /\ k.to \in Node
    BY <1>0, <1>1
    DEF DiagTypeOK, CallInv, DiagInv, DiagnosisIsExplained, PositionIsExplained
  <1>4. ASSUME NEW s \in Session, NEW n \in Node, answer(t, s, n) PROVE DiagInv'
    <2>0. PICK call, none : none = {} /\ call =
           [at |-> "note", session |-> s, from |-> session[s].node, to |-> n]
      OBVIOUS
    <2>1. /\ caller' = [caller EXCEPT ![t] = call] /\ UNCHANGED <<caseRow, session>>
          /\ notes' = notes \cup none /\ answers' \in 0..MaxAnswers
      BY <1>1, <1>4, <2>0, NoCaseAssumption DEF answer, DiagTypeOK
    <2>2. Started(s) /\ session[s].node \in Asked /\ n \in Next1(session[s].node)
          /\ session[s].node \in Node
      BY <1>1, <1>4 DEF answer, Answerable, DiagTypeOK
    <2>3. Explained(s, session[s].node)
      BY <2>2 DEF DiagInv, DiagnosisIsExplained, PositionIsExplained
    <2>4. Started(s)' /\ Explained(s, session[s].node)' /\ session'[s].node = session[s].node
      BY <2>1, <2>2, <2>3 DEF Started, Explained
    <2>5. CallInv(call)'
      BY <2>0, <2>1, <2>2, <2>4 DEF CallInv
    <2>6. DiagTypeOK'
      BY <1>1, <2>0, <2>1, <2>2 DEF DiagTypeOK
    <2>7. \A m \in none : m.session \in Session /\ m.from \in Node
                          /\ Started(m.session) /\ Explained(m.session, m.from)
      BY <2>0
    <2>. QED
      BY <2>1, <2>5, <2>6, <2>7, NotesGrow
  <1>5. CASE start_note(t)
    <2> DEFINE s == k.session
    <2>0. PICK new : new = {Note(s, session[s].node, session[s].node, "deneme")}
      OBVIOUS
    <2>1. /\ caller' = [caller EXCEPT ![t] = Idle] /\ UNCHANGED <<caseRow, session, answers>>
          /\ notes' = notes \cup new /\ k # Idle
      BY <1>0, <1>5, <2>0 DEF start_note, Idle
    <2>2. DiagTypeOK'
      BY <1>1, <1>3, <2>0, <2>1 DEF DiagTypeOK, Note
    <2>3. \A m \in new : m.session \in Session /\ m.from \in Node
                         /\ Started(m.session) /\ Explained(m.session, m.from)
      BY <1>3, <2>0, <2>1 DEF Note
    <2>. QED
      BY <1>2, <2>1, <2>2, <2>3, NotesGrow
  <1>6. CASE answer_note(t)
    <2> DEFINE s == k.session
    <2>0. PICK new, call : new = {Note(s, k.from, k.to, "deneme")} /\ call = [k EXCEPT !.at = "move"]
      OBVIOUS
    <2>1. /\ caller' = [caller EXCEPT ![t] = call] /\ UNCHANGED <<caseRow, session, answers>>
          /\ notes' = notes \cup new /\ k # Idle /\ k.at = "note"
      BY <1>0, <1>1, <1>6, <2>0 DEF answer_note, AnswerNote, Idle, DiagTypeOK
    <2>2. k \in [at: {"note", "move", "conclude"}, session: Session, from: Node, to: Node]
      BY <1>0, <1>1, <2>1 DEF DiagTypeOK
    <2>3. DiagTypeOK'
      BY <1>1, <1>3, <2>0, <2>1, <2>2 DEF DiagTypeOK, Note
    <2>4. k.from \in Asked /\ k.to \in Next1(k.from) /\ Explained(s, k.from)
      BY <1>1, <2>1 DEF CallInv
    <2>5. k.to # k.from
      BY <2>4, BooksAreSound
    <2>6. Explained(s, k.from)' /\ Started(s)' /\ Explained(s, k.to)'
      <3>1. Started(s)' /\ session'[s].case = session[s].case /\ notes \subseteq notes'
        BY <1>3, <2>1 DEF Started
      <3>2. Explained(s, k.from)'
        BY <1>3, <2>1, <2>4, <3>1, ExplainedStays
      <3>3. PICK m : m = Note(s, k.from, k.to, "deneme")
        OBVIOUS
      <3>4. m \in notes' /\ m.session = s /\ m.case = session'[s].case /\ m.to = k.to
            /\ m.from # k.to
        BY <2>0, <2>1, <2>5, <3>1, <3>3 DEF Note
      <3>5. Explained(s, k.to)'
        BY <3>4 DEF Explained
      <3>. QED
        BY <3>1, <3>2, <3>5
    <2>7. CallInv(call)'
      BY <2>0, <2>2, <2>4, <2>6 DEF CallInv, Idle
    <2>8. \A m \in new : m.session \in Session /\ m.from \in Node
                         /\ Started(m.session) /\ Explained(m.session, m.from)
      BY <1>3, <2>0, <2>1, <2>2, <2>4 DEF Note
    <2>. QED
      BY <2>1, <2>3, <2>7, <2>8, NotesGrow
  <1>7. CASE answer_conclude(t)
    <2> DEFINE s == k.session
    <2>0. PICK new : new = {Note(s, k.to, k.to, "sonuc")}
      OBVIOUS
    <2>1. /\ caller' = [caller EXCEPT ![t] = Idle] /\ UNCHANGED <<caseRow, session, answers>>
          /\ notes' = notes \cup new /\ k # Idle /\ k.at = "conclude"
      BY <1>0, <1>7, <2>0 DEF answer_conclude, Idle
    <2>2. DiagTypeOK'
      BY <1>1, <1>3, <2>0, <2>1 DEF DiagTypeOK, Note
    <2>3. \A m \in new : m.session \in Session /\ m.from \in Node
                         /\ Started(m.session) /\ Explained(m.session, m.from)
      BY <1>1, <1>3, <2>0, <2>1 DEF Note, CallInv
    <2>. QED
      BY <1>2, <2>1, <2>2, <2>3, NotesGrow
  <1>8. CASE Broken(t)
    <2>0. PICK none : none = {}
      OBVIOUS
    <2>1. /\ caller' = [caller EXCEPT ![t] = Idle] /\ UNCHANGED <<caseRow, session, answers>>
          /\ notes' = notes \cup none
      BY <1>8, <2>0 DEF Broken
    <2>2. DiagTypeOK'
      BY <1>1, <2>0, <2>1 DEF DiagTypeOK
    <2>3. \A m \in none : m.session \in Session /\ m.from \in Node
                          /\ Started(m.session) /\ Explained(m.session, m.from)
      BY <2>0
    <2>. QED
      BY <1>2, <2>1, <2>2, <2>3, NotesGrow
  <1>. QED
    BY <1>4, <1>5, <1>6, <1>7, <1>8

LEMMA DiagStep == DiagInv /\ [DiagNext]_diagVars => DiagInv'
  <1> SUFFICES ASSUME DiagInv, [DiagNext]_diagVars PROVE DiagInv'
    OBVIOUS
  <1>1. ASSUME NEW c \in CaseId, open_case(c) \/ close_case(c) PROVE DiagInv'
    BY <1>1, CasesKeep
    DEF open_case, close_case, SetCase, DiagInv, DiagnosisIsExplained, DiagTypeOK
  <1>2. ASSUME NEW c \in CaseId, NEW status \in {"acik", "bekliyor"}, set_status(c, status)
        PROVE  DiagInv'
    BY <1>2, CasesKeep DEF set_status, SetCase, DiagInv, DiagnosisIsExplained, DiagTypeOK
  <1>3. ASSUME NEW t \in Technician, NEW s \in Session, NEW c \in CaseId, NEW p \in Playbook,
               start(t, s, c, p)
        PROVE  DiagInv'
    BY <1>3, StartKeeps
  <1>4. ASSUME NEW t \in Technician, NEW s \in Session, NEW n \in Node, answer(t, s, n)
        PROVE  DiagInv'
    BY <1>4, EngineKeeps
  <1>5. ASSUME NEW t \in Technician,
               start_note(t) \/ answer_note(t) \/ answer_move(t) \/ answer_conclude(t) \/ Broken(t)
        PROVE  DiagInv'
    BY <1>5, EngineKeeps, MoveKeeps
  <1>6. CASE UNCHANGED diagVars
    BY <1>6
    DEF diagVars, DiagInv, DiagnosisIsExplained, DiagTypeOK, PositionIsExplained, NeverStuck,
        CallInv, Explained, Started
  <1>. QED
    BY <1>1, <1>2, <1>3, <1>4, <1>5, <1>6 DEF DiagNext

LEMMA DiagInvariant == DiagSpec => []DiagInv
  BY DiagStart, DiagStep, PTL DEF DiagSpec

\* DiagnosticEngine.start and answer, for any number of technicians: the log
\* of the case explains where each session stands, and an active session
\* always has a question and a completed one a result.
THEOREM DiagnosisStaysExplained == DiagSpec => []DiagnosisIsExplained
  <1>1. DiagInv => DiagnosisIsExplained
    BY DEF DiagInv
  <1>. QED
    BY <1>1, DiagInvariant, PTL

-----------------------------------------------------------------------------
(***************************************************************************)
(* BackupRestore. BackupIsSound is inductive with what a restore under way *)
(* has replaced so far.                                                    *)
(***************************************************************************)

Contents == [Name -> Absent .. MaxDataEdits]
ArchiveSet == [files : [Name -> Damaged .. MaxDataEdits], manifest : Contents]
BackupTypes ==
    /\ data \in Contents /\ staged \in Contents
    /\ dataEdits \in 0 .. MaxDataEdits
    /\ archive \in ArchiveSet
    /\ restored \in [files : Contents, manifest : Contents]
    /\ job \in {"none", "copy", "zip", "unpack", "replace"}
    /\ todo \subseteq Name

\* While a restore replaces the data, what it has replaced is what it
\* unpacked.
ReplacedSoFar == job = "replace" => \A f \in Files(staged) \ todo : data[f] = staged[f]
BackupInv == BackupTypes /\ ReplacedSoFar /\ ArchiveIsWhole /\ RestoreIsComplete

LEMMA NoDataTyped == NoData \in Contents /\ \A f \in Name : NoData[f] = Absent
  BY BackupAssumption DEF NoData, Contents, Absent

LEMMA BackupInvIsEnough == BackupInv => BackupIsSound
  <1>. SUFFICES ASSUME BackupTypes PROVE BackupTypeOK
    BY DEF BackupInv, BackupIsSound
  <1>1. {archive.files[f] : f \in Name} \subseteq Damaged .. MaxDataEdits
    BY DEF BackupTypes, ArchiveSet
  <1>. QED
    BY <1>1 DEF BackupTypes, BackupTypeOK, Contents

LEMMA BackupInitInv == BackupInit => BackupInv
  <1>. SUFFICES ASSUME BackupInit PROVE BackupInv
    OBVIOUS
  <1>1. data \in Contents
    BY BackupAssumption DEF BackupInit, Contents, Absent
  <1>2. None \in ArchiveSet /\ None \in [files : Contents, manifest : Contents]
    <2>1. NoData \in [Name -> Damaged .. MaxDataEdits]
      BY BackupAssumption DEF NoData, Absent, Damaged
    <2>. QED
      BY <2>1, NoDataTyped DEF None, ArchiveSet
  <1>3. BackupTypes
    BY <1>1, <1>2, NoDataTyped, BackupAssumption DEF BackupInit, BackupTypes
  <1>4. ArchiveIsWhole
    BY DEF BackupInit, None, ArchiveIsWhole, Verified
  <1>5. RestoreIsComplete
    BY NoDataTyped DEF BackupInit, None, RestoreIsComplete, Files
  <1>. QED
    BY <1>3, <1>4, <1>5 DEF BackupInit, BackupInv, ReplacedSoFar

LEMMA EditDataInv ==
    ASSUME BackupInv, NEW f \in Name, EditData(f)
    PROVE  BackupInv'
  <1>1. dataEdits' = dataEdits + 1 /\ dataEdits' \in 0 .. MaxDataEdits
    BY BackupAssumption DEF BackupInv, BackupTypes, EditData
  <1>2. \E c \in Absent .. MaxDataEdits : data' = [data EXCEPT ![f] = c]
    BY <1>1, BackupAssumption DEF EditData, Absent
  <1>3. data' \in Contents
    BY <1>2 DEF BackupInv, BackupTypes, Contents
  <1>4. BackupTypes'
    BY <1>1, <1>3 DEF BackupInv, BackupTypes, EditData
  <1>. QED
    BY <1>4 DEF BackupInv, ReplacedSoFar, ArchiveIsWhole, RestoreIsComplete, EditData

LEMMA RotInv ==
    ASSUME BackupInv, NEW f \in Name, Rot(f)
    PROVE  BackupInv'
  <1>1. dataEdits' \in 0 .. MaxDataEdits
    BY BackupAssumption DEF BackupInv, BackupTypes, Rot
  <1>2. archive' \in ArchiveSet /\ archive'.files[f] = Damaged
    BY BackupAssumption DEF BackupInv, BackupTypes, ArchiveSet, Rot, Damaged
  <1>3. BackupTypes'
    BY <1>1, <1>2 DEF BackupInv, BackupTypes, Rot
  <1>4. ArchiveIsWhole'
    BY <1>2 DEF ArchiveIsWhole
  <1>. QED
    BY <1>3, <1>4 DEF BackupInv, ReplacedSoFar, RestoreIsComplete, Rot

LEMMA CopyInv ==
    ASSUME BackupInv, NEW f \in Name, Copy(f)
    PROVE  BackupInv'
  <1>1. staged' \in Contents /\ todo' \subseteq Name /\ job' \in {"none", "copy"}
    BY NoDataTyped DEF BackupInv, BackupTypes, Contents, Copy
  <1>. QED
    BY <1>1 DEF BackupInv, BackupTypes, ReplacedSoFar, ArchiveIsWhole, RestoreIsComplete, Copy

\* The archive is published whole.
LEMMA PublishInv == BackupInv /\ Publish => BackupInv'
  <1>. SUFFICES ASSUME BackupInv, Publish PROVE BackupInv'
    OBVIOUS
  <1>1. staged \in [Name -> Damaged .. MaxDataEdits]
    BY BackupAssumption DEF BackupInv, BackupTypes, Contents, Absent, Damaged
  <1>2. archive' \in ArchiveSet /\ Verified(archive')
    BY <1>1 DEF BackupInv, BackupTypes, ArchiveSet, Publish, Verified
  <1>. QED
    BY <1>2, NoDataTyped
    DEF BackupInv, BackupTypes, ReplacedSoFar, ArchiveIsWhole, RestoreIsComplete, Publish

\* A rotten entry ends the restore before anything is replaced.
LEMMA UnpackInv ==
    ASSUME BackupInv, NEW f \in Name, Unpack(f)
    PROVE  BackupInv'
  <1>1. CASE Sound(f)
    <2>1. archive.files[f] \in Absent .. MaxDataEdits
      BY <1>1, BackupAssumption
      DEF BackupInv, BackupTypes, ArchiveSet, Sound, Absent, Damaged
    <2>2. staged' \in Contents /\ job' = "unpack"
      BY <1>1, <2>1 DEF BackupInv, BackupTypes, Contents, Unpack
    <2>. QED
      BY <1>1, <2>2
      DEF BackupInv, BackupTypes, ReplacedSoFar, ArchiveIsWhole, RestoreIsComplete, Unpack
  <1>2. CASE ~Sound(f)
    BY <1>2, NoDataTyped
    DEF BackupInv, BackupTypes, ReplacedSoFar, ArchiveIsWhole, RestoreIsComplete, Unpack
  <1>. QED
    BY <1>1, <1>2

LEMMA ReplaceFileInv ==
    ASSUME BackupInv, NEW f \in Name, ReplaceFile(f)
    PROVE  BackupInv'
  <1>0. UNCHANGED <<dataEdits, archive, job, staged, kills, restored>>
    BY DEF ReplaceFile
  <1>1. data' = [data EXCEPT ![f] = staged[f]] /\ todo' = todo \ {f}
    BY DEF ReplaceFile, Replaces
  <1>2. data' \in Contents
    BY <1>1 DEF BackupInv, BackupTypes, Contents
  <1>3. \A g \in Name : data'[g] = IF g = f THEN staged[f] ELSE data[g]
    BY <1>1 DEF BackupInv, BackupTypes, Contents
  <1>4. ReplacedSoFar'
    BY <1>0, <1>1, <1>3 DEF BackupInv, ReplacedSoFar, ReplaceFile, Files
  <1>. QED
    BY <1>0, <1>1, <1>2, <1>4
    DEF BackupInv, BackupTypes, ArchiveIsWhole, RestoreIsComplete

\* A restore returns when nothing is left to replace.
LEMMA RestoredInv == BackupInv /\ Restored => BackupInv'
  <1>. SUFFICES ASSUME BackupInv, Restored PROVE BackupInv'
    OBVIOUS
  <1>1. /\ restored'.files = staged /\ restored'.manifest = data
        /\ restored' \in [files : Contents, manifest : Contents]
    BY DEF BackupInv, BackupTypes, Restored
  <1>2. \A f \in Files(staged) : data[f] = staged[f] /\ staged[f] # Damaged
    BY BackupAssumption
    DEF BackupInv, BackupTypes, Contents, ReplacedSoFar, Restored, Files, Absent, Damaged
  <1>3. RestoreIsComplete'
    BY <1>1, <1>2 DEF RestoreIsComplete, Files
  <1>. QED
    BY <1>1, <1>3, NoDataTyped
    DEF BackupInv, BackupTypes, ReplacedSoFar, ArchiveIsWhole, Restored

LEMMA OtherStepsInv ==
    ASSUME BackupInv,
           StartBackup \/ StartZip \/ StartRestore \/ StartReplacing \/ Kill
    PROVE  BackupInv'
  <1>1. UNCHANGED <<data, dataEdits, archive, restored>>
    BY DEF StartBackup, StartZip, PartWritten, StartRestore, StartReplacing, Kill
  <1>2. /\ staged' \in Contents /\ todo' \subseteq Name
        /\ job' \in {"none", "copy", "zip", "unpack", "replace"}
    BY NoDataTyped
    DEF BackupInv, BackupTypes, StartBackup, StartZip, StartRestore, StartReplacing, Kill,
        Files
  <1>3. job' = "replace" => staged' = staged /\ todo' = Files(staged)
    BY DEF StartBackup, StartZip, StartRestore, StartReplacing, Kill
  <1>4. ReplacedSoFar'
    BY <1>3 DEF ReplacedSoFar
  <1>. QED
    BY <1>1, <1>2, <1>4 DEF BackupInv, BackupTypes, ArchiveIsWhole, RestoreIsComplete

LEMMA BackupStepInv == BackupInv /\ [BackupNext]_backupVars => BackupInv'
  <1>. SUFFICES ASSUME BackupInv, [BackupNext]_backupVars PROVE BackupInv'
    OBVIOUS
  <1>1. ASSUME NEW f \in Name,
               EditData(f) \/ Rot(f) \/ Copy(f) \/ Unpack(f) \/ ReplaceFile(f)
        PROVE  BackupInv'
    BY <1>1, EditDataInv, RotInv, CopyInv, UnpackInv, ReplaceFileInv
  <1>2. CASE Publish \/ Restored
    BY <1>2, PublishInv, RestoredInv
  <1>3. CASE StartBackup \/ StartZip \/ StartRestore \/ StartReplacing \/ Kill
    BY <1>3, OtherStepsInv
  <1>4. CASE UNCHANGED backupVars
    BY <1>4 DEF BackupInv, BackupTypes, ReplacedSoFar, ArchiveIsWhole, RestoreIsComplete,
                backupVars
  <1>. QED
    BY <1>1, <1>2, <1>3, <1>4 DEF BackupNext

\* For any files, any number of changes and kills: the archive is whole or
\* damaged by the disk alone, and a restore that returned left every file as
\* the archive had it.
THEOREM BackupsStaySound == BackupSpec => []BackupIsSound
  BY BackupInitInv, BackupStepInv, BackupInvIsEnough, PTL DEF BackupSpec

-----------------------------------------------------------------------------
(***************************************************************************)
(* KnowledgeIndex. That the three tables agree is inductive with the ids   *)
(* of the rows, which are no other row's; that a chunk has the vector it   *)
(* is owed, with the same of the calls that have not written yet, and with *)
(* what each process knows of the bulk endpoint: it has worked for whoever *)
(* takes its failure for final.                                            *)
(***************************************************************************)

\* A row's id is its own, so the full-text rows that go with a document's
\* chunks are those of no other document.
OwnIds == \A j, k \in parca : j.id = k.id => j = k
TablesInv == TablesAgree /\ OwnIds /\ VectorsUnlessRefused
JobsOwe == \A j \in jobs : j.owed => j.vektor
KnownWorked == \A p \in Process : toplu[p] = "yes" => proved[p]
IndexInv == IndexTypeOK /\ TablesInv /\ JobsOwe /\ KnownWorked

\* The parts of IndexTypeOK that an action leaves alone or changes as one.
JobType == [process : Process, file : File, text : Content, row : 0..written,
            at : {"embedding", "writing"}, vektor : BOOLEAN, owed : BOOLEAN]
WalkType == [at: {"rest", "list", "index", "forget"}, left: SUBSET File, seen: SUBSET File]
TableTypes ==
    /\ imza \in [File -> Content \cup {Gone}]
    /\ belge \in [File -> 0..written]
    /\ \A k \in parca : /\ k.id \in 1..written /\ k.file \in File /\ k.text \in Content
                        /\ k.vektor \in BOOLEAN /\ k.owed \in BOOLEAN
    /\ written \in Nat /\ fts \subseteq 1..written
WorldTypes == disk \in [File -> FileState] /\ rootThere \in BOOLEAN /\ server \in Servers
LearntTypes == toplu \in [Process -> {"unknown", "yes", "no"}] /\ proved \in [Process -> BOOLEAN]
CacheType == onbellek \in [Process -> SUBSET (1..written)]

LEMMA IndexTypes ==
    IndexTypeOK <=> /\ TableTypes /\ WorldTypes /\ LearntTypes /\ CacheType
                    /\ edits \in 0..MaxEdits /\ held \in BOOLEAN
                    /\ jobs \subseteq JobType /\ walk \in WalkType
  BY DEF IndexTypeOK, TableTypes, WorldTypes, LearntTypes, CacheType, JobType, WalkType

LEMMA ContentIsText == ASSUME NEW c \in Content PROVE c # Gone /\ c # Blank /\ c # Refused
  BY FileStates

LEMMA Processes == "panel" \in Process /\ "bilgi" \in Process
  BY DEF Process

LEMMA IndexInitInv == IndexInit => IndexInv
  <1>. SUFFICES ASSUME IndexInit PROVE IndexInv
    OBVIOUS
  <1>1. TableTypes /\ edits \in 0 .. MaxEdits
    BY IndexBounds DEF IndexInit, TableTypes
  <1>2. LearntTypes /\ CacheType /\ jobs \subseteq JobType
    BY DEF IndexInit, LearntTypes, CacheType
  <1>3. walk \in WalkType
    BY DEF IndexInit, Resting, WalkType
  <1>4. disk \in [File -> FileState] /\ server \in Servers
    BY DEF IndexInit, FileState
  <1>5. rootThere \in BOOLEAN /\ held \in BOOLEAN
    BY Zenon DEF IndexInit
  <1>6. IndexTypeOK
    BY <1>1, <1>2, <1>3, <1>4, <1>5, IndexTypes DEF WorldTypes
  <1>7. TablesInv /\ JobsOwe /\ KnownWorked
    BY DEF IndexInit, TablesInv, TablesAgree, OwnIds, VectorsUnlessRefused, JobsOwe, KnownWorked,
           Chunks, Ids
  <1>. QED
    BY <1>6, <1>7 DEF IndexInv

-----------------------------------------------------------------------------
(* Writing and forgetting a document.                                      *)

LEMMA CleanedAgrees ==
    ASSUME TablesInv, NEW f \in File
    PROVE  CleanedFts(f) = Ids(parca \ Chunks(f))
  BY DEF TablesInv, TablesAgree, OwnIds, CleanedFts, Ids, Chunks

LEMMA ForgottenAgrees ==
    ASSUME TableTypes, TablesInv, CacheType, NEW f \in File, NEW p \in Process, Forgotten(f, p)
    PROVE  TableTypes' /\ TablesInv' /\ CacheType' /\ written' = written
  <1>1. /\ imza' = [imza EXCEPT ![f] = Gone] /\ belge' = [belge EXCEPT ![f] = 0]
        /\ parca' = parca \ Chunks(f)
        /\ fts' = Ids(parca \ Chunks(f))
        /\ written' = written /\ onbellek' = [onbellek EXCEPT ![p] = {}]
    BY CleanedAgrees DEF Forgotten
  <1>2. \A g \in File : /\ imza'[g] = IF g = f THEN Gone ELSE imza[g]
                        /\ belge'[g] = IF g = f THEN 0 ELSE belge[g]
    BY <1>1 DEF TableTypes
  <1>3. TableTypes'
    <2>1. fts' \subseteq 1 .. written
      BY <1>1 DEF TableTypes, Ids
    <2>2. belge' \in [File -> 0 .. written] /\ imza' \in [File -> Content \cup {Gone}]
      BY <1>1 DEF TableTypes
    <2>. QED
      BY <1>1, <2>1, <2>2 DEF TableTypes
  <1>4. \A g \in File : Chunks(g)' = IF g = f THEN {} ELSE Chunks(g)
    BY <1>1 DEF Chunks
  <1>5. \A g \in File : {k.text : k \in Chunks(g)}' = {imza[g]}' \ {Gone}
    BY <1>2, <1>4 DEF TablesInv, TablesAgree
  <1>6. \A g \in File : belge'[g] = 0 <=> imza'[g] = Gone
    BY <1>2 DEF TablesInv, TablesAgree
  <1>7. TablesAgree'
    BY <1>1, <1>5, <1>6 DEF TablesInv, TablesAgree, Ids
  <1>8. OwnIds' /\ VectorsUnlessRefused'
    BY <1>1 DEF TablesInv, OwnIds, VectorsUnlessRefused
  <1>9. CacheType'
    BY <1>1 DEF CacheType
  <1>. QED
    BY <1>1, <1>3, <1>7, <1>8, <1>9 DEF TablesInv

LEMMA WroteAgrees ==
    ASSUME TableTypes, TablesInv, CacheType, NEW j \in JobType, j.owed => j.vektor, Wrote(j)
    PROVE  TableTypes' /\ TablesInv' /\ CacheType' /\ written' = written + 1
  <1>. DEFINE f == j.file
              k == [id |-> written + 1, file |-> f, text |-> j.text,
                    vektor |-> j.vektor, owed |-> j.owed]
  <1>0. /\ written \in Nat /\ f \in File /\ j.text \in Content /\ j.process \in Process
        /\ j.row \in 0 .. written /\ j.vektor \in BOOLEAN /\ j.owed \in BOOLEAN
    BY DEF TableTypes, JobType
  <1>1. /\ imza' = [imza EXCEPT ![f] = j.text] /\ belge' = [belge EXCEPT ![f] = Row(j)]
        /\ parca' = (parca \ Chunks(f)) \cup {k}
        /\ fts' = CleanedFts(f) \cup {k.id}
        /\ written' = written + 1 /\ onbellek' = [onbellek EXCEPT ![j.process] = {}]
    BY DEF Wrote
  <1>2. k.vektor = j.vektor /\ k.owed = j.owed
    OBVIOUS
  <1>3. k.id = written + 1 /\ k.file = f /\ k.text = j.text
    OBVIOUS
  <1>4. Row(j) \in 1 .. written + 1
    BY <1>0 DEF Row
  <1>. HIDE DEF k, f
  <1>5. \A g \in File : /\ imza'[g] = IF g = f THEN j.text ELSE imza[g]
                        /\ belge'[g] = IF g = f THEN Row(j) ELSE belge[g]
    BY <1>1 DEF TableTypes
  <1>6. fts' = Ids(parca')
    BY <1>0, <1>1, CleanedAgrees DEF Ids
  <1>7. \A i \in parca : i.id \in 1 .. written
    BY DEF TableTypes
  <1>8. TableTypes'
    <2>1. \A i \in parca' : /\ i.id \in 1 .. written' /\ i.file \in File /\ i.text \in Content
                            /\ i.vektor \in BOOLEAN /\ i.owed \in BOOLEAN
      <3>. SUFFICES ASSUME NEW i \in parca'
                    PROVE  /\ i.id \in 1 .. written' /\ i.file \in File /\ i.text \in Content
                           /\ i.vektor \in BOOLEAN /\ i.owed \in BOOLEAN
        OBVIOUS
      <3>1. CASE i = k
        <4>1. i.vektor \in BOOLEAN /\ i.owed \in BOOLEAN
          BY <1>0, <1>2, <3>1
        <4>. QED
          BY <1>0, <1>1, <1>3, <3>1, <4>1
      <3>2. CASE i \in parca
        BY <1>0, <1>1, <3>2 DEF TableTypes
      <3>. QED
        BY <1>1, <3>1, <3>2
    <2>2. fts' \subseteq 1 .. written'
      BY <1>6, <2>1 DEF Ids
    <2>3. imza' \in [File -> Content \cup {Gone}]
      BY <1>0, <1>1 DEF TableTypes
    <2>4. belge' \in [File -> 0 .. written']
      <3>1. \A g \in File : belge'[g] \in 0 .. written'
        BY <1>0, <1>1, <1>4, <1>5 DEF TableTypes
      <3>. QED
        BY <1>1, <3>1 DEF TableTypes
    <2>. QED
      BY <1>0, <1>1, <2>1, <2>2, <2>3, <2>4 DEF TableTypes
  <1>9. \A g \in File : Chunks(g)' = IF g = f THEN {k} ELSE Chunks(g)
    BY <1>1, <1>3 DEF Chunks
  <1>10. \A g \in File : {i.text : i \in Chunks(g)}' = {imza[g]}' \ {Gone}
    <2>1. j.text # Gone
      BY <1>0, ContentIsText
    <2>2. {i.text : i \in Chunks(f)}' = {j.text}
      BY <1>0, <1>3, <1>9
    <2>3. ASSUME NEW g \in File, g # f
          PROVE  {i.text : i \in Chunks(g)}' = {imza[g]} \ {Gone}
      BY <1>9, <2>3 DEF TablesInv, TablesAgree
    <2>. QED
      BY <1>5, <2>1, <2>2, <2>3
  <1>11. \A g \in File : belge'[g] = 0 <=> imza'[g] = Gone
    <2>1. j.text # Gone /\ Row(j) # 0
      BY <1>0, <1>4, ContentIsText
    <2>. QED
      BY <1>5, <2>1 DEF TablesInv, TablesAgree
  <1>12. TablesAgree'
    <2>1. \A g \in File, i, h \in parca' : i.file = g /\ h.file = g => i = h
      BY <1>1, <1>3 DEF TablesInv, TablesAgree, Chunks
    <2>. QED
      BY <1>6, <1>10, <1>11, <2>1 DEF TablesAgree
  <1>13. OwnIds'
    BY <1>0, <1>1, <1>3, <1>7 DEF TablesInv, OwnIds
  <1>14. VectorsUnlessRefused'
    BY <1>1, <1>2 DEF TablesInv, VectorsUnlessRefused
  <1>15. CacheType'
    BY <1>0, <1>1 DEF CacheType
  <1>. QED
    BY <1>1, <1>8, <1>12, <1>13, <1>14, <1>15 DEF TablesInv

-----------------------------------------------------------------------------
(* The embedder.                                                           *)

\* A call that is owed a vector gets one: only an endpoint that has worked
\* for this process can make it give up.
LEMMA OwedIsEmbedded ==
    ASSUME KnownWorked, NEW p \in Process, Owed(p)
    PROVE  Embeds(p)
  BY DEF KnownWorked, Owed, Embeds, Raises

LEMMA LearnsKnown ==
    ASSUME LearntTypes, KnownWorked, NEW p \in Process, Learns(p)
    PROVE  LearntTypes' /\ KnownWorked'
  <1>1. (IF BulkAnswers(p) \/ Raises(p) THEN "yes" ELSE "no") \in {"unknown", "yes", "no"}
    OBVIOUS
  <1>2. BulkAnswers(p) \in BOOLEAN /\ (proved[p] \/ BulkAnswers(p)) \in BOOLEAN
    BY Zenon DEF BulkAnswers
  <1>3. LearntTypes'
    BY <1>1, <1>2 DEF LearntTypes, Learns
  <1>4. Raises(p) => proved[p]
    BY DEF KnownWorked, Raises
  <1>5. \A q \in Process :
           /\ toplu'[q] = IF q = p THEN IF BulkAnswers(p) \/ Raises(p) THEN "yes" ELSE "no"
                          ELSE toplu[q]
           /\ proved'[q] = IF q = p THEN proved[p] \/ BulkAnswers(p) ELSE proved[q]
    BY DEF LearntTypes, Learns
  <1>6. ASSUME NEW q \in Process, toplu'[q] = "yes" PROVE proved'[q]
    <2>1. CASE q = p
      BY <1>4, <1>5, <1>6, <2>1
    <2>2. CASE q # p
      BY <1>5, <1>6, <2>2 DEF KnownWorked
    <2>. QED
      BY <2>1, <2>2
  <1>. QED
    BY <1>3, <1>6 DEF KnownWorked

-----------------------------------------------------------------------------
(* The steps.                                                              *)

\* A step that writes no table.
LEMMA TablesKept ==
    ASSUME IndexInv, UNCHANGED tables, WorldTypes', edits' \in 0..MaxEdits, held' \in BOOLEAN,
           LearntTypes', KnownWorked', CacheType', walk' \in WalkType,
           jobs' \subseteq JobType, JobsOwe'
    PROVE  IndexInv'
  <1>1. TableTypes' /\ JobType' = JobType
    BY IndexTypes DEF IndexInv, TableTypes, JobType, tables
  <1>2. TablesInv'
    BY DEF IndexInv, TablesInv, TablesAgree, OwnIds, VectorsUnlessRefused, Chunks, Ids, tables
  <1>3. IndexTypeOK'
    <2>1. IndexTypeOK' <=> (/\ TableTypes /\ WorldTypes /\ LearntTypes /\ CacheType
                            /\ edits \in 0..MaxEdits /\ held \in BOOLEAN
                            /\ jobs \subseteq JobType /\ walk \in WalkType)'
      BY IndexTypes, PTL
    <2>2. jobs' \subseteq JobType'
      BY <1>1
    <2>3. WalkType' = WalkType
      BY DEF WalkType
    <2>. QED
      BY <1>1, <2>1, <2>2, <2>3
  <1>. QED
    BY <1>2, <1>3 DEF IndexInv

\* A step that writes tables and calls, each in its own way, and no more.
LEMMA TablesWritten ==
    ASSUME IndexInv, TableTypes', TablesInv', CacheType', written' \in {written, written + 1},
           UNCHANGED <<world, learnt>>, edits' \in 0..MaxEdits, held' \in BOOLEAN,
           walk' \in WalkType, jobs' \subseteq jobs
    PROVE  IndexInv'
  <1>1. TableTypes /\ jobs \subseteq JobType /\ WorldTypes /\ LearntTypes
    BY IndexTypes DEF IndexInv
  <1>2. jobs' \subseteq JobType'
    <2>1. 0 .. written \subseteq 0 .. written'
      BY <1>1 DEF TableTypes
    <2>2. JobType \subseteq JobType'
      BY <2>1 DEF JobType
    <2>. QED
      BY <1>1, <2>2
  <1>3. WorldTypes' /\ LearntTypes' /\ KnownWorked'
    BY <1>1 DEF IndexInv, WorldTypes, LearntTypes, KnownWorked, world, learnt
  <1>4. JobsOwe'
    BY DEF IndexInv, JobsOwe
  <1>5. WalkType' = WalkType
    BY DEF WalkType
  <1>6. IndexTypeOK' <=> (/\ TableTypes /\ WorldTypes /\ LearntTypes /\ CacheType
                          /\ edits \in 0..MaxEdits /\ held \in BOOLEAN
                          /\ jobs \subseteq JobType /\ walk \in WalkType)'
    BY IndexTypes, PTL
  <1>. QED
    BY <1>2, <1>3, <1>4, <1>5, <1>6 DEF IndexInv

\* index_text of any process: what is not a text is forgotten, a text noted.
LEMMA IndexTextInv ==
    ASSUME IndexInv, NEW f \in File, NEW p \in Process, NEW gom \in BOOLEAN,
           ~NothingToDo(f), index_text(f, p, gom), UNCHANGED <<world, learnt>>,
           edits' \in 0 .. MaxEdits, walk' \in WalkType
    PROVE  IndexInv'
  <1>0. /\ TablesInv /\ TableTypes /\ CacheType /\ WorldTypes /\ LearntTypes
        /\ held \in BOOLEAN /\ jobs \subseteq JobType /\ JobsOwe /\ KnownWorked
    BY IndexTypes DEF IndexInv
  <1>1. CASE disk[f] = Blank
    <2>1. Forgotten(f, p) /\ Frees(p) /\ UNCHANGED jobs
      BY <1>1 DEF index_text
    <2>2. held' \in BOOLEAN
      BY <1>0, <2>1 DEF Frees
    <2>3. TableTypes' /\ TablesInv' /\ CacheType' /\ written' = written
      BY <1>0, <2>1, ForgottenAgrees
    <2>. QED
      BY <2>1, <2>2, <2>3, TablesWritten
  <1>2. CASE disk[f] # Blank
    <2>. DEFINE j == [process |-> p, file |-> f, text |-> disk[f], row |-> belge[f],
                      at |-> IF gom THEN "embedding" ELSE "writing",
                      vektor |-> FALSE, owed |-> FALSE]
    <2>1. jobs' = jobs \cup {j} /\ UNCHANGED <<tables, onbellek, held>>
      BY <1>2 DEF index_text
    <2>2. disk[f] \in Content /\ belge[f] \in 0 .. written
      BY <1>0, <1>2 DEF NothingToDo, Indexable, TableTypes
    <2>3. j \in JobType /\ ~j.owed
      <3>1. (IF gom THEN "embedding" ELSE "writing") \in {"embedding", "writing"}
        OBVIOUS
      <3>. QED
        BY <2>2, <3>1 DEF JobType
    <2>. HIDE DEF j
    <2>4. jobs' \subseteq JobType /\ JobsOwe'
      BY <1>0, <2>1, <2>3 DEF JobsOwe
    <2>5. WorldTypes' /\ LearntTypes' /\ KnownWorked'
      BY <1>0 DEF WorldTypes, LearntTypes, KnownWorked, world, learnt
    <2>6. CacheType' /\ held' \in BOOLEAN
      BY <1>0, <2>1 DEF CacheType, tables
    <2>. QED
      BY <2>1, <2>4, <2>5, <2>6, TablesKept
  <1>. QED
    BY <1>1, <1>2

LEMMA EmbeddedInv == ASSUME IndexInv, NEW j \in jobs, Embedded(j) PROVE IndexInv'
  <1>0. /\ CacheType /\ WorldTypes /\ LearntTypes /\ walk \in WalkType /\ edits \in 0 .. MaxEdits
        /\ held \in BOOLEAN /\ jobs \subseteq JobType /\ JobsOwe /\ KnownWorked
    BY IndexTypes DEF IndexInv
  <1>. DEFINE done == [j EXCEPT !.at = "writing", !.vektor = Embeds(j.process),
                                !.owed = Owed(j.process)]
  <1>1. j \in JobType /\ j.process \in Process
    BY <1>0 DEF JobType
  <1>2. Embeds(j.process) \in BOOLEAN /\ Owed(j.process) \in BOOLEAN
    BY Zenon DEF Embeds, Owed, BulkAnswers, Raises
  <1>3. done \in JobType /\ done.vektor = Embeds(j.process) /\ done.owed = Owed(j.process)
    BY <1>1, <1>2 DEF JobType
  <1>4. done.owed => done.vektor
    BY <1>0, <1>1, <1>3, OwedIsEmbedded
  <1>5. /\ jobs' = (jobs \ {j}) \cup {done} /\ Learns(j.process)
        /\ UNCHANGED <<world, edits, tables, held, onbellek, walk>>
    BY DEF Embedded
  <1>. HIDE DEF done
  <1>6. jobs' \subseteq JobType /\ JobsOwe'
    BY <1>0, <1>3, <1>4, <1>5 DEF JobsOwe
  <1>7. LearntTypes' /\ KnownWorked'
    BY <1>0, <1>1, <1>5, LearnsKnown
  <1>8. WorldTypes' /\ CacheType'
    BY <1>0, <1>5 DEF WorldTypes, CacheType, world, tables
  <1>. QED
    BY <1>0, <1>5, <1>6, <1>7, <1>8, TablesKept

LEMMA WritesInv == ASSUME IndexInv, NEW j \in jobs, Writes(j) PROVE IndexInv'
  <1>0. /\ TablesInv /\ TableTypes /\ CacheType /\ WorldTypes /\ LearntTypes /\ walk \in WalkType
        /\ edits \in 0 .. MaxEdits /\ held \in BOOLEAN /\ jobs \subseteq JobType /\ JobsOwe
    BY IndexTypes DEF IndexInv
  <1>1. jobs' \subseteq jobs /\ UNCHANGED <<world, edits, learnt>>
    BY DEF Writes
  <1>2. CASE Fits(j)
    <2>1. Wrote(j) /\ Frees(j.process) /\ UNCHANGED walk
      BY <1>2 DEF Writes
    <2>2. j \in JobType /\ (j.owed => j.vektor)
      BY <1>0 DEF JobsOwe
    <2>3. TableTypes' /\ TablesInv' /\ CacheType' /\ written' = written + 1
      BY <1>0, <2>1, <2>2, WroteAgrees
    <2>4. held' \in BOOLEAN
      BY <1>0, <2>1 DEF Frees
    <2>. QED
      BY <1>0, <1>1, <2>1, <2>3, <2>4, TablesWritten
  <1>3. CASE ~Fits(j)
    <2>1. UNCHANGED <<tables, onbellek>> /\ walk' \in {Resting, walk}
      BY <1>3 DEF Writes
    <2>2. held' \in BOOLEAN
      BY <1>0, <1>3 DEF Writes
    <2>3. Resting \in WalkType
      BY DEF Resting, WalkType
    <2>4. TableTypes' /\ TablesInv' /\ CacheType' /\ written' = written
      BY <1>0, <2>1 DEF TableTypes, CacheType, TablesInv, TablesAgree, OwnIds, VectorsUnlessRefused,
                        Chunks, Ids, tables
    <2>. QED
      BY <1>0, <1>1, <2>1, <2>2, <2>3, <2>4, TablesWritten
  <1>. QED
    BY <1>2, <1>3

\* A step that moves only the walk.
LEMMA WalkInv ==
    ASSUME IndexInv, UNCHANGED <<world, edits, tables, jobs, held, learnt, onbellek>>,
           walk' \in WalkType
    PROVE  IndexInv'
  <1>1. /\ CacheType /\ WorldTypes /\ LearntTypes /\ edits \in 0 .. MaxEdits
        /\ held \in BOOLEAN /\ jobs \subseteq JobType /\ JobsOwe /\ KnownWorked
    BY IndexTypes DEF IndexInv
  <1>2. CacheType' /\ WorldTypes' /\ LearntTypes' /\ JobsOwe' /\ KnownWorked'
    BY <1>1 DEF CacheType, WorldTypes, LearntTypes, JobsOwe, KnownWorked, world, tables, learnt
  <1>. QED
    BY <1>1, <1>2, TablesKept

LEMMA SyncInv == IndexInv /\ Sync => IndexInv'
  <1>. SUFFICES ASSUME IndexInv, Sync PROVE IndexInv'
    OBVIOUS
  <1>0. /\ walk \in WalkType /\ edits \in 0 .. MaxEdits /\ held \in BOOLEAN
        /\ TableTypes /\ TablesInv /\ CacheType
    BY IndexTypes DEF IndexInv
  <1>1. CASE SyncBegins
    BY <1>0, <1>1, WalkInv DEF SyncBegins, Moves, WalkType
  <1>2. CASE SyncLists
    <2>1. Listed \subseteq File
      BY DEF Listed
    <2>. QED
      BY <1>2, <2>1, WalkInv DEF SyncLists, Moves, WalkType
  <1>3. CASE SyncForgets
    <2>1. Unlisted \subseteq File
      BY DEF Unlisted
    <2>. QED
      BY <1>0, <1>3, <2>1, WalkInv DEF SyncForgets, Moves, WalkType
  <1>4. CASE SyncEnds
    BY <1>4, WalkInv DEF SyncEnds, Moves, WalkType, Resting
  <1>5. ASSUME NEW f \in File, SyncIndexes(f) PROVE IndexInv'
    <2>1. walk' \in WalkType /\ UNCHANGED <<world, edits, learnt>>
      BY <1>0, <1>5 DEF SyncIndexes, WalkType
    <2>2. CASE NothingToDo(f) \/ ~rootThere
      BY <1>5, <2>1, <2>2, WalkInv DEF SyncIndexes
    <2>3. CASE ~(NothingToDo(f) \/ ~rootThere)
      <3>1. index_text(f, "panel", TRUE)
        BY <1>5, <2>3 DEF SyncIndexes
      <3>. QED
        BY <1>0, <2>1, <2>3, <3>1, Processes, IndexTextInv
    <2>. QED
      BY <2>2, <2>3
  <1>6. ASSUME NEW f \in File, SyncForgetsOne(f) PROVE IndexInv'
    <2>1. walk' \in WalkType /\ UNCHANGED <<world, edits, jobs, learnt>>
      BY <1>0, <1>6 DEF SyncForgetsOne, WalkType
    <2>2. CASE imza[f] = Gone
      BY <1>6, <2>1, <2>2, WalkInv DEF SyncForgetsOne
    <2>3. CASE imza[f] # Gone
      <3>1. Forgotten(f, "panel") /\ held' = FALSE
        BY <1>6, <2>3 DEF SyncForgetsOne, Frees
      <3>2. TableTypes' /\ TablesInv' /\ CacheType' /\ written' = written
        BY <1>0, <3>1, Processes, ForgottenAgrees
      <3>. QED
        BY <1>0, <2>1, <3>1, <3>2, TablesWritten
    <2>. QED
      BY <2>2, <2>3
  <1>7. ASSUME NEW j \in jobs, Embedded(j) \/ Writes(j) PROVE IndexInv'
    BY <1>7, EmbeddedInv, WritesInv
  <1>. QED
    BY <1>1, <1>2, <1>3, <1>4, <1>5, <1>6, <1>7 DEF Sync

LEMMA MoreBounded == ASSUME IndexInv, More PROVE edits' \in 0 .. MaxEdits
  BY IndexBounds DEF IndexInv, IndexTypeOK, More

LEMMA IndexCommandInv == IndexInv /\ Command => IndexInv'
  <1>. SUFFICES ASSUME IndexInv, Command PROVE IndexInv'
    OBVIOUS
  <1>0. /\ walk \in WalkType /\ edits \in 0 .. MaxEdits /\ held \in BOOLEAN
        /\ TableTypes /\ TablesInv /\ CacheType /\ WorldTypes /\ LearntTypes
        /\ jobs \subseteq JobType /\ JobsOwe /\ KnownWorked
    BY IndexTypes DEF IndexInv
  <1>1. ASSUME NEW f \in File, NEW gom \in BOOLEAN, ekle(f, gom) PROVE IndexInv'
    <2>1. /\ index_text(f, "bilgi", gom) /\ ~NothingToDo(f) /\ More
          /\ UNCHANGED <<world, learnt, walk>>
      BY <1>1 DEF ekle
    <2>. QED
      BY <1>0, <2>1, Processes, MoreBounded, IndexTextInv
  <1>2. ASSUME NEW f \in File, unut(f) PROVE IndexInv'
    <2>1. /\ Forgotten(f, "bilgi") /\ More /\ UNCHANGED <<world, jobs, held, learnt, walk>>
      BY <1>2 DEF unut
    <2>2. TableTypes' /\ TablesInv' /\ CacheType' /\ written' = written
      BY <1>0, <2>1, Processes, ForgottenAgrees
    <2>. QED
      BY <1>0, <2>1, <2>2, MoreBounded, TablesWritten
  <1>3. CASE sifirla
    <2>1. /\ belge' = [f \in File |-> 0] /\ imza' = [f \in File |-> Gone] /\ parca' = {}
          /\ fts' = {} /\ written' = written /\ onbellek' = [onbellek EXCEPT !["bilgi"] = {}]
          /\ More /\ UNCHANGED <<world, jobs, held, learnt, walk>>
      BY <1>3 DEF sifirla
    <2>2. CacheType'
      BY <1>0, <2>1 DEF CacheType
    <2>3. TableTypes'
      BY <1>0, <2>1 DEF TableTypes
    <2>4. TablesInv'
      BY <2>1 DEF TablesInv, TablesAgree, OwnIds, VectorsUnlessRefused, Chunks, Ids
    <2>. QED
      BY <1>0, <2>1, <2>2, <2>3, <2>4, MoreBounded, TablesWritten
  <1>4. CASE bilgiEnds
    <2>1. /\ jobs' \subseteq jobs /\ toplu' = [toplu EXCEPT !["bilgi"] = "unknown"]
          /\ proved' = [proved EXCEPT !["bilgi"] = FALSE]
          /\ onbellek' = [onbellek EXCEPT !["bilgi"] = {}]
          /\ UNCHANGED <<world, edits, tables, held, walk>>
      BY <1>4 DEF bilgiEnds
    <2>2. LearntTypes' /\ KnownWorked'
      BY <1>0, <2>1 DEF LearntTypes, KnownWorked
    <2>3. CacheType' /\ WorldTypes' /\ JobsOwe' /\ jobs' \subseteq JobType
      BY <1>0, <2>1 DEF CacheType, WorldTypes, JobsOwe, world, tables
    <2>. QED
      BY <1>0, <2>1, <2>2, <2>3, TablesKept
  <1>5. ASSUME NEW j \in jobs, Embedded(j) \/ Writes(j) PROVE IndexInv'
    BY <1>5, EmbeddedInv, WritesInv
  <1>. QED
    BY <1>1, <1>2, <1>3, <1>4, <1>5 DEF Command

LEMMA SearchInv == IndexInv /\ search => IndexInv'
  <1>. SUFFICES ASSUME IndexInv, search PROVE IndexInv'
    OBVIOUS
  <1>0. /\ walk \in WalkType /\ edits \in 0 .. MaxEdits /\ held \in BOOLEAN
        /\ TableTypes /\ CacheType /\ WorldTypes /\ LearntTypes
        /\ jobs \subseteq JobType /\ JobsOwe /\ KnownWorked
    BY IndexTypes DEF IndexInv
  <1>1. Loaded \subseteq 1 .. written
    BY <1>0, Processes DEF TableTypes, CacheType, Loaded, Vectors
  <1>2. UNCHANGED <<world, edits, tables, jobs, held, walk>>
    BY DEF search
  <1>3. CacheType'
    BY <1>0, <1>1, <1>2 DEF CacheType, search, tables
  <1>4. LearntTypes' /\ KnownWorked'
    <2>1. CASE Loaded = {}
      BY <1>0, <2>1 DEF search, LearntTypes, KnownWorked, learnt
    <2>2. CASE Loaded # {}
      BY <1>0, <2>2, Processes, LearnsKnown DEF search
    <2>. QED
      BY <2>1, <2>2
  <1>5. WorldTypes' /\ JobsOwe'
    BY <1>0, <1>2 DEF WorldTypes, JobsOwe, world
  <1>. QED
    BY <1>0, <1>2, <1>3, <1>4, <1>5, TablesKept

LEMMA EditInv == IndexInv /\ Edit => IndexInv'
  <1>. SUFFICES ASSUME IndexInv, Edit PROVE IndexInv'
    OBVIOUS
  <1>0. /\ walk \in WalkType /\ held \in BOOLEAN /\ CacheType /\ WorldTypes /\ LearntTypes
        /\ jobs \subseteq JobType /\ JobsOwe /\ KnownWorked
    BY IndexTypes DEF IndexInv
  <1>1. UNCHANGED <<tables, jobs, held, learnt, onbellek, walk>>
    BY DEF Edit
  <1>2. disk' \in [File -> FileState] /\ server' \in Servers
    BY <1>0 DEF Edit, WorldTypes
  <1>3. rootThere' \in BOOLEAN
    BY <1>0 DEF Edit, WorldTypes
  <1>4. edits' \in 0 .. MaxEdits
    BY MoreBounded DEF Edit
  <1>5. LearntTypes' /\ KnownWorked' /\ CacheType' /\ JobsOwe'
    BY <1>0, <1>1 DEF LearntTypes, KnownWorked, CacheType, JobsOwe, tables, learnt
  <1>. QED
    BY <1>0, <1>1, <1>2, <1>3, <1>4, <1>5, TablesKept DEF WorldTypes

LEMMA IndexStepInv == IndexInv /\ [IndexNext]_indexVars => IndexInv'
  <1>. SUFFICES ASSUME IndexInv, [IndexNext]_indexVars PROVE IndexInv'
    OBVIOUS
  <1>1. CASE UNCHANGED indexVars
    <2>1. walk' \in WalkType
      BY <1>1, IndexTypes DEF IndexInv, WalkType, indexVars
    <2>. QED
      BY <1>1, <2>1, WalkInv DEF indexVars
  <1>. QED
    BY <1>1, SyncInv, IndexCommandInv, SearchInv, EditInv DEF IndexNext

\* For any files, texts and number of commands of the second process: the
\* three tables agree after every commit, however the two processes meet
\* between looking up and writing, and a chunk that was embedded while the
\* one-by-one endpoint answered has its vector, unless the bulk endpoint,
\* which had worked for that process, failed.
THEOREM IndexStaysSound == IndexSpec => []IndexIsSound
  <1>1. IndexInv => IndexIsSound
    BY DEF IndexInv, TablesInv, IndexIsSound
  <1>. QED
    BY <1>1, IndexInitInv, IndexStepInv, PTL DEF IndexSpec

-----------------------------------------------------------------------------
(***************************************************************************)
(* AuditTrail. TrailIsWhole is inductive in this form: each file is in     *)
(* order, a higher archive is older than a lower one, nothing younger than *)
(* a lost record is lost, and a rotation under way has made room for the   *)
(* file it moves next.                                                     *)
(***************************************************************************)

TrailTypes ==
  /\ file \in [LogFile -> Seq(Nat)]
  /\ records \in 0 .. MaxRecords /\ lost \subseteq 1 .. records /\ number \in 0 .. Archives
  /\ doing \in {"idle", "rotate", "unlink", "shift", "first", "append"}

KeptLines(n) == InSeq(Lines(n))

\* Each file is in order, a higher archive is older than a lower one, and
\* nothing is in a file that has not been made.
FilesInOrder ==
  /\ \A n \in LogFile : \A i, j \in DOMAIN Lines(n) : i < j => Lines(n)[i] < Lines(n)[j]
  /\ \A n, m \in LogFile : m < n => \A a \in KeptLines(n), b \in KeptLines(m) : a < b
  /\ \A n \in LogFile : KeptLines(n) \subseteq 1 .. Made

NewestKept ==
  \A k \in Written, n \in LogFile : \A m \in KeptLines(n) :
    m < k => \E l \in LogFile : k \in KeptLines(l)

\* A rotation under way has made room for the file it moves next, and it is
\* for a full journal that the oldest archive is given up.
RoomAhead ==
  /\ doing = "unlink" => Len(file[0]) >= PerFile /\ FileExists(0)
  /\ doing = "shift" => number < Archives /\ ~FileExists(number + 1)
  /\ doing = "first" => ~FileExists(1)
  /\ doing # "idle" => records >= 1

TrailInv == TrailTypes /\ FilesInOrder /\ NewestKept /\ RoomAhead

LEMMA TrailNumbers == /\ Archives \in Nat \ {0} /\ 0 \in LogFile /\ 1 \in LogFile
                      /\ Archives \in LogFile /\ LogFile \subseteq Nat
  BY TrailAssumption DEF LogFile

LEMMA LinesType ==
    ASSUME TrailTypes, NEW n \in LogFile
    PROVE  Lines(n) \in Seq(Nat) /\ KeptLines(n) \subseteq Nat
  <1>1. Lines(n) \in Seq(Nat)
    BY DEF TrailTypes, Lines
  <1>. QED
    BY <1>1 DEF KeptLines, InSeq

-----------------------------------------------------------------------------
(* What the steps do to the lines of the files.                            *)

\* A file moved to a place without a file.
LEMMA MovedFile ==
    ASSUME TrailTypes, NEW a \in LogFile, NEW b \in LogFile, a # b,
           file' = [file EXCEPT ![b] = file[a], ![a] = NoFile]
    PROVE  /\ file' \in [LogFile -> Seq(Nat)]
           /\ \A n \in LogFile : Lines(n)' = IF n = b THEN Lines(a)
                                             ELSE IF n = a THEN <<>> ELSE Lines(n)
  <1>1. NoFile \in Seq(Nat)
    BY DEF NoFile
  <1>2. file' \in [LogFile -> Seq(Nat)]
    BY <1>1 DEF TrailTypes
  <1>3. \A n \in LogFile : file'[n] = IF n = a THEN NoFile ELSE IF n = b THEN file[a] ELSE file[n]
    BY DEF TrailTypes
  <1>. QED
    BY <1>2, <1>3 DEF Lines, FileExists

LEMMA MoveKeepsOrder ==
    ASSUME TrailInv, NEW a \in LogFile, a + 1 \in LogFile, ~FileExists(a + 1),
           file' = [file EXCEPT ![a + 1] = file[a], ![a] = NoFile],
           UNCHANGED <<records, lost>>, doing # "idle", doing' # "idle"
    PROVE  FilesInOrder' /\ NewestKept' /\ file' \in [LogFile -> Seq(Nat)]
  <1>0. a \in Nat /\ a # a + 1 /\ \A n \in LogFile : n \in Nat
    BY TrailNumbers
  <1>1. /\ file' \in [LogFile -> Seq(Nat)]
        /\ \A n \in LogFile : Lines(n)' = IF n = a + 1 THEN Lines(a)
                                          ELSE IF n = a THEN <<>> ELSE Lines(n)
    BY <1>0, MovedFile DEF TrailInv
  <1>2. Lines(a + 1) = <<>>
    BY DEF Lines
  <1>3. InSeq(<<>>) = {}
    BY DEF InSeq
  <1>4. \A n \in LogFile : KeptLines(n)' = IF n = a + 1 THEN KeptLines(a) ELSE IF n = a THEN {} ELSE KeptLines(n)
    BY <1>1, <1>3 DEF KeptLines
  <1>5. KeptLines(a + 1) = {}
    BY <1>2, <1>3 DEF KeptLines
  <1>6. Made' = Made /\ Written' = Written
    BY DEF Made, Written
  <1>7. FilesInOrder'
    <2>1. \A n \in LogFile : \A i, j \in DOMAIN Lines(n)' : i < j => Lines(n)'[i] < Lines(n)'[j]
      BY <1>0, <1>1 DEF TrailInv, FilesInOrder
    <2>2. \A n, m \in LogFile : m < n => \A x \in KeptLines(n)', y \in KeptLines(m)' : x < y
      <3>. TAKE n, m \in LogFile
      <3>. HAVE m < n
      <3>1. CASE n = a + 1
        BY <1>0, <1>4, <3>1 DEF TrailInv, FilesInOrder
      <3>2. CASE n # a + 1 /\ m = a + 1
        BY <1>0, <1>4, <3>2 DEF TrailInv, FilesInOrder
      <3>3. CASE n # a + 1 /\ m # a + 1
        BY <1>0, <1>4, <3>3 DEF TrailInv, FilesInOrder
      <3>. QED
        BY <3>1, <3>2, <3>3
    <2>3. \A n \in LogFile : KeptLines(n)' \subseteq 1 .. Made'
      BY <1>4, <1>6 DEF TrailInv, FilesInOrder
    <2>. QED
      BY <2>1, <2>2, <2>3 DEF FilesInOrder
  <1>8. NewestKept'
    <2>1. \A k : (\E l \in LogFile : k \in KeptLines(l)') <=> (\E l \in LogFile : k \in KeptLines(l))
      BY <1>0, <1>4, <1>5
    <2>. QED
      BY <1>6, <2>1 DEF TrailInv, NewestKept
  <1>. QED
    BY <1>1, <1>7, <1>8

LEMMA SameFiles ==
    ASSUME TrailInv, UNCHANGED file, Made' = Made, Written' = Written
    PROVE  FilesInOrder' /\ NewestKept'
  <1>1. \A n \in LogFile : Lines(n)' = Lines(n) /\ KeptLines(n)' = KeptLines(n)
    BY DEF Lines, FileExists, KeptLines
  <1>. QED
    BY <1>1 DEF TrailInv, FilesInOrder, NewestKept

-----------------------------------------------------------------------------
LEMMA TrailInitInv == TrailInit => TrailInv
  <1>. SUFFICES ASSUME TrailInit PROVE TrailInv
    OBVIOUS
  <1>1. TrailTypes
    <2>1. NoFile \in Seq(Nat)
      BY DEF NoFile
    <2>. QED
      BY <2>1, TrailAssumption, TrailNumbers DEF TrailInit, TrailTypes
  <1>2. \A n \in LogFile : Lines(n) = <<>> /\ KeptLines(n) = {}
    BY DEF TrailInit, Lines, FileExists, KeptLines, InSeq
  <1>. QED
    BY <1>1, <1>2 DEF TrailInit, TrailInv, FilesInOrder, NewestKept, RoomAhead

LEMMA TrailStepInv == TrailInv /\ [TrailNext]_trailVars => TrailInv'
  <1>. SUFFICES ASSUME TrailInv, [TrailNext]_trailVars PROVE TrailInv'
    OBVIOUS
  <1>. USE TrailNumbers
  <1>t. TrailTypes /\ RoomAhead
    BY DEF TrailInv
  <1>1. CASE Record
    <2>. UNCHANGED <<file, lost, number>>
      BY <1>1 DEF Record
    <2>1. Made' = Made /\ Written' = Written
      BY <1>1, <1>t DEF Record, Made, Written, TrailTypes
    <2>2. TrailTypes' /\ RoomAhead'
      BY <1>1, <1>t, TrailAssumption DEF Record, TrailTypes, RoomAhead
    <2>. QED
      BY <2>1, <2>2, SameFiles DEF TrailInv
  <1>2. CASE Measure
    <2>. UNCHANGED <<file, records, lost, number>>
      BY <1>2 DEF Measure
    <2>1. Made' = Made /\ Written' = Written
      BY <1>2 DEF Measure, Made, Written
    <2>2. TrailTypes'
      BY <1>2, <1>t DEF Measure, TrailTypes
    <2>3. doing' = "unlink" => Len(file'[0]) >= PerFile /\ FileExists(0)'
      <3>1. file[0] \in Seq(Nat)
        BY <1>t DEF TrailTypes
      <3>2. Len(file[0]) \in Nat /\ PerFile \in Nat
        BY <3>1, TrailAssumption
      <3>3. doing' = "unlink" => FileExists(0) /\ Len(file[0]) + 1 > PerFile
        BY <1>2 DEF Measure, Crosses
      <3>. QED
        BY <3>2, <3>3 DEF FileExists
    <2>4. doing' \in {"unlink", "append"} /\ records' >= 1
      BY <1>2, <1>t DEF Measure, RoomAhead
    <2>5. RoomAhead'
      BY <2>3, <2>4 DEF RoomAhead
    <2>. QED
      BY <2>1, <2>2, <2>5, SameFiles DEF TrailInv
  <1>3. CASE Unlink
    <2>. UNCHANGED <<records, lost>>
      BY <1>3 DEF Unlink
    <2>1. NoFile \in Seq(Nat) /\ InSeq(<<>>) = {}
      BY DEF NoFile, InSeq
    <2>2. /\ file' \in [LogFile -> Seq(Nat)]
          /\ \A n \in LogFile : file'[n] = IF n = Archives THEN NoFile ELSE file[n]
      BY <1>3, <1>t, <2>1 DEF Unlink, TrailTypes
    <2>3. \A n \in LogFile : Lines(n)' = IF n = Archives THEN <<>> ELSE Lines(n)
      BY <2>2 DEF Lines, FileExists
    <2>4. \A n \in LogFile : KeptLines(n)' = IF n = Archives THEN {} ELSE KeptLines(n)
      BY <2>1, <2>3 DEF KeptLines
    <2>5. Made' = Made /\ Written' = Written /\ number' = Archives - 1 /\ doing' = "shift"
      BY <1>3 DEF Unlink, Made, Written
    <2>6. TrailTypes'
      BY <1>t, <2>2, <2>5 DEF TrailTypes
    <2>7. RoomAhead'
      <3>1. number' + 1 = Archives /\ number' < Archives /\ records' >= 1
        BY <1>3, <1>t, <2>5 DEF Unlink, RoomAhead
      <3>. QED
        BY <2>2, <2>5, <3>1 DEF RoomAhead, FileExists
    <2>8. FilesInOrder'
      BY <2>3, <2>4, <2>5 DEF TrailInv, FilesInOrder
    <2>9. NewestKept'
      <3>. SUFFICES ASSUME NEW k \in Written, NEW n \in LogFile, NEW m \in KeptLines(n)', m < k
                    PROVE  \E l \in LogFile : k \in KeptLines(l)'
        BY <2>5 DEF NewestKept
      <3>1. n # Archives /\ m \in KeptLines(n) /\ n < Archives
        BY <2>4 DEF LogFile
      <3>2. PICK l \in LogFile : k \in KeptLines(l)
        BY <3>1 DEF TrailInv, NewestKept
      <3>3. m \in Nat /\ k \in Nat
        BY <1>t, <3>1, <3>2, LinesType
      <3>4. l # Archives
        BY <3>1, <3>2, <3>3 DEF TrailInv, FilesInOrder
      <3>. QED
        BY <2>4, <3>2, <3>4
    <2>. QED
      BY <2>6, <2>7, <2>8, <2>9 DEF TrailInv
  <1>4. CASE Shift
    <2>. UNCHANGED <<records, lost>>
      BY <1>4 DEF Shift
    <2>1. Made' = Made /\ Written' = Written /\ doing = "shift" /\ doing' \in {"shift", "first"}
      BY <1>4 DEF Shift, Made, Written
    <2>2. CASE number = 0
      <3>1. UNCHANGED <<file, number>> /\ doing' = "first"
        BY <1>4, <2>2 DEF Shift
      <3>2. TrailTypes' /\ RoomAhead'
        BY <1>t, <2>1, <2>2, <3>1 DEF TrailTypes, RoomAhead, FileExists
      <3>. QED
        BY <2>1, <3>1, <3>2, SameFiles DEF TrailInv
    <2>3. CASE number # 0 /\ FileExists(number)
      <3>1. /\ file' = [file EXCEPT ![number + 1] = file[number], ![number] = NoFile]
            /\ number' = number - 1 /\ doing' = "shift"
        BY <1>4, <2>3 DEF Shift
      <3>2. /\ number \in LogFile /\ number + 1 \in LogFile /\ ~FileExists(number + 1)
            /\ number' + 1 = number /\ number' < Archives /\ number' \in 0 .. Archives
        BY <1>t, <2>1, <2>3, <3>1 DEF TrailTypes, RoomAhead, LogFile
      <3>3. file'[number] = NoFile
        BY <1>t, <3>1, <3>2 DEF TrailTypes
      <3>4. FilesInOrder' /\ NewestKept' /\ file' \in [LogFile -> Seq(Nat)]
        BY <2>1, <3>1, <3>2, MoveKeepsOrder
      <3>5. TrailTypes'
        BY <1>t, <2>1, <3>1, <3>2, <3>4 DEF TrailTypes
      <3>6. RoomAhead'
        BY <1>t, <2>1, <3>1, <3>2, <3>3 DEF RoomAhead, FileExists
      <3>. QED
        BY <3>4, <3>5, <3>6 DEF TrailInv
    <2>4. CASE number # 0 /\ ~FileExists(number)
      <3>1. UNCHANGED file /\ number' = number - 1 /\ doing' = "shift"
        BY <1>4, <2>4 DEF Shift
      <3>2. number' + 1 = number /\ number' < Archives /\ number' \in 0 .. Archives
        BY <1>t, <2>4, <3>1 DEF TrailTypes, LogFile
      <3>3. TrailTypes' /\ RoomAhead'
        BY <1>t, <2>1, <2>4, <3>1, <3>2 DEF TrailTypes, RoomAhead, FileExists
      <3>. QED
        BY <2>1, <3>1, <3>3, SameFiles DEF TrailInv
    <2>. QED
      BY <2>2, <2>3, <2>4
  <1>5. CASE First
    <2>. UNCHANGED <<records, lost, number>>
      BY <1>5 DEF First
    <2>1. /\ file' = [file EXCEPT ![0 + 1] = file[0], ![0] = NoFile]
          /\ doing = "first" /\ doing' = "append" /\ 0 + 1 = 1 /\ ~FileExists(0 + 1)
      BY <1>5, <1>t DEF First, RoomAhead
    <2>2. FilesInOrder' /\ NewestKept' /\ file' \in [LogFile -> Seq(Nat)]
      BY <2>1, MoveKeepsOrder
    <2>. QED
      BY <1>t, <2>1, <2>2 DEF TrailInv, TrailTypes, RoomAhead
  <1>6. CASE AppendLine
    <2>. UNCHANGED <<records, lost, number>>
      BY <1>6 DEF AppendLine
    <2>1. /\ records \in Nat /\ records >= 1 /\ Made = records - 1 /\ Made' = records
          /\ Written = (1 .. records - 1) \ lost /\ Written' = (1 .. records) \ lost
      BY <1>6, <1>t DEF AppendLine, TrailTypes, RoomAhead, Made, Written
    <2>2. Lines(0) \in Seq(Nat) /\ Append(Lines(0), records) \in Seq(Nat)
      BY <1>t, <2>1, LinesType
    <2>3. /\ Len(Append(Lines(0), records)) = Len(Lines(0)) + 1
          /\ Append(Lines(0), records)[Len(Lines(0)) + 1] = records
          /\ \A i \in 1 .. Len(Lines(0)) : Append(Lines(0), records)[i] = Lines(0)[i]
          /\ Len(Lines(0)) \in Nat
      BY <2>1, <2>2
    <2>4. /\ file' \in [LogFile -> Seq(Nat)]
          /\ \A n \in LogFile : file'[n] = IF n = 0 THEN Append(Lines(0), records) ELSE file[n]
      <3>1. (IF FileExists(0) THEN Append(file[0], records) ELSE <<records>>)
              = Append(Lines(0), records)
        <4>1. <<records>> = Append(<<>>, records)
          OBVIOUS
        <4>. QED
          BY <4>1 DEF Lines
      <3>2. file' = [file EXCEPT ![0] = Append(Lines(0), records)]
        BY <1>6, <3>1 DEF AppendLine
      <3>. QED
        BY <1>t, <2>2, <3>2 DEF TrailTypes
    <2>5. Append(Lines(0), records) # NoFile
      <3>1. Len(NoFile) = 1 /\ NoFile[1] = 0
        BY DEF NoFile
      <3>. QED
        BY <2>1, <2>3, <3>1
    <2>6. \A n \in LogFile : Lines(n)' = IF n = 0 THEN Append(Lines(0), records) ELSE Lines(n)
      BY <2>4, <2>5 DEF Lines, FileExists
    <2>7. \A n \in LogFile : KeptLines(n)' = IF n = 0 THEN KeptLines(0) \cup {records} ELSE KeptLines(n)
      <3>1. InSeq(Append(Lines(0), records)) = InSeq(Lines(0)) \cup {records}
        BY <2>1, <2>2, InAppended
      <3>. QED
        BY <2>6, <3>1 DEF KeptLines
    <2>8. FilesInOrder'
      <3>0. \A n \in LogFile : KeptLines(n) \subseteq 1 .. records - 1
        BY <2>1 DEF TrailInv, FilesInOrder
      <3>1. \A n \in LogFile : \A i, j \in DOMAIN Lines(n)' : i < j => Lines(n)'[i] < Lines(n)'[j]
        <4>1. \A i, j \in DOMAIN Append(Lines(0), records) :
                i < j => Append(Lines(0), records)[i] < Append(Lines(0), records)[j]
          <5>0. DOMAIN Append(Lines(0), records) = 1 .. Len(Lines(0)) + 1
                /\ DOMAIN Lines(0) = 1 .. Len(Lines(0))
            BY <2>2, <2>3
          <5>. SUFFICES ASSUME NEW i \in 1 .. Len(Lines(0)) + 1, NEW j \in 1 .. Len(Lines(0)) + 1, i < j
                        PROVE  Append(Lines(0), records)[i] < Append(Lines(0), records)[j]
            BY <5>0
          <5>1. i \in 1 .. Len(Lines(0))
            BY <2>3
          <5>2. Lines(0)[i] \in 1 .. records - 1
            BY <3>0, <5>0, <5>1 DEF KeptLines, InSeq
          <5>3. CASE j = Len(Lines(0)) + 1
            BY <2>1, <2>3, <5>1, <5>2, <5>3
          <5>4. CASE j # Len(Lines(0)) + 1
            <6>1. j \in 1 .. Len(Lines(0))
              BY <2>3, <5>4
            <6>2. Lines(0)[i] < Lines(0)[j]
              BY <5>0, <5>1, <6>1 DEF TrailInv, FilesInOrder
            <6>. QED
              BY <2>3, <5>1, <6>1, <6>2
          <5>. QED
            BY <5>3, <5>4
        <4>. QED
          BY <2>6, <4>1 DEF TrailInv, FilesInOrder
      <3>2. \A n, m \in LogFile : m < n => \A x \in KeptLines(n)', y \in KeptLines(m)' : x < y
        <4>. SUFFICES ASSUME NEW n \in LogFile, NEW m \in LogFile, m < n,
                             NEW x \in KeptLines(n)', NEW y \in KeptLines(m)'
                      PROVE  x < y
          OBVIOUS
        <4>1. n # 0 /\ x \in KeptLines(n) /\ x \in 1 .. records - 1
          <5>1. n # 0
            OBVIOUS
          <5>. QED
            BY <2>7, <3>0, <5>1
        <4>2. CASE y \in KeptLines(m)
          BY <4>1, <4>2 DEF TrailInv, FilesInOrder
        <4>3. CASE y = records
          BY <2>1, <4>1, <4>3
        <4>. QED
          BY <2>7, <4>2, <4>3
      <3>3. \A n \in LogFile : KeptLines(n)' \subseteq 1 .. Made'
        BY <2>1, <2>7, <3>0
      <3>. QED
        BY <3>1, <3>2, <3>3 DEF FilesInOrder
    <2>9. NewestKept'
      <3>. SUFFICES ASSUME NEW k \in Written', NEW n \in LogFile, NEW m \in KeptLines(n)', m < k
                    PROVE  \E l \in LogFile : k \in KeptLines(l)'
        BY DEF NewestKept
      <3>1. CASE k = records
        BY <2>7, <3>1
      <3>2. CASE k # records
        <4>1. k \in Written
          BY <2>1, <3>2
        <4>2. m \in KeptLines(n)
          BY <2>1, <2>7, <4>1
        <4>3. PICK l \in LogFile : k \in KeptLines(l)
          BY <4>1, <4>2 DEF TrailInv, NewestKept
        <4>. QED
          BY <2>7, <4>3
      <3>. QED
        BY <3>1, <3>2
    <2>10. TrailTypes' /\ RoomAhead'
      BY <1>6, <1>t, <2>4 DEF AppendLine, TrailTypes, RoomAhead
    <2>. QED
      BY <2>8, <2>9, <2>10 DEF TrailInv
  <1>7. CASE RenameRefused
    <2>. UNCHANGED <<file, records>>
      BY <1>7 DEF RenameRefused
    <2>0. \A n \in LogFile : FileExists(n)' = FileExists(n)
      BY DEF FileExists
    <2>1. CASE doing \in {"unlink", "shift", "first"} /\ GiveUp /\ UNCHANGED lost
      <3>1. Made' = Made /\ Written' = Written
        BY <2>1 DEF GiveUp, Made, Written
      <3>2. TrailTypes' /\ RoomAhead'
        BY <1>t, <2>1 DEF GiveUp, TrailTypes, RoomAhead
      <3>. QED
        BY <3>1, <3>2, SameFiles DEF TrailInv
    <2>2. CASE doing = "append" /\ doing' = "idle" /\ lost' = lost \cup {records} /\ UNCHANGED number
      <3>0. records \in Nat /\ records >= 1
        BY <1>t, <2>2 DEF TrailTypes, RoomAhead
      <3>1. Written' = Written /\ Made = records - 1 /\ Made' = records
        BY <2>2, <3>0 DEF Written, Made
      <3>2. TrailTypes' /\ RoomAhead'
        BY <1>t, <2>2, <3>0 DEF TrailTypes, RoomAhead
      <3>3. \A n \in LogFile : Lines(n)' = Lines(n) /\ KeptLines(n)' = KeptLines(n)
        BY DEF Lines, FileExists, KeptLines
      <3>4. FilesInOrder' /\ NewestKept'
        BY <3>0, <3>1, <3>3 DEF TrailInv, FilesInOrder, NewestKept
      <3>. QED
        BY <3>2, <3>4 DEF TrailInv
    <2>. QED
      BY <1>7, <2>1, <2>2 DEF RenameRefused
  <1>8. CASE Crash
    <2>. UNCHANGED <<file, records>>
      BY <1>8 DEF Crash
    <2>0. records \in Nat
      BY <1>t DEF TrailTypes
    <2>1. TrailTypes' /\ RoomAhead'
      BY <1>8, <1>t DEF Crash, TrailTypes, RoomAhead
    <2>2. Written' = Written /\ 1 .. Made \subseteq 1 .. Made'
      BY <1>8, <1>t, <2>0 DEF Crash, Written, Made, RoomAhead
    <2>3. \A n \in LogFile : Lines(n)' = Lines(n) /\ KeptLines(n)' = KeptLines(n)
      BY DEF Lines, FileExists, KeptLines
    <2>4. FilesInOrder' /\ NewestKept'
      <3>1. \A n \in LogFile : KeptLines(n)' \subseteq 1 .. Made'
        BY <2>2, <2>3 DEF TrailInv, FilesInOrder
      <3>. QED
        BY <2>2, <2>3, <3>1 DEF TrailInv, FilesInOrder, NewestKept
    <2>. QED
      BY <2>1, <2>4 DEF TrailInv
  <1>9. CASE UNCHANGED trailVars
    <2>1. UNCHANGED <<file, records, lost, doing, number>>
      BY <1>9 DEF trailVars
    <2>2. Made' = Made /\ Written' = Written /\ TrailTypes' /\ RoomAhead'
      BY <1>t, <2>1 DEF Made, Written, TrailTypes, RoomAhead, FileExists
    <2>. QED
      BY <2>1, <2>2, SameFiles DEF TrailInv
  <1>. QED
    BY <1>1, <1>2, <1>3, <1>4, <1>5, <1>6, <1>7, <1>8, <1>9 DEF TrailNext
-----------------------------------------------------------------------------
(* The trail, read from all the files.                                     *)

TrailStep(f, n) == IF n = 0 THEN Lines(0) ELSE Lines(n) \o f[n - 1]
TrailUpTo == CHOOSE f : f = [n \in LogFile |-> TrailStep(f, n)]

LEMMA TrailIsRead == Trail = TrailUpTo[Archives]
  BY DEF Trail, TrailUpTo, TrailStep

\* The recursive definition has a solution.
LEMMA TrailExists ==
    ASSUME NEW m \in Nat
    PROVE  \E f : f = [n \in 0 .. m |-> TrailStep(f, n)]
  <1>. DEFINE T == {k \in Nat : \E f : f = [n \in 0 .. k |-> TrailStep(f, n)]}
  <1>1. 0 \in T
    <2>1. [n \in 0 .. 0 |-> Lines(0)] = [n \in 0 .. 0 |-> TrailStep([j \in 0 .. 0 |-> Lines(0)], n)]
      BY DEF TrailStep
    <2>. QED
      BY <2>1
  <1>2. ASSUME NEW k \in 0 .. m - 1, k \in T PROVE k + 1 \in T
    <2>1. PICK f : f = [n \in 0 .. k |-> TrailStep(f, n)]
      BY <1>2
    <2>. DEFINE g == [n \in 0 .. k + 1 |-> IF n = k + 1 THEN TrailStep(f, n) ELSE f[n]]
    <2>2. \A n \in 0 .. k : g[n] = f[n] /\ f[n] = TrailStep(f, n)
      BY <2>1
    <2>3. g[k + 1] = TrailStep(f, k + 1) /\ DOMAIN g = 0 .. k + 1
      BY <1>2
    <2>. HIDE DEF g
    <2>4. ASSUME NEW n \in 0 .. k + 1 PROVE g[n] = TrailStep(g, n)
      <3>1. TrailStep(f, n) = TrailStep(g, n)
        BY <1>2, <2>2 DEF TrailStep
      <3>. QED
        BY <1>2, <2>2, <2>3, <3>1
    <2>5. g = [n \in 0 .. k + 1 |-> g[n]]
      BY DEF g
    <2>6. g = [n \in 0 .. k + 1 |-> TrailStep(g, n)]
      BY <2>4, <2>5
    <2>. QED
      BY <1>2, <2>6
  <1>. HIDE DEF T
  <1>3. m \in T
    BY <1>1, <1>2, Induction
  <1>. QED
    BY <1>3 DEF T

LEMMA TrailEquations ==
    /\ TrailUpTo[0] = Lines(0)
    /\ \A n \in 1 .. Archives : TrailUpTo[n] = Lines(n) \o TrailUpTo[n - 1]
  <1>. DEFINE f == TrailUpTo
  <1>1. f = [n \in LogFile |-> TrailStep(f, n)]
    BY TrailExists, TrailNumbers, Zenon DEF TrailUpTo, LogFile
  <1>. HIDE DEF f
  <1>2. \A n \in LogFile : f[n] = TrailStep(f, n)
    BY <1>1
  <1>3. f[0] = Lines(0)
    BY <1>2, TrailNumbers DEF TrailStep
  <1>4. ASSUME NEW n \in 1 .. Archives PROVE f[n] = Lines(n) \o f[n - 1]
    <2>1. n \in LogFile /\ n # 0
      BY TrailNumbers DEF LogFile
    <2>. QED
      BY <1>2, <2>1, Zenon DEF TrailStep
  <1>. QED
    BY <1>3, <1>4 DEF f

\* Two sequences in order, the first one older, are in order one after the
\* other.
LEMMA OrderedConcat ==
    ASSUME NEW s \in Seq(Nat), NEW t \in Seq(Nat),
           \A i, j \in DOMAIN s : i < j => s[i] < s[j],
           \A i, j \in DOMAIN t : i < j => t[i] < t[j],
           \A a \in InSeq(s), b \in InSeq(t) : a < b
    PROVE  /\ s \o t \in Seq(Nat) /\ InSeq(s \o t) = InSeq(s) \cup InSeq(t)
           /\ \A i, j \in DOMAIN (s \o t) : i < j => (s \o t)[i] < (s \o t)[j]
  <1>1. /\ s \o t \in Seq(Nat) /\ Len(s \o t) = Len(s) + Len(t)
        /\ DOMAIN (s \o t) = 1 .. Len(s) + Len(t)
        /\ DOMAIN s = 1 .. Len(s) /\ DOMAIN t = 1 .. Len(t)
        /\ Len(s) \in Nat /\ Len(t) \in Nat
    OBVIOUS
  <1>2. /\ \A i \in 1 .. Len(s) : (s \o t)[i] = s[i]
        /\ \A i \in 1 .. Len(s) + Len(t) : i > Len(s) => (s \o t)[i] = t[i - Len(s)]
    OBVIOUS
  <1>3. \A i \in 1 .. Len(t) : i + Len(s) \in 1 .. Len(s) + Len(t)
                               /\ (s \o t)[i + Len(s)] = t[i]
    BY <1>1, <1>2
  <1>4. InSeq(s \o t) = InSeq(s) \cup InSeq(t)
    <2>1. ASSUME NEW i \in 1 .. Len(s) + Len(t) PROVE (s \o t)[i] \in InSeq(s) \cup InSeq(t)
      <3>1. CASE i <= Len(s)
        BY <1>1, <1>2, <3>1 DEF InSeq
      <3>2. CASE i > Len(s)
        <4>1. i - Len(s) \in 1 .. Len(t)
          BY <1>1, <3>2
        <4>. QED
          BY <1>1, <1>2, <3>2, <4>1 DEF InSeq
      <3>. QED
        BY <1>1, <3>1, <3>2
    <2>2. InSeq(s) \subseteq InSeq(s \o t)
      BY <1>1, <1>2 DEF InSeq
    <2>3. InSeq(t) \subseteq InSeq(s \o t)
      BY <1>1, <1>3 DEF InSeq
    <2>4. InSeq(s \o t) \subseteq InSeq(s) \cup InSeq(t)
      BY <1>1, <2>1 DEF InSeq
    <2>. QED
      BY <2>2, <2>3, <2>4
  <1>5. ASSUME NEW i \in 1 .. Len(s) + Len(t), NEW j \in 1 .. Len(s) + Len(t), i < j
        PROVE  (s \o t)[i] < (s \o t)[j]
    <2>1. CASE j <= Len(s)
      <3>1. i \in 1 .. Len(s) /\ j \in 1 .. Len(s)
        BY <1>1, <1>5, <2>1
      <3>2. s[i] < s[j]
        BY <1>1, <1>5, <3>1
      <3>. QED
        BY <1>2, <3>1, <3>2
    <2>2. CASE i > Len(s)
      <3>1. i - Len(s) \in 1 .. Len(t) /\ j - Len(s) \in 1 .. Len(t) /\ i - Len(s) < j - Len(s) /\ j > Len(s)
        BY <1>1, <1>5, <2>2
      <3>. QED
        BY <1>1, <1>2, <2>2, <3>1
    <2>3. CASE i <= Len(s) /\ j > Len(s)
      <3>1. i \in 1 .. Len(s) /\ j - Len(s) \in 1 .. Len(t)
        BY <1>1, <2>3
      <3>2. s[i] \in InSeq(s) /\ t[j - Len(s)] \in InSeq(t)
        BY <1>1, <3>1 DEF InSeq
      <3>3. (s \o t)[i] = s[i] /\ (s \o t)[j] = t[j - Len(s)]
        BY <1>2, <2>3, <3>1
      <3>4. s[i] < t[j - Len(s)]
        BY <3>2, Zenon
      <3>. QED
        BY <3>3, <3>4
    <2>. QED
      BY <1>1, <1>5, <2>1, <2>2, <2>3
  <1>. QED
    BY <1>1, <1>4, <1>5

LEMMA TrailInOrder ==
    ASSUME TrailTypes, FilesInOrder
    PROVE  /\ OnDisk = UNION {KeptLines(n) : n \in LogFile}
           /\ \A i, j \in DOMAIN Trail : i < j => Trail[i] < Trail[j]
           /\ OnDisk \subseteq Nat
  <1>. DEFINE f == TrailUpTo
              Solid(n) == /\ f[n] \in Seq(Nat)
                          /\ \A i, j \in DOMAIN f[n] : i < j => f[n][i] < f[n][j]
                          /\ InSeq(f[n]) = UNION {KeptLines(m) : m \in 0 .. n}
              G == {n \in LogFile : Solid(n)}
  <1>. USE TrailNumbers
  <1>1. 0 \in G
    <2>1. f[0] = Lines(0)
      BY TrailEquations
    <2>2. UNION {KeptLines(m) : m \in 0 .. 0} = KeptLines(0)
      OBVIOUS
    <2>3. Solid(0)
      BY <2>1, <2>2, LinesType DEF FilesInOrder, KeptLines
    <2>. QED
      BY <2>3
  <1>2. ASSUME NEW n \in 0 .. Archives - 1, n \in G PROVE n + 1 \in G
    <2>1. n + 1 \in 1 .. Archives /\ n + 1 - 1 = n /\ n + 1 \in LogFile
      BY <1>2 DEF LogFile
    <2>2. f[n + 1] = Lines(n + 1) \o f[n]
      <3>1. PICK k \in 1 .. Archives : k = n + 1 /\ k - 1 = n
        BY <2>1
      <3>2. TrailUpTo[k] = Lines(k) \o TrailUpTo[k - 1]
        BY TrailEquations, Zenon
      <3>. QED
        BY <3>1, <3>2
    <2>3. Solid(n)
      BY <1>2
    <2>4. /\ Lines(n + 1) \in Seq(Nat)
          /\ \A i, j \in DOMAIN Lines(n + 1) : i < j => Lines(n + 1)[i] < Lines(n + 1)[j]
      BY <2>1, LinesType DEF FilesInOrder
    <2>5. \A a \in InSeq(Lines(n + 1)), b \in InSeq(f[n]) : a < b
      <3>. SUFFICES ASSUME NEW a \in InSeq(Lines(n + 1)), NEW b \in InSeq(f[n]) PROVE a < b
        OBVIOUS
      <3>1. PICK m \in 0 .. n : b \in KeptLines(m)
        BY <2>3
      <3>2. m \in LogFile /\ m < n + 1
        BY <2>1 DEF LogFile
      <3>. QED
        BY <2>1, <3>1, <3>2 DEF FilesInOrder, KeptLines
    <2>. HIDE DEF f
    <2>6. /\ f[n + 1] \in Seq(Nat)
          /\ \A i, j \in DOMAIN f[n + 1] : i < j => f[n + 1][i] < f[n + 1][j]
          /\ InSeq(f[n + 1]) = InSeq(Lines(n + 1)) \cup InSeq(f[n])
      <3>. DEFINE s == Lines(n + 1)
                  t == f[n]
      <3>1. /\ s \in Seq(Nat) /\ t \in Seq(Nat)
            /\ \A i, j \in DOMAIN s : i < j => s[i] < s[j]
            /\ \A i, j \in DOMAIN t : i < j => t[i] < t[j]
            /\ \A a \in InSeq(s), b \in InSeq(t) : a < b
        BY <2>3, <2>4, <2>5
      <3>2. f[n + 1] = s \o t
        BY <2>2
      <3>. HIDE DEF s, t
      <3>3. /\ s \o t \in Seq(Nat) /\ InSeq(s \o t) = InSeq(s) \cup InSeq(t)
            /\ \A i, j \in DOMAIN (s \o t) : i < j => (s \o t)[i] < (s \o t)[j]
        BY <3>1, OrderedConcat
      <3>. QED
        BY <3>2, <3>3 DEF s, t
    <2>7. UNION {KeptLines(m) : m \in 0 .. n + 1} = KeptLines(n + 1) \cup UNION {KeptLines(m) : m \in 0 .. n}
      <3>1. 0 .. n + 1 = (0 .. n) \cup {n + 1}
        OBVIOUS
      <3>. QED
        BY <3>1
    <2>8. Solid(n + 1)
      BY <2>3, <2>6, <2>7 DEF KeptLines
    <2>. QED
      BY <2>1, <2>8
  <1>. HIDE DEF G, f, Solid
  <1>3. Archives \in G
    <2>1. \A n \in 0 .. Archives - 1 : n \in G => n + 1 \in G
      BY <1>2
    <2>. QED
      BY <1>1, <2>1, Induction
  <1>4. Solid(Archives)
    BY <1>3 DEF G
  <1>5. Trail = f[Archives]
    BY TrailIsRead DEF f
  <1>6. /\ \A i, j \in DOMAIN Trail : i < j => Trail[i] < Trail[j]
        /\ InSeq(Trail) = UNION {KeptLines(m) : m \in LogFile}
    BY <1>4, <1>5 DEF Solid, LogFile
  <1>7. OnDisk = InSeq(Trail)
    BY DEF OnDisk, InSeq
  <1>8. \A n \in LogFile : KeptLines(n) \subseteq Nat
    BY LinesType
  <1>. QED
    BY <1>6, <1>7, <1>8

LEMMA TrailEnough == TrailInv => TrailIsWhole
  <1>. SUFFICES ASSUME TrailInv PROVE TrailIsWhole
    OBVIOUS
  <1>1. /\ OnDisk = UNION {KeptLines(n) : n \in LogFile}
        /\ \A i, j \in DOMAIN Trail : i < j => Trail[i] < Trail[j]
    BY TrailInOrder DEF TrailInv
  <1>2. TrailHasNoHole
    <2>1. \A k \in Written, m \in OnDisk : m < k => k \in OnDisk
      BY <1>1 DEF TrailInv, NewestKept
    <2>. QED
      BY <1>1, <2>1 DEF TrailHasNoHole
  <1>3. TrailTypeOK
    <2>1. ASSUME NEW n \in LogFile, FileExists(n), NEW i \in DOMAIN file[n]
          PROVE  file[n][i] \in 1 .. records
      <3>1. file[n][i] \in KeptLines(n)
        BY <2>1 DEF KeptLines, Lines, InSeq
      <3>2. file[n][i] \in 1 .. Made /\ records \in Nat
        BY <3>1 DEF TrailInv, TrailTypes, FilesInOrder
      <3>. QED
        BY <3>2 DEF Made
    <2>. QED
      BY <2>1 DEF TrailInv, TrailTypes, TrailTypeOK
  <1>. QED
    BY <1>2, <1>3 DEF TrailIsWhole

\* Whatever dies or is refused in the middle of a rotation, and for every
\* number of archives, the journal and its archives read one after the other
\* hold the newest records in order and without a gap (audit.py,
\* observability.py, maintenance/logs.py).
THEOREM TrailStaysWhole == TrailSpec => []TrailIsWhole
  <1>1. TrailSpec => []TrailInv
    BY TrailInitInv, TrailStepInv, PTL DEF TrailSpec
  <1>. QED
    BY <1>1, TrailEnough, PTL

-----------------------------------------------------------------------------
\* The recursive definition of Trail, in this state and in the next.
Reading ==
  /\ Trail = TrailUpTo[Archives]
  /\ TrailUpTo[0] = Lines(0)
  /\ \A n \in 1 .. Archives : TrailUpTo[n] = Lines(n) \o TrailUpTo[n - 1]

LEMMA TrailReading == Reading
  BY TrailIsRead, TrailEquations DEF Reading

LEMMA TrailReadingNext == Reading'
  BY TrailReading, PTL

\* f joins the files of L, from the journal to the oldest archive.
Joins(L, f) ==
  /\ L \in [LogFile -> Seq(Nat)]
  /\ f[0] = L[0]
  /\ \A n \in 1 .. Archives : f[n] = L[n] \o f[n - 1]

\* What is joined is a sequence, and all of the journal is in it.
LEMMA JoinedLines ==
    ASSUME NEW L, NEW f, Joins(L, f)
    PROVE  \A n \in LogFile : f[n] \in Seq(Nat) /\ Len(f[n]) >= Len(L[0])
  <1>. DEFINE G == {n \in LogFile : f[n] \in Seq(Nat) /\ Len(f[n]) >= Len(L[0])}
  <1>1. 0 \in G
    BY TrailNumbers DEF Joins
  <1>2. ASSUME NEW n \in 0 .. Archives - 1, n \in G PROVE n + 1 \in G
    <2>1. n + 1 \in 1 .. Archives /\ n + 1 \in LogFile /\ (n + 1) - 1 = n /\ 0 \in LogFile
      BY TrailNumbers DEF LogFile
    <2>2. f[n + 1] = L[n + 1] \o f[n] /\ L[n + 1] \in Seq(Nat) /\ L[0] \in Seq(Nat)
      BY <2>1 DEF Joins
    <2>3. f[n] \in Seq(Nat) /\ Len(f[n]) >= Len(L[0])
      BY <1>2
    <2>4. f[n + 1] \in Seq(Nat) /\ Len(f[n + 1]) = Len(L[n + 1]) + Len(f[n])
      BY <2>2, <2>3
    <2>5. Len(L[0]) \in Nat /\ Len(L[n + 1]) \in Nat /\ Len(f[n]) \in Nat
      BY <2>2, <2>3
    <2>a. \A x, y, z \in Nat : y >= z => x + y >= z
      OBVIOUS
    <2>6. Len(f[n + 1]) >= Len(L[0])
      BY <2>3, <2>4, <2>5, <2>a, Zenon
    <2>. QED
      BY <2>1, <2>4, <2>6
  <1>. HIDE DEF G
  <1>3. \A n \in 0 .. Archives : n \in G
    BY <1>1, <1>2, Induction, TrailNumbers
  <1>. QED
    BY <1>3 DEF G, LogFile

\* Two trails that agree up to m, and whose files agree above, agree at last.
LEMMA JoinedAbove ==
    ASSUME NEW L, NEW f, Joins(L, f), NEW M, NEW g, Joins(M, g),
           NEW m \in LogFile, f[m] = g[m], \A n \in LogFile : n > m => L[n] = M[n]
    PROVE  \A n \in LogFile : n >= m => f[n] = g[n]
  <1>. DEFINE G == {n \in LogFile : n >= m => f[n] = g[n]}
  <1>0. m \in Nat /\ m <= Archives /\ Archives \in Nat
    BY TrailNumbers DEF LogFile
  <1>1. 0 \in G
    BY <1>0, TrailNumbers
  <1>2. ASSUME NEW n \in 0 .. Archives - 1, n \in G PROVE n + 1 \in G
    <2>1. n + 1 \in 1 .. Archives /\ n + 1 \in LogFile /\ (n + 1) - 1 = n
      BY <1>0 DEF LogFile
    <2>2. f[n + 1] = L[n + 1] \o f[n] /\ g[n + 1] = M[n + 1] \o g[n]
      BY <2>1 DEF Joins
    <2>3. CASE n >= m
      <3>1. f[n] = g[n]
        BY <1>2, <2>3
      <3>2. n + 1 > m
        BY <1>0, <2>3
      <3>3. L[n + 1] = M[n + 1]
        BY <2>1, <3>2
      <3>. QED
        BY <2>1, <2>2, <3>1, <3>3
    <2>4. CASE n + 1 = m
      BY <2>1, <2>4
    <2>5. CASE n + 1 < m
      BY <1>0, <2>1, <2>5
    <2>. QED
      BY <1>0, <2>3, <2>4, <2>5
  <1>. HIDE DEF G
  <1>3. \A n \in 0 .. Archives : n \in G
    BY <1>0, <1>1, <1>2, Induction
  <1>. QED
    BY <1>3 DEF G, LogFile

\* Two trails whose files agree up to m agree up to m.
LEMMA JoinedBelow ==
    ASSUME NEW L, NEW f, Joins(L, f), NEW M, NEW g, Joins(M, g),
           NEW m \in LogFile, \A n \in LogFile : n <= m => L[n] = M[n]
    PROVE  \A n \in LogFile : n <= m => f[n] = g[n]
  <1>. DEFINE G == {n \in LogFile : n <= m => f[n] = g[n]}
  <1>0. m \in Nat /\ m <= Archives /\ Archives \in Nat /\ 0 \in LogFile
    BY TrailNumbers DEF LogFile
  <1>1. 0 \in G
    BY <1>0 DEF Joins
  <1>2. ASSUME NEW n \in 0 .. Archives - 1, n \in G PROVE n + 1 \in G
    <2>1. n + 1 \in 1 .. Archives /\ n + 1 \in LogFile /\ (n + 1) - 1 = n
      BY <1>0 DEF LogFile
    <2>2. f[n + 1] = L[n + 1] \o f[n] /\ g[n + 1] = M[n + 1] \o g[n]
      BY <2>1 DEF Joins
    <2>3. n + 1 <= m => f[n] = g[n] /\ L[n + 1] = M[n + 1]
      BY <1>0, <1>2, <2>1
    <2>. QED
      BY <2>1, <2>2, <2>3
  <1>. HIDE DEF G
  <1>3. \A n \in 0 .. Archives : n \in G
    BY <1>0, <1>1, <1>2, Induction
  <1>. QED
    BY <1>3 DEF G, LogFile

\* A file moved up to an empty place moves nothing in the trail.
LEMMA JoinedMove ==
    ASSUME NEW L, NEW f, Joins(L, f), NEW M, NEW g, Joins(M, g),
           NEW a \in LogFile, a + 1 \in LogFile, L[a + 1] = <<>>,
           M[a + 1] = L[a], M[a] = <<>>,
           \A n \in LogFile : n # a /\ n # a + 1 => M[n] = L[n]
    PROVE  g[Archives] = f[Archives]
  <1>0. a \in Nat /\ Archives \in Nat /\ Archives \in LogFile /\ 0 \in LogFile
        /\ a + 1 <= Archives /\ \A n \in LogFile : n \in Nat
    BY TrailNumbers DEF LogFile
  <1>1. f[a + 1] = L[a + 1] \o f[a] /\ g[a + 1] = M[a + 1] \o g[a]
    <2>1. a + 1 \in 1 .. Archives /\ (a + 1) - 1 = a
      BY <1>0
    <2>. QED
      BY <2>1 DEF Joins
  <1>2. f[a] \in Seq(Nat) /\ L[a] \in Seq(Nat)
    BY JoinedLines DEF Joins
  <1>3. f[a + 1] = f[a]
    BY <1>1, <1>2
  <1>4. g[a + 1] = f[a]
    <2>1. CASE a = 0
      <3>1. g[a] = <<>> /\ f[a] = L[a]
        BY <2>1 DEF Joins
      <3>2. L[a] \o <<>> = L[a]
        BY <1>2
      <3>. QED
        BY <1>1, <3>1, <3>2
    <2>2. CASE a # 0
      <3>1. a - 1 \in LogFile /\ a \in 1 .. Archives /\ \A n \in LogFile : n <= a - 1 => n # a /\ n # a + 1
        BY <1>0, <2>2 DEF LogFile
      <3>2. g[a - 1] = f[a - 1]
        <4>1. \A n \in LogFile : n <= a - 1 => M[n] = L[n]
          BY <3>1
        <4>2. \A n \in LogFile : n <= a - 1 => g[n] = f[n]
          BY <3>1, <4>1, JoinedBelow
        <4>. QED
          BY <1>0, <3>1, <4>2
      <3>3. f[a] = L[a] \o f[a - 1] /\ g[a] = M[a] \o g[a - 1]
        BY <3>1 DEF Joins
      <3>4. f[a - 1] \in Seq(Nat)
        BY <3>1, JoinedLines
      <3>5. g[a] = f[a - 1]
        BY <3>2, <3>3, <3>4
      <3>. QED
        BY <1>1, <3>3, <3>5
    <2>. QED
      BY <2>1, <2>2
  <1>5. \A n \in LogFile : n > a + 1 => L[n] = M[n]
    BY <1>0
  <1>6. \A n \in LogFile : n >= a + 1 => f[n] = g[n]
    BY <1>3, <1>4, <1>5, JoinedAbove
  <1>. QED
    BY <1>0, <1>6

\* A line appended to the journal is appended to the trail.
LEMMA JoinedAppend ==
    ASSUME NEW L, NEW f, Joins(L, f), NEW M, NEW g, Joins(M, g), NEW x \in Nat,
           M[0] = Append(L[0], x), \A n \in LogFile : n # 0 => M[n] = L[n]
    PROVE  g[Archives] = Append(f[Archives], x)
  <1>. DEFINE G == {n \in LogFile : g[n] = Append(f[n], x)}
  <1>1. 0 \in G
    BY TrailNumbers DEF Joins
  <1>2. ASSUME NEW n \in 0 .. Archives - 1, n \in G PROVE n + 1 \in G
    <2>1. n + 1 \in 1 .. Archives /\ n + 1 \in LogFile /\ (n + 1) - 1 = n /\ n \in LogFile /\ n + 1 # 0
      BY TrailNumbers DEF LogFile
    <2>2. f[n + 1] = L[n + 1] \o f[n] /\ g[n + 1] = L[n + 1] \o g[n] /\ L[n + 1] \in Seq(Nat)
      BY <2>1 DEF Joins
    <2>3. f[n] \in Seq(Nat) /\ g[n] = Append(f[n], x)
      BY <1>2, <2>1, JoinedLines
    <2>4. \A s, t \in Seq(Nat) : s \o Append(t, x) = Append(s \o t, x)
      OBVIOUS
    <2>. QED
      BY <2>1, <2>2, <2>3, <2>4
  <1>. HIDE DEF G
  <1>3. \A n \in 0 .. Archives : n \in G
    BY <1>1, <1>2, Induction, TrailNumbers
  <1>. QED
    BY <1>3, TrailNumbers DEF G, LogFile

\* The oldest archive deleted is the trail from there on.
LEMMA JoinedDrop ==
    ASSUME NEW L, NEW f, Joins(L, f), NEW M, NEW g, Joins(M, g),
           M[Archives] = <<>>, \A n \in LogFile : n # Archives => M[n] = L[n]
    PROVE  /\ Len(L[Archives]) \in Nat /\ f[Archives] \in Seq(Nat)
           /\ L[Archives] = <<>> => g[Archives] = f[Archives]
           /\ g[Archives] = SubSeq(f[Archives], Len(L[Archives]) + 1, Len(f[Archives]))
           /\ Len(L[Archives]) <= Len(f[Archives])
           /\ Len(f[Archives]) - Len(L[Archives]) >= Len(L[0])
  <1>0. Archives \in LogFile /\ Archives - 1 \in LogFile /\ Archives \in 1 .. Archives
        /\ 0 \in LogFile /\ Archives \in Nat
        /\ \A n \in LogFile : n <= Archives - 1 => n # Archives
    BY TrailNumbers DEF LogFile
  <1>1. f[Archives] = L[Archives] \o f[Archives - 1] /\ g[Archives] = M[Archives] \o g[Archives - 1]
    BY <1>0 DEF Joins
  <1>2. L[Archives] \in Seq(Nat) /\ f[Archives - 1] \in Seq(Nat) /\ L[0] \in Seq(Nat)
        /\ Len(f[Archives - 1]) >= Len(L[0])
    BY <1>0, JoinedLines DEF Joins
  <1>3. g[Archives - 1] = f[Archives - 1]
    <2>1. \A n \in LogFile : n <= Archives - 1 => M[n] = L[n]
      BY <1>0
    <2>2. \A n \in LogFile : n <= Archives - 1 => g[n] = f[n]
      BY <1>0, <2>1, JoinedBelow
    <2>. QED
      BY <1>0, <2>2
  <1>. DEFINE s == L[Archives]
              t == f[Archives - 1]
  <1>4. s \in Seq(Nat) /\ t \in Seq(Nat) /\ Len(t) >= Len(L[0])
    BY <1>2
  <1>5. f[Archives] = s \o t
    BY <1>1
  <1>6. M[Archives] \o t = t
    BY <1>4
  <1>7. g[Archives] = t
    BY <1>1, <1>3, <1>6
  <1>. HIDE DEF s, t
  <1>s. SubSeq(s \o t, Len(s) + 1, Len(s \o t)) = t
    <2>1. /\ Len(s) \in Nat /\ Len(t) \in Nat /\ Len(s \o t) = Len(s) + Len(t)
          /\ s \o t \in Seq(Nat) /\ \A i \in 1 .. Len(t) : (s \o t)[Len(s) + i] = t[i]
      BY <1>4
    <2>. DEFINE u == SubSeq(s \o t, Len(s) + 1, Len(s \o t))
    <2>2. u \in Seq(Nat) /\ Len(u) = Len(t) /\ \A i \in 1 .. Len(u) : u[i] = (s \o t)[Len(s) + i]
      BY <2>1
    <2>. HIDE DEF u
    <2>3. \A i \in 1 .. Len(u) : u[i] = t[i]
      BY <2>1, <2>2
    <2>4. u = t
      BY <1>4, <2>2, <2>3, SeqEqual
    <2>. QED
      BY <2>4 DEF u
  <1>8. /\ SubSeq(s \o t, Len(s) + 1, Len(s \o t)) = t
        /\ Len(s \o t) = Len(s) + Len(t) /\ s \o t \in Seq(Nat)
        /\ s = <<>> => s \o t = t
        /\ Len(s) \in Nat /\ Len(t) \in Nat
    <2>1. Len(s \o t) = Len(s) + Len(t) /\ s \o t \in Seq(Nat) /\ Len(s) \in Nat /\ Len(t) \in Nat
      BY <1>4
    <2>2. s = <<>> => s \o t = t
      BY <1>4
    <2>. QED
      BY <1>s, <2>1, <2>2, Zenon
  <1>9. Len(L[0]) \in Nat /\ Len(f[Archives]) = Len(s) + Len(t)
    BY <1>2, <1>5, <1>8
  <1>10. Len(s) <= Len(f[Archives]) /\ Len(f[Archives]) - Len(s) >= Len(L[0])
    BY <1>4, <1>8, <1>9
  <1>11. /\ Len(s) \in Nat /\ f[Archives] \in Seq(Nat)
         /\ s = <<>> => g[Archives] = f[Archives]
         /\ g[Archives] = SubSeq(f[Archives], Len(s) + 1, Len(f[Archives]))
    BY <1>5, <1>7, <1>8, Zenon
  <1>. QED
    BY <1>10, <1>11, Zenon DEF s
-----------------------------------------------------------------------------
\* The refinement of Journal.
\* The lines of every file, for these lemmas.
Here == [n \in LogFile |-> Lines(n)]

LEMMA HereJoins ==
    ASSUME TrailTypes
    PROVE  Joins(Here, TrailUpTo) /\ Trail = TrailUpTo[Archives]
           /\ \A n \in LogFile : Here[n] = Lines(n)
  <1>1. \A n \in LogFile : Here[n] = Lines(n) /\ Lines(n) \in Seq(Nat)
    BY LinesType DEF Here
  <1>2. Here \in [LogFile -> Seq(Nat)]
    BY <1>1 DEF Here
  <1>3. \A n \in 1 .. Archives : n \in LogFile
    BY TrailNumbers DEF LogFile
  <1>. QED
    BY <1>1, <1>2, <1>3, TrailReading, TrailNumbers DEF Reading, Joins

LEMMA HereJoinsNext ==
    ASSUME TrailTypes'
    PROVE  Joins(Here', TrailUpTo') /\ Trail' = TrailUpTo'[Archives]
           /\ \A n \in LogFile : Here'[n] = Lines(n)'
  <1>1. \A n \in LogFile : Here'[n] = Lines(n)' /\ Lines(n)' \in Seq(Nat)
    BY DEF Here, Lines, TrailTypes
  <1>2. Here' \in [LogFile -> Seq(Nat)]
    BY <1>1 DEF Here
  <1>3. \A n \in 1 .. Archives : n \in LogFile
    BY TrailNumbers DEF LogFile
  <1>. QED
    BY <1>1, <1>2, <1>3, TrailReadingNext, TrailNumbers DEF Reading, Joins

LEMMA JournalInit == TrailInit => OneJournal!Init
  <1>. SUFFICES ASSUME TrailInit PROVE OneJournal!Init
    OBVIOUS
  <1>1. TrailTypes
    BY TrailInitInv DEF TrailInv
  <1>2. \A n \in LogFile : Lines(n) = <<>>
    BY DEF TrailInit, Lines, FileExists
  <1>3. \A n \in LogFile : TrailUpTo[n] = <<>>
    <2>. DEFINE f == TrailUpTo
                G == {n \in LogFile : f[n] = <<>>}
    <2>1. 0 \in G
      BY <1>2, TrailReading, TrailNumbers DEF Reading
    <2>2. ASSUME NEW n \in 0 .. Archives - 1, n \in G PROVE n + 1 \in G
      <3>1. n + 1 \in 1 .. Archives /\ n + 1 \in LogFile /\ (n + 1) - 1 = n
        BY TrailNumbers DEF LogFile
      <3>2. f[n + 1] = <<>> \o f[n]
        BY <1>2, <3>1, TrailReading DEF Reading
      <3>3. f[n + 1] = <<>>
        BY <2>2, <3>2
      <3>. QED
        BY <3>1, <3>3
    <2>. HIDE DEF G
    <2>3. \A n \in 0 .. Archives : n \in G
      BY <2>1, <2>2, Induction, TrailNumbers
    <2>. QED
      BY <2>3 DEF G, LogFile
  <1>4. Trail = <<>>
    BY <1>3, TrailReading, TrailNumbers DEF Reading
  <1>. QED
    BY <1>4 DEF OneJournal!Init, TrailInit, Made

\* A rename of the rotation shows no reader anything.
LEMMA MoveIsUnseen ==
    ASSUME TrailInv, TrailInv', NEW a \in LogFile, a + 1 \in LogFile, ~FileExists(a + 1),
           file' = [file EXCEPT ![a + 1] = file[a], ![a] = NoFile]
    PROVE  Trail' = Trail
  <1>0. a \in Nat /\ a # a + 1 /\ TrailTypes /\ TrailTypes'
    BY TrailNumbers DEF TrailInv
  <1>1. \A n \in LogFile : Lines(n)' = IF n = a + 1 THEN Lines(a)
                                       ELSE IF n = a THEN <<>> ELSE Lines(n)
    BY <1>0, MovedFile
  <1>2. /\ Joins(Here, TrailUpTo) /\ Trail = TrailUpTo[Archives]
        /\ \A n \in LogFile : Here[n] = Lines(n)
    BY <1>0, HereJoins
  <1>3. /\ Joins(Here', TrailUpTo') /\ Trail' = TrailUpTo'[Archives]
        /\ \A n \in LogFile : Here'[n] = Lines(n)'
    BY <1>0, HereJoinsNext
  <1>4. Lines(a + 1) = <<>>
    BY DEF Lines
  <1>5. /\ Here[a + 1] = <<>> /\ Here'[a + 1] = Here[a] /\ Here'[a] = <<>>
        /\ \A n \in LogFile : n # a /\ n # a + 1 => Here'[n] = Here[n]
    BY <1>0, <1>1, <1>2, <1>3, <1>4
  <1>6. TrailUpTo'[Archives] = TrailUpTo[Archives]
    BY <1>2, <1>3, <1>5, JoinedMove
  <1>. QED
    BY <1>2, <1>3, <1>6

LEMMA SameTrail == ASSUME UNCHANGED file PROVE Trail' = Trail
  BY DEF Trail, Lines, FileExists

LEMMA JournalStep ==
    TrailInv /\ TrailInv' /\ [TrailNext]_trailVars => [OneJournal!Next]_<<Made, Trail, lost>>
  <1>. SUFFICES ASSUME TrailInv, TrailInv', [TrailNext]_trailVars
                PROVE  OneJournal!Next \/ (Made' = Made /\ Trail' = Trail /\ lost' = lost)
    BY DEF OneJournal!vars
  <1>t. TrailTypes /\ TrailTypes' /\ RoomAhead
    BY DEF TrailInv
  <1>n. records \in Nat /\ PerFile \in Nat
    BY <1>t, TrailAssumption DEF TrailTypes
  <1>1. CASE Record
    <2>1. Made' = Made /\ UNCHANGED <<file, lost>>
      BY <1>1, <1>n DEF Record, Made
    <2>. QED
      BY <2>1, SameTrail
  <1>2. CASE Measure
    <2>1. Made' = Made /\ UNCHANGED <<file, lost>>
      BY <1>2 DEF Measure, Made
    <2>. QED
      BY <2>1, SameTrail
  <1>3. CASE Unlink
    <2>1. Made' = Made /\ lost' = lost /\ Len(file[0]) >= PerFile /\ FileExists(0)
      BY <1>3, <1>t DEF Unlink, Made, RoomAhead
    <2>2. \A n \in LogFile : file'[n] = IF n = Archives THEN NoFile ELSE file[n]
      BY <1>3, <1>t DEF Unlink, TrailTypes
    <2>3. \A n \in LogFile : Lines(n)' = IF n = Archives THEN <<>> ELSE Lines(n)
      BY <2>2 DEF Lines, FileExists
    <2>4. /\ Joins(Here, TrailUpTo) /\ Trail = TrailUpTo[Archives]
          /\ \A n \in LogFile : Here[n] = Lines(n)
      BY <1>t, HereJoins
    <2>5. /\ Joins(Here', TrailUpTo') /\ Trail' = TrailUpTo'[Archives]
          /\ \A n \in LogFile : Here'[n] = Lines(n)'
      BY <1>t, HereJoinsNext
    <2>6. Here'[Archives] = <<>> /\ \A n \in LogFile : n # Archives => Here'[n] = Here[n]
      BY <2>3, <2>4, <2>5, TrailNumbers
    <2>7. /\ Len(Lines(Archives)) \in Nat /\ Trail \in Seq(Nat)
          /\ Lines(Archives) = <<>> => Trail' = Trail
          /\ Trail' = SubSeq(Trail, Len(Lines(Archives)) + 1, Len(Trail))
          /\ Len(Lines(Archives)) <= Len(Trail)
          /\ Len(Trail) - Len(Lines(Archives)) >= Len(Lines(0))
      <3>1. Here[Archives] = Lines(Archives) /\ Here[0] = Lines(0)
        BY <2>4, TrailNumbers
      <3>2. /\ Len(Here[Archives]) \in Nat /\ TrailUpTo[Archives] \in Seq(Nat)
            /\ Here[Archives] = <<>> => TrailUpTo'[Archives] = TrailUpTo[Archives]
            /\ TrailUpTo'[Archives] =
                 SubSeq(TrailUpTo[Archives], Len(Here[Archives]) + 1, Len(TrailUpTo[Archives]))
            /\ Len(Here[Archives]) <= Len(TrailUpTo[Archives])
            /\ Len(TrailUpTo[Archives]) - Len(Here[Archives]) >= Len(Here[0])
        BY <2>4, <2>5, <2>6, JoinedDrop
      <3>. QED
        BY <2>4, <2>5, <3>1, <3>2, Zenon
    <2>8. Len(Lines(0)) >= PerFile /\ Len(Lines(0)) \in Nat
      BY <1>t, <2>1, LinesType, TrailNumbers DEF Lines
    <2>9. CASE Lines(Archives) = <<>>
      BY <2>1, <2>7, <2>9
    <2>10. CASE Lines(Archives) # <<>>
      <3>. DEFINE n == Len(Lines(Archives))
      <3>1. n >= 1
        <4>1. Lines(Archives) \in Seq(Nat)
          BY <1>t, LinesType, TrailNumbers
        <4>. QED
          BY <2>10, <4>1
      <3>2. Len(Trail) \in Nat
        BY <2>7
      <3>3. n \in 1 .. Len(Trail) /\ Len(Trail) - n >= PerFile
        BY <1>n, <2>7, <2>8, <3>1, <3>2
      <3>4. Trail' = SubSeq(Trail, n + 1, Len(Trail))
        BY <2>7
      <3>. HIDE DEF n
      <3>5. OneJournal!Forget
        BY <2>1, <3>3, <3>4, Zenon DEF OneJournal!Forget
      <3>. QED
        BY <3>5 DEF OneJournal!Next
    <2>. QED
      BY <2>9, <2>10
  <1>4. CASE Shift
    <2>1. Made' = Made /\ lost' = lost /\ doing = "shift"
      BY <1>4 DEF Shift, Made
    <2>2. CASE UNCHANGED file
      BY <2>1, <2>2, SameTrail
    <2>3. CASE number # 0 /\ FileExists(number)
      <3>1. file' = [file EXCEPT ![number + 1] = file[number], ![number] = NoFile]
        BY <1>4, <2>3 DEF Shift
      <3>2. number \in LogFile /\ number + 1 \in LogFile /\ ~FileExists(number + 1)
        BY <1>t, <2>1, TrailNumbers DEF TrailTypes, RoomAhead, LogFile
      <3>. QED
        BY <2>1, <3>1, <3>2, MoveIsUnseen
    <2>. QED
      BY <1>4, <2>2, <2>3 DEF Shift
  <1>5. CASE First
    <2>1. /\ file' = [file EXCEPT ![0 + 1] = file[0], ![0] = NoFile] /\ ~FileExists(0 + 1)
          /\ Made' = Made /\ lost' = lost /\ 0 + 1 \in LogFile
      BY <1>5, <1>t, TrailNumbers DEF First, RoomAhead, Made
    <2>. QED
      BY <2>1, MoveIsUnseen, TrailNumbers
  <1>6. CASE AppendLine
    <2>1. Made = records - 1 /\ Made' = Made + 1 /\ records = Made + 1 /\ lost' = lost
      BY <1>6, <1>n DEF AppendLine, Made
    <2>2. Lines(0) \in Seq(Nat) /\ 0 \in LogFile
      BY <1>t, LinesType, TrailNumbers
    <2>3. Lines(0)' = Append(Lines(0), records) /\ \A n \in LogFile : n # 0 => Lines(n)' = Lines(n)
      <3>1. (IF FileExists(0) THEN Append(file[0], records) ELSE <<records>>)
              = Append(Lines(0), records)
        <4>1. <<records>> = Append(<<>>, records)
          OBVIOUS
        <4>. QED
          BY <4>1 DEF Lines
      <3>2. \A n \in LogFile : file'[n] = IF n = 0 THEN Append(Lines(0), records) ELSE file[n]
        <4>1. file' = [file EXCEPT ![0] = Append(Lines(0), records)]
          BY <1>6, <3>1 DEF AppendLine
        <4>. QED
          BY <1>t, <4>1 DEF TrailTypes
      <3>3. Append(Lines(0), records) # NoFile
        <4>1. /\ Append(Lines(0), records)[Len(Lines(0)) + 1] = records
              /\ Len(Append(Lines(0), records)) = Len(Lines(0)) + 1 /\ Len(Lines(0)) \in Nat
          BY <1>n, <2>2
        <4>2. records >= 1
          BY <1>6, <1>t DEF AppendLine, RoomAhead
        <4>3. Len(NoFile) = 1 /\ NoFile[1] = 0
          BY DEF NoFile
        <4>. QED
          BY <1>n, <4>1, <4>2, <4>3
      <3>. QED
        BY <2>2, <3>2, <3>3 DEF Lines, FileExists
    <2>4. /\ Joins(Here, TrailUpTo) /\ Trail = TrailUpTo[Archives]
          /\ \A n \in LogFile : Here[n] = Lines(n)
      BY <1>t, HereJoins
    <2>5. /\ Joins(Here', TrailUpTo') /\ Trail' = TrailUpTo'[Archives]
          /\ \A n \in LogFile : Here'[n] = Lines(n)'
      BY <1>t, HereJoinsNext
    <2>6. Here'[0] = Append(Here[0], records) /\ \A n \in LogFile : n # 0 => Here'[n] = Here[n]
      BY <2>2, <2>3, <2>4, <2>5
    <2>7. Trail' = Append(Trail, records)
      BY <1>n, <2>4, <2>5, <2>6, JoinedAppend
    <2>. QED
      BY <2>1, <2>7, Zenon DEF OneJournal!Next, OneJournal!Write
  <1>7. CASE RenameRefused
    <2>1. Trail' = Trail
      BY <1>7, SameTrail DEF RenameRefused
    <2>2. CASE doing \in {"unlink", "shift", "first"} /\ GiveUp /\ UNCHANGED lost
      <3>1. Made' = Made
        BY <1>7, <2>2 DEF RenameRefused, GiveUp, Made
      <3>. QED
        BY <2>1, <2>2, <3>1
    <2>3. CASE doing = "append" /\ doing' = "idle" /\ lost' = lost \cup {records} /\ UNCHANGED number
      <3>1. Made' = Made + 1 /\ records = Made + 1
        BY <1>7, <1>n, <2>3 DEF RenameRefused, Made
      <3>. QED
        BY <2>1, <2>3, <3>1, Zenon DEF OneJournal!Next, OneJournal!Lose
    <2>. QED
      BY <1>7, <2>2, <2>3 DEF RenameRefused
  <1>8. CASE Crash
    <2>1. Trail' = Trail
      BY <1>8, SameTrail DEF Crash
    <2>2. CASE doing = "idle"
      <3>1. Made' = Made /\ lost' = lost
        BY <1>8, <2>2 DEF Crash, Made
      <3>. QED
        BY <2>1, <3>1
    <2>3. CASE doing # "idle"
      <3>1. Made' = Made + 1 /\ records = Made + 1 /\ lost' = lost \cup {records}
        BY <1>8, <1>n, <2>3 DEF Crash, Made
      <3>. QED
        BY <2>1, <3>1, Zenon DEF OneJournal!Next, OneJournal!Lose
    <2>. QED
      BY <2>2, <2>3
  <1>9. CASE UNCHANGED trailVars
    <2>1. Made' = Made /\ UNCHANGED <<file, lost>>
      BY <1>9 DEF trailVars, Made
    <2>. QED
      BY <2>1, SameTrail
  <1>. QED
    BY <1>1, <1>2, <1>3, <1>4, <1>5, <1>6, <1>7, <1>8, <1>9 DEF TrailNext

\* Every step of the rotating files is, to a reader of all of them, a step of
\* one journal (Journal.tla) or no step at all: a rename shows nothing, the
\* oldest archive is the only thing forgotten, and PerFile records at least
\* are left (maintenance/logs.py, rotate_if_needed).
THEOREM TrailStaysOneJournal == TrailSpec => TrailIsOneJournal
  <1>1. OneJournal!Init /\ [][OneJournal!Next]_<<Made, Trail, lost>> => OneJournal!Spec
    BY PTL DEF OneJournal!Spec, OneJournal!vars
  <1>. QED
    BY <1>1, TrailStaysWhole, JournalInit, JournalStep, TrailInitInv, TrailStepInv, PTL
       DEF TrailSpec, TrailIsOneJournal

-----------------------------------------------------------------------------
(***************************************************************************)
(* CustomCommands. CommandsSurvive is inductive with the memory: it holds  *)
(* what was promised but for the change under way, and a temporary file    *)
(* that was written holds the memory.                                      *)
(***************************************************************************)

CommandMap == [Phrases -> Meanings \cup {Untaught}]
CommandRows == Seq(Rows \cup {Unreadable})

CommandTypes ==
    /\ alive \in BOOLEAN
    /\ saving \in {"no", "begun", "written"}
    /\ items \in CommandMap /\ promised \in CommandMap
    /\ commandFile \in CommandRows /\ temporary \in CommandRows
    /\ change \in Phrases
    /\ unsettled \subseteq Phrases
    /\ handEdits \in 0 .. MaxHandEdits

\* The memory holds what was promised, but for the change under way; the
\* temporary file, once written, holds the memory.
MemoryIsPromised ==
    /\ alive => \A p \in Phrases \ unsettled :
                    (p = change /\ saving # "no") \/ items[p] = promised[p]
    /\ saving # "no" => alive
    /\ saving = "written" => temporary = RowsOf(items)

CommandInv == CommandTypes /\ PromisedCommandsSurvive /\ MemoryIsPromised

-----------------------------------------------------------------------------
(* What is written is what is read.                                        *)

GoodRows(rows) == {i \in DOMAIN rows : \A j \in 1 .. i : rows[j] # Unreadable}
RowsFor(rows, p) == {i \in GoodRows(rows) : rows[i][1] = p}

LEMMA CommandsInRows ==
    ASSUME NEW rows, NEW p \in Phrases
    PROVE  CommandsIn(rows)[p] =
             IF RowsFor(rows, p) = {} THEN Untaught
             ELSE rows[CHOOSE i \in RowsFor(rows, p) : \A j \in RowsFor(rows, p) : j <= i][2]
  BY DEF CommandsIn, RowsFor, GoodRows

LEMMA CommandsInIsMap == ASSUME NEW rows PROVE CommandsIn(rows) = [p \in Phrases |-> CommandsIn(rows)[p]]
  BY DEF CommandsIn

\* A phrase is read from one of its rows, if it has any.
LEMMA ReadFromARow ==
    ASSUME NEW rows \in CommandRows, NEW p \in Phrases
    PROVE  \/ RowsFor(rows, p) = {} /\ CommandsIn(rows)[p] = Untaught
           \/ \E i \in RowsFor(rows, p) : rows[i] \in Rows /\ CommandsIn(rows)[p] = rows[i][2]
  <1>1. CASE RowsFor(rows, p) = {}
    BY <1>1, CommandsInRows
  <1>2. CASE RowsFor(rows, p) # {}
    <2>1. Len(rows) \in Nat /\ RowsFor(rows, p) \subseteq 1 .. Len(rows)
      BY DEF CommandRows, RowsFor, GoodRows
    <2>2. \E i \in RowsFor(rows, p) : \A j \in RowsFor(rows, p) : j <= i
      BY <1>2, <2>1, GreatestIndex
    <2>. DEFINE i == CHOOSE i \in RowsFor(rows, p) : \A j \in RowsFor(rows, p) : j <= i
    <2>3. i \in RowsFor(rows, p)
      BY <2>2, Zenon
    <2>4. CommandsIn(rows)[p] = rows[i][2]
      BY <1>2, CommandsInRows
    <2>. HIDE DEF i
    <2>5. rows[i] # Unreadable /\ rows[i] \in Rows \cup {Unreadable}
      <3>1. i \in 1 .. i /\ i \in 1 .. Len(rows)
        BY <2>1, <2>3
      <3>2. \A j \in 1 .. i : rows[j] # Unreadable
        BY <2>3 DEF RowsFor, GoodRows
      <3>. QED
        BY <3>1, <3>2 DEF CommandRows
    <2>. QED
      BY <2>3, <2>4, <2>5
  <1>. QED
    BY <1>1, <1>2

LEMMA CommandsInType == ASSUME NEW rows \in CommandRows PROVE CommandsIn(rows) \in CommandMap
  <1>1. ASSUME NEW p \in Phrases PROVE CommandsIn(rows)[p] \in Meanings \cup {Untaught}
    BY ReadFromARow DEF Rows
  <1>. QED
    BY <1>1, CommandsInIsMap DEF CommandMap

LEMMA RowsOfMap ==
    ASSUME NEW m \in CommandMap
    PROVE  LET taught == {p \in Phrases : m[p] # Untaught}
               s == RowsOf(m)
           IN  /\ s \in Seq(Rows)
               /\ {s[i][1] : i \in DOMAIN s} = taught /\ \A i \in DOMAIN s : s[i][2] = m[s[i][1]]
  <1>. DEFINE taught == {p \in Phrases : m[p] # Untaught}
              n == Cardinality(taught)
              Sorted(s) == {s[i][1] : i \in DOMAIN s} = taught /\ \A i \in DOMAIN s : s[i][2] = m[s[i][1]]
  <1>1. IsFiniteSet(taught)
    BY CommandAssumption, FS_Subset
  <1>2. n \in Nat /\ ExistsBijection(1 .. n, taught)
    BY <1>1, FS_CardinalityType
  <1>. HIDE DEF n
  <1>3. PICK b \in [1 .. n -> taught] : \A p \in taught : \E i \in 1 .. n : b[i] = p
    BY <1>2 DEF ExistsBijection, Bijection, Surjection
  <1>. DEFINE t == [i \in 1 .. n |-> <<b[i], m[b[i]]>>]
  <1>4. \A i \in 1 .. n : b[i] \in taught /\ t[i] = <<b[i], m[b[i]]>> /\ t[i] \in Rows
    BY <1>3 DEF Rows, CommandMap
  <1>5. t \in [1 .. n -> Rows] /\ DOMAIN t = 1 .. n
    BY <1>4
  <1>. HIDE DEF t
  <1>6. {t[i][1] : i \in DOMAIN t} = taught
    BY <1>3, <1>4, <1>5
  <1>7. Sorted(t)
    BY <1>4, <1>5, <1>6
  <1>8. RowsOf(m) = CHOOSE s \in [1 .. n -> Rows] : Sorted(s)
    BY DEF RowsOf, n
  <1>. HIDE DEF Sorted
  <1>9. RowsOf(m) \in [1 .. n -> Rows] /\ Sorted(RowsOf(m))
    BY <1>5, <1>7, <1>8, Zenon
  <1>10. RowsOf(m) \in Seq(Rows)
    BY <1>2, <1>9
  <1>. QED
    BY <1>9, <1>10 DEF Sorted

LEMMA RowsAreRead ==
    ASSUME NEW m \in CommandMap
    PROVE  RowsOf(m) \in CommandRows /\ CommandsIn(RowsOf(m)) = m
  <1>. DEFINE taught == {p \in Phrases : m[p] # Untaught}
              s == RowsOf(m)
  <1>1. /\ s \in Seq(Rows)
        /\ {s[i][1] : i \in DOMAIN s} = taught /\ \A i \in DOMAIN s : s[i][2] = m[s[i][1]]
    BY RowsOfMap
  <1>. HIDE DEF s
  <1>2. s \in CommandRows
    BY <1>1 DEF CommandRows
  <1>3. GoodRows(s) = DOMAIN s
    <2>1. \A i \in DOMAIN s : s[i] # Unreadable
      BY <1>1, CommandAssumption
    <2>2. DOMAIN s = 1 .. Len(s) /\ Len(s) \in Nat
      BY <1>1
    <2>. QED
      BY <2>1, <2>2 DEF GoodRows
  <1>4. ASSUME NEW p \in Phrases PROVE CommandsIn(s)[p] = m[p]
    <2>1. CASE RowsFor(s, p) = {} /\ CommandsIn(s)[p] = Untaught
      <3>1. p \notin taught
        BY <1>1, <1>3, <2>1 DEF RowsFor
      <3>. QED
        BY <2>1, <3>1
    <2>2. CASE \E i \in RowsFor(s, p) : s[i] \in Rows /\ CommandsIn(s)[p] = s[i][2]
      BY <1>1, <1>3, <2>2 DEF RowsFor
    <2>. QED
      BY <1>2, <2>1, <2>2, ReadFromARow
  <1>5. CommandsIn(s) = m
    BY <1>4, CommandsInIsMap DEF CommandMap
  <1>. QED
    BY <1>2, <1>5 DEF s

-----------------------------------------------------------------------------
LEMMA CommandInitInv == CommandInit => CommandInv
  <1>. SUFFICES ASSUME CommandInit PROVE CommandInv
    OBVIOUS
  <1>0. NoCommands \in CommandMap /\ <<>> \in CommandRows
    BY DEF NoCommands, CommandMap, CommandRows
  <1>1. CommandTypes
    BY <1>0, CommandAssumption DEF CommandInit, CommandTypes
  <1>2. \A p \in Phrases : CommandsIn(<<>>)[p] = Untaught
    <2>1. \A p \in Phrases : RowsFor(<<>>, p) = {}
      BY DEF RowsFor, GoodRows
    <2>. QED
      BY <2>1, CommandsInRows
  <1>3. PromisedCommandsSurvive
    BY <1>2 DEF CommandInit, PromisedCommandsSurvive, NoCommands
  <1>4. MemoryIsPromised
    BY DEF CommandInit, MemoryIsPromised
  <1>. QED
    BY <1>1, <1>3, <1>4 DEF CommandInv

LEMMA CommandStepInv == CommandInv /\ [CommandNext]_commandVars => CommandInv'
  <1>. SUFFICES ASSUME CommandInv, [CommandNext]_commandVars PROVE CommandInv'
    OBVIOUS
  <1>t. CommandTypes /\ PromisedCommandsSurvive /\ MemoryIsPromised
    BY DEF CommandInv
  <1>1. ASSUME NEW p \in Phrases, NEW m \in Meanings \cup {Untaught}, Alter(p, m)
        PROVE  CommandInv'
    <2>. UNCHANGED <<alive, commandFile, temporary, promised, unsettled, handEdits>>
      BY <1>1 DEF Alter
    <2>1. /\ alive /\ saving = "no" /\ saving' = "begun" /\ change' = p
          /\ items' = [items EXCEPT ![p] = m]
      BY <1>1 DEF Alter
    <2>2. CommandTypes'
      BY <1>t, <2>1 DEF CommandTypes, CommandMap
    <2>3. PromisedCommandsSurvive'
      BY <1>t DEF PromisedCommandsSurvive
    <2>4. MemoryIsPromised'
      BY <1>t, <2>1 DEF MemoryIsPromised, CommandTypes, CommandMap
    <2>. QED
      BY <2>2, <2>3, <2>4 DEF CommandInv
  <1>2. CASE WriteTemporary
    <2>. UNCHANGED <<alive, items, commandFile, change, promised, unsettled, handEdits>>
      BY <1>2 DEF WriteTemporary
    <2>1. saving = "begun" /\ saving' = "written" /\ temporary' = RowsOf(items)
      BY <1>2 DEF WriteTemporary, WholeRows
    <2>2. temporary' \in CommandRows
      BY <1>t, <2>1, RowsAreRead DEF CommandTypes
    <2>3. CommandTypes'
      BY <1>t, <2>1, <2>2 DEF CommandTypes
    <2>4. PromisedCommandsSurvive'
      BY <1>t DEF PromisedCommandsSurvive
    <2>5. RowsOf(items)' = RowsOf(items)
      BY DEF RowsOf
    <2>6. MemoryIsPromised'
      BY <1>t, <2>1, <2>5 DEF MemoryIsPromised
    <2>. QED
      BY <2>3, <2>4, <2>6 DEF CommandInv
  <1>3. CASE ReplaceCommandFile
    <2>. UNCHANGED <<alive, items, temporary, change, handEdits>>
      BY <1>3 DEF ReplaceCommandFile
    <2>1. /\ saving = "written" /\ saving' = "no" /\ commandFile' = temporary
          /\ promised' = [promised EXCEPT ![change] = items[change]]
          /\ unsettled' = unsettled \ {change}
      BY <1>3 DEF ReplaceCommandFile
    <2>2. CommandTypes'
      BY <1>t, <2>1 DEF CommandTypes, CommandMap
    <2>3. \A p \in Phrases \ unsettled' : items[p] = promised'[p]
      BY <1>t, <2>1 DEF CommandTypes, CommandMap, MemoryIsPromised
    <2>4. CommandsIn(temporary) = items
      BY <1>t, <2>1, RowsAreRead DEF CommandTypes, MemoryIsPromised
    <2>5. CommandsIn(commandFile)' = items
      <3>1. CommandsIn(commandFile)' = CommandsIn(temporary)
        BY <2>1 DEF CommandsIn
      <3>. QED
        BY <2>4, <3>1
    <2>6. PromisedCommandsSurvive'
      BY <2>3, <2>5 DEF PromisedCommandsSurvive
    <2>7. MemoryIsPromised'
      BY <2>1, <2>3 DEF MemoryIsPromised
    <2>. QED
      BY <2>2, <2>6, <2>7 DEF CommandInv
  <1>4. CASE SaveFails
    <2>. UNCHANGED <<alive, items, commandFile, temporary, change, promised, handEdits>>
      BY <1>4 DEF SaveFails
    <2>1. saving # "no" /\ saving' = "no" /\ unsettled' = unsettled \cup {change}
      BY <1>4 DEF SaveFails
    <2>2. CommandTypes'
      BY <1>t, <2>1 DEF CommandTypes
    <2>3. PromisedCommandsSurvive' /\ MemoryIsPromised'
      BY <1>t, <2>1 DEF PromisedCommandsSurvive, MemoryIsPromised
    <2>. QED
      BY <2>2, <2>3 DEF CommandInv
  <1>5. CASE Killed
    <2>. UNCHANGED <<commandFile, temporary, change, promised, handEdits>>
      BY <1>5 DEF Killed
    <2>1. /\ alive' = FALSE /\ saving' = "no" /\ items' = NoCommands
          /\ unsettled \subseteq unsettled' /\ unsettled' \subseteq unsettled \cup {change}
      BY <1>5 DEF Killed
    <2>2. NoCommands \in CommandMap
      BY DEF NoCommands, CommandMap
    <2>3. CommandTypes'
      BY <1>t, <2>1, <2>2 DEF CommandTypes
    <2>4. PromisedCommandsSurvive' /\ MemoryIsPromised'
      BY <1>t, <2>1 DEF PromisedCommandsSurvive, MemoryIsPromised
    <2>. QED
      BY <2>3, <2>4 DEF CommandInv
  <1>6. CASE Starts
    <2>. UNCHANGED <<saving, commandFile, temporary, change, promised, unsettled, handEdits>>
      BY <1>6 DEF Starts
    <2>1. ~alive /\ alive' = TRUE /\ items' = CommandsIn(commandFile) /\ saving = "no"
      BY <1>6, <1>t DEF Starts, CommandTypes, MemoryIsPromised
    <2>2. items' \in CommandMap
      BY <1>t, <2>1, CommandsInType DEF CommandTypes
    <2>3. CommandTypes'
      BY <1>t, <2>1, <2>2 DEF CommandTypes
    <2>4. PromisedCommandsSurvive' /\ MemoryIsPromised'
      BY <1>t, <2>1 DEF PromisedCommandsSurvive, MemoryIsPromised
    <2>. QED
      BY <2>3, <2>4 DEF CommandInv
  <1>7. ASSUME NEW i, NEW bad \in BOOLEAN, EditByHand(i, bad) PROVE CommandInv'
    <2>. UNCHANGED <<alive, saving, items, temporary, change>>
      BY <1>7 DEF EditByHand
    <2>1. /\ ~alive /\ handEdits < MaxHandEdits /\ handEdits' = handEdits + 1 /\ i \in DOMAIN commandFile
          /\ unsettled' = {} /\ promised' = CommandsIn(commandFile') /\ saving = "no"
      BY <1>7, <1>t DEF EditByHand, CommandTypes, MemoryIsPromised
    <2>2. commandFile' \in CommandRows
      <3>1. /\ commandFile \in CommandRows /\ Len(commandFile) \in Nat /\ i \in 1 .. Len(commandFile)
            /\ \A j \in 1 .. Len(commandFile) : commandFile[j] \in Rows \cup {Unreadable}
        BY <1>t, <2>1 DEF CommandTypes, CommandRows
      <3>2. CASE bad
        <4>1. commandFile' = [commandFile EXCEPT ![i] = Unreadable]
          BY <1>7, <3>2 DEF EditByHand
        <4>. QED
          BY <3>1, <4>1 DEF CommandRows
      <3>3. CASE ~bad
        <4>1. commandFile' = SubSeq(commandFile, 1, i - 1) \o SubSeq(commandFile, i + 1, Len(commandFile))
          BY <1>7, <3>3 DEF EditByHand
        <4>2. /\ SubSeq(commandFile, 1, i - 1) \in CommandRows
              /\ SubSeq(commandFile, i + 1, Len(commandFile)) \in CommandRows
          BY <3>1, SubSeqProperties DEF CommandRows
        <4>. QED
          BY <4>1, <4>2 DEF CommandRows
      <3>. QED
        BY <3>2, <3>3
    <2>3. promised' \in CommandMap
      <3>1. \A rows \in CommandRows : CommandsIn(rows) \in CommandMap
        BY CommandsInType
      <3>. QED
        BY <2>1, <2>2, <3>1
    <2>4. CommandTypes'
      <3>1. handEdits' \in 0 .. MaxHandEdits
        BY <1>t, <2>1, CommandAssumption DEF CommandTypes
      <3>. QED
        BY <1>t, <2>1, <2>2, <2>3, <3>1 DEF CommandTypes
    <2>5. PromisedCommandsSurvive' /\ MemoryIsPromised'
      BY <2>1 DEF PromisedCommandsSurvive, MemoryIsPromised
    <2>. QED
      BY <2>4, <2>5 DEF CommandInv
  <1>8. CASE UNCHANGED commandVars
    BY <1>8, <1>t DEF commandVars, CommandInv, CommandTypes, PromisedCommandsSurvive, MemoryIsPromised,
                      CommandsIn, RowsOf
  <1>. QED
    BY <1>1, <1>2, <1>3, <1>4, <1>5, <1>6, <1>7, <1>8 DEF CommandNext

LEMMA CommandEnough == CommandInv => CommandsSurvive
  <1>. SUFFICES ASSUME CommandInv PROVE CommandsSurvive
    OBVIOUS
  <1>1. \A f \in {commandFile, temporary} : \A i \in DOMAIN f : f[i] \in Rows \cup {Unreadable}
    BY DEF CommandInv, CommandTypes, CommandRows
  <1>2. CommandTypeOK
    BY <1>1 DEF CommandInv, CommandTypes, CommandTypeOK, CommandMap
  <1>. QED
    BY <1>2 DEF CommandInv, CommandsSurvive

\* What the owner was told is saved is what the next start reads, whatever
\* save failed or was killed, however many phrases there are
\* (CustomCommandStore).
THEOREM CommandsDoSurvive == CommandSpec => []CommandsSurvive
  <1>1. CommandSpec => []CommandInv
    BY CommandInitInv, CommandStepInv, PTL DEF CommandSpec
  <1>. QED
    BY <1>1, CommandEnough, PTL

-----------------------------------------------------------------------------
(***************************************************************************)
(* Settings. SettingsAreRead is inductive with the file itself: what was   *)
(* written is what its first line of the key that is no comment says,      *)
(* whatever the environment has, and that a broken-off rewrite leaves some *)
(* of its first lines.                                                     *)
(***************************************************************************)

EnvLine == [key : Keys, value : Values \cup {Torn}, comment : BOOLEAN]
EnvFile == Seq(EnvLine)
Sets(l, k) == l.key = k /\ ~l.comment
Has(k, env) == PlacesOf(k, env) # {}

SettingsTypes ==
    /\ environment \in [Keys -> Values \cup {Unset}]
    /\ envLines \in EnvFile /\ Len(envLines) <= MaxEnvLines
    /\ writtenValue \in [Keys -> Values \cup {Unset}]
    /\ atRisk \subseteq Keys

\* What was written is what the file says, whatever the environment has; of
\* a key that a broken rewrite lost or tore it says nothing older.
SaysIt(k) == \/ FileValue(k, envLines) = writtenValue[k]
             \/ k \in atRisk /\ FileValue(k, envLines) \in {Default, Torn}
FileSaysIt == \A k \in Keys : writtenValue[k] # Unset => SaysIt(k)

SettingsInv == SettingsTypes /\ FileSaysIt

-----------------------------------------------------------------------------
(* What a file says of a key.                                              *)

LEMMA PlaceFound ==
    ASSUME NEW env \in EnvFile, NEW k, Has(k, env)
    PROVE  /\ FirstPlace(k, env) \in 1 .. Len(env) /\ Sets(env[FirstPlace(k, env)], k)
           /\ \A j \in PlacesOf(k, env) : FirstPlace(k, env) <= j
           /\ FirstPlace(k, env) \in PlacesOf(k, env)
  <1>1. PlacesOf(k, env) \subseteq Nat /\ PlacesOf(k, env) \subseteq 1 .. Len(env)
    BY DEF EnvFile, PlacesOf
  <1>2. \E i \in PlacesOf(k, env) : \A j \in PlacesOf(k, env) : i <= j
    BY <1>1, LeastNat DEF Has
  <1>3. /\ FirstPlace(k, env) \in PlacesOf(k, env)
        /\ \A j \in PlacesOf(k, env) : FirstPlace(k, env) <= j
    BY <1>2, Zenon DEF FirstPlace
  <1>. QED
    BY <1>1, <1>3 DEF PlacesOf, Sets

\* A place before which no line sets the key is the one that counts.
LEMMA FirstCounts ==
    ASSUME NEW env \in EnvFile, NEW k, NEW i \in 1 .. Len(env), Sets(env[i], k),
           \A j \in 1 .. i - 1 : ~Sets(env[j], k)
    PROVE  Has(k, env) /\ FileValue(k, env) = env[i].value
  <1>1. i \in PlacesOf(k, env) /\ DOMAIN env = 1 .. Len(env)
    BY DEF EnvFile, PlacesOf, Sets
  <1>2. Has(k, env)
    BY <1>1 DEF Has
  <1>3. FirstPlace(k, env) = i
    <2>1. FirstPlace(k, env) <= i /\ FirstPlace(k, env) \in 1 .. Len(env)
          /\ Sets(env[FirstPlace(k, env)], k)
      BY <1>1, <1>2, PlaceFound
    <2>2. FirstPlace(k, env) \notin 1 .. i - 1
      BY <2>1
    <2>. QED
      BY <2>1, <2>2
  <1>. QED
    BY <1>2, <1>3 DEF FileValue, Has

\* The files one after the other: the first that sets the key counts.
LEMMA ValueOfBoth ==
    ASSUME NEW s \in EnvFile, NEW t \in EnvFile, NEW k
    PROVE  /\ s \o t \in EnvFile
           /\ Has(k, s \o t) <=> Has(k, s) \/ Has(k, t)
           /\ FileValue(k, s \o t) = IF Has(k, s) THEN FileValue(k, s) ELSE FileValue(k, t)
  <1>. DEFINE u == s \o t
  <1>0. /\ u \in EnvFile /\ Len(u) = Len(s) + Len(t) /\ Len(s) \in Nat /\ Len(t) \in Nat
        /\ DOMAIN u = 1 .. Len(s) + Len(t) /\ DOMAIN s = 1 .. Len(s) /\ DOMAIN t = 1 .. Len(t)
    BY DEF EnvFile
  <1>1. \A i \in 1 .. Len(s) : i \in 1 .. Len(u) /\ u[i] = s[i]
    BY DEF EnvFile
  <1>2. \A i \in 1 .. Len(t) : i + Len(s) \in 1 .. Len(u) /\ u[i + Len(s)] = t[i]
    BY DEF EnvFile
  <1>3. \A i \in 1 .. Len(u) : i > Len(s) => i - Len(s) \in 1 .. Len(t) /\ u[i] = t[i - Len(s)]
    BY DEF EnvFile
  <1>. HIDE DEF u
  <1>4. CASE Has(k, s)
    <2>. DEFINE i == FirstPlace(k, s)
    <2>1. i \in 1 .. Len(s) /\ Sets(s[i], k) /\ \A j \in PlacesOf(k, s) : i <= j
      BY <1>4, PlaceFound
    <2>2. FileValue(k, s) = s[i].value
      BY <1>4 DEF FileValue, Has
    <2>. HIDE DEF i
    <2>3. \A j \in 1 .. i - 1 : ~Sets(u[j], k)
      <3>. SUFFICES ASSUME NEW j \in 1 .. i - 1 PROVE ~Sets(u[j], k)
        OBVIOUS
      <3>1. j \in 1 .. Len(s) /\ ~(i <= j)
        BY <1>0, <2>1
      <3>2. ~Sets(s[j], k)
        BY <1>0, <2>1, <3>1 DEF PlacesOf, Sets
      <3>. QED
        BY <1>1, <3>1, <3>2
    <2>4. Sets(u[i], k) /\ i \in 1 .. Len(u) /\ u[i] = s[i]
      BY <1>1, <2>1
    <2>5. Has(k, u) /\ FileValue(k, u) = u[i].value
      BY <1>0, <2>3, <2>4, FirstCounts
    <2>. QED
      BY <1>0, <1>4, <2>2, <2>4, <2>5 DEF u
  <1>5. CASE ~Has(k, s) /\ Has(k, t)
    <2>. DEFINE i == FirstPlace(k, t)
    <2>1. i \in 1 .. Len(t) /\ Sets(t[i], k) /\ \A j \in PlacesOf(k, t) : i <= j
      BY <1>5, PlaceFound
    <2>2. FileValue(k, t) = t[i].value
      BY <1>5 DEF FileValue, Has
    <2>. HIDE DEF i
    <2>3. \A j \in 1 .. i + Len(s) - 1 : ~Sets(u[j], k)
      <3>. SUFFICES ASSUME NEW j \in 1 .. i + Len(s) - 1 PROVE ~Sets(u[j], k)
        OBVIOUS
      <3>1. CASE j <= Len(s)
        <4>1. j \in 1 .. Len(s)
          BY <1>0, <3>1
        <4>2. ~Sets(s[j], k)
          BY <1>0, <1>5, <4>1 DEF Has, PlacesOf, Sets
        <4>. QED
          BY <1>1, <4>1, <4>2
      <3>2. CASE j > Len(s)
        <4>1. j \in 1 .. Len(u) /\ j - Len(s) \in 1 .. Len(t) /\ ~(i <= j - Len(s))
          BY <1>0, <2>1, <3>2
        <4>2. ~Sets(t[j - Len(s)], k)
          BY <1>0, <2>1, <4>1 DEF PlacesOf, Sets
        <4>. QED
          BY <1>3, <3>2, <4>1, <4>2
      <3>. QED
        BY <1>0, <2>1, <3>1, <3>2
    <2>4. i + Len(s) \in 1 .. Len(u) /\ u[i + Len(s)] = t[i] /\ Sets(u[i + Len(s)], k)
      BY <1>2, <2>1
    <2>5. Has(k, u) /\ FileValue(k, u) = u[i + Len(s)].value
      <3>1. PICK w \in 1 .. Len(u) : w = i + Len(s)
        BY <2>4
      <3>2. Sets(u[w], k) /\ \A j \in 1 .. w - 1 : ~Sets(u[j], k)
        <4>1. Sets(u[w], k)
          BY <2>4, <3>1, Zenon
        <4>2. ASSUME NEW j \in 1 .. w - 1 PROVE j \in 1 .. i + Len(s) - 1
          BY <1>0, <2>1, <3>1
        <4>. QED
          BY <2>3, <4>1, <4>2, Zenon
      <3>3. Has(k, u) /\ FileValue(k, u) = u[w].value
        BY <1>0, <3>2, FirstCounts
      <3>. QED
        BY <3>1, <3>3
    <2>. QED
      BY <1>0, <1>5, <2>2, <2>4, <2>5 DEF u
  <1>6. CASE ~Has(k, s) /\ ~Has(k, t)
    <2>1. ASSUME NEW i \in 1 .. Len(u) PROVE ~Sets(u[i], k)
      <3>1. CASE i <= Len(s)
        <4>1. i \in 1 .. Len(s)
          BY <1>0, <3>1
        <4>. QED
          BY <1>0, <1>1, <1>6, <4>1 DEF Has, PlacesOf, Sets
      <3>2. CASE i > Len(s)
        <4>1. i - Len(s) \in 1 .. Len(t) /\ u[i] = t[i - Len(s)]
          BY <1>3, <3>2
        <4>. QED
          BY <1>0, <1>6, <4>1 DEF Has, PlacesOf, Sets
      <3>. QED
        BY <1>0, <3>1, <3>2
    <2>2. ~Has(k, u)
      BY <1>0, <2>1 DEF Has, PlacesOf, Sets
    <2>. QED
      BY <1>0, <1>6, <2>2 DEF FileValue, Has, u
  <1>. QED
    BY <1>4, <1>5, <1>6

\* A line more.
LEMMA ValueOfLine ==
    ASSUME NEW l \in EnvLine, NEW k
    PROVE  /\ <<l>> \in EnvFile
           /\ Has(k, <<l>>) <=> Sets(l, k)
           /\ Sets(l, k) => FileValue(k, <<l>>) = l.value
           /\ ~Sets(l, k) => FileValue(k, <<l>>) = Default
  <1>1. <<l>> \in EnvFile /\ Len(<<l>>) = 1 /\ <<l>>[1] = l /\ DOMAIN <<l>> = 1 .. 1
    BY DEF EnvFile
  <1>2. Has(k, <<l>>) <=> Sets(l, k)
    BY <1>1 DEF Has, PlacesOf, Sets
  <1>3. ASSUME Sets(l, k) PROVE FileValue(k, <<l>>) = l.value
    BY <1>1, <1>3, FirstCounts
  <1>4. ASSUME ~Sets(l, k) PROVE FileValue(k, <<l>>) = Default
    BY <1>2, <1>4 DEF FileValue, Has
  <1>. QED
    BY <1>1, <1>2, <1>3, <1>4

LEMMA ValueOfAppended ==
    ASSUME NEW s \in EnvFile, NEW l \in EnvLine, NEW k
    PROVE  /\ Append(s, l) \in EnvFile
           /\ FileValue(k, Append(s, l)) = IF Has(k, s) THEN FileValue(k, s)
                                           ELSE IF Sets(l, k) THEN l.value ELSE Default
           /\ Has(k, Append(s, l)) <=> Has(k, s) \/ Sets(l, k)
  <1>1. Append(s, l) = s \o <<l>>
    BY DEF EnvFile
  <1>. QED
    BY <1>1, ValueOfBoth, ValueOfLine

\* Leaving out lines that do not set a key changes nothing of it.
LEMMA ValueOfKept ==
    ASSUME NEW s \in EnvFile, NEW S, NEW k, \A l \in InSeq(s) : Sets(l, k) => l \in S
    PROVE  /\ KeepOnly(s, S) \in EnvFile
           /\ FileValue(k, KeepOnly(s, S)) = FileValue(k, s)
           /\ Has(k, KeepOnly(s, S)) <=> Has(k, s)
  <1>. DEFINE P == PlacesIn(s, S)
              f == AtUpTo(s, P)
              Akin(n) == /\ f[n] \in EnvFile /\ SubSeq(s, 1, n) \in EnvFile
                         /\ FileValue(k, f[n]) = FileValue(k, SubSeq(s, 1, n))
                         /\ Has(k, f[n]) <=> Has(k, SubSeq(s, 1, n))
              G == {n \in 0 .. Len(s) : Akin(n)}
  <1>0. /\ Len(s) \in Nat /\ \A i \in 1 .. Len(s) : s[i] \in EnvLine /\ s[i] \in InSeq(s)
        /\ s \in Seq(EnvLine)
    BY DEF EnvFile, InSeq
  <1>a. \A n \in 1 .. Len(s) : n \in P <=> s[n] \in S
    BY DEF EnvFile, PlacesIn
  <1>. HIDE DEF f, P
  <1>1. 0 \in G
    <2>1. f[0] = <<>>
      BY <1>0, AtEquations DEF f
    <2>2. SubSeq(s, 1, 0) = <<>> /\ <<>> \in EnvFile
      BY SubSeqEmpty DEF EnvFile
    <2>3. Akin(0)
      BY <2>1, <2>2
    <2>. QED
      BY <1>0, <2>3
  <1>2. ASSUME NEW n \in 0 .. Len(s) - 1, n \in G PROVE n + 1 \in G
    <2>1. PICK m \in 1 .. Len(s) : m = n + 1 /\ m - 1 = n
      BY <1>0, <1>2
    <2>2. f[m] = IF s[m] \in S THEN Append(f[n], s[m]) ELSE f[n]
      BY <1>0, <1>a, <2>1, AtEquations DEF f
    <2>3. Akin(n)
      BY <1>2
    <2>4. SubSeq(s, 1, m) = Append(SubSeq(s, 1, n), s[m])
      <3>1. 1 \in 1 .. Len(s) /\ m \in 1 .. Len(s)
        BY <1>0, <2>1
      <3>2. SubSeq(s, 1, m) = SubSeq(s, 1, m - 1) \o <<s[m]>>
        BY <1>0, <3>1, SubSeqRecursiveSecond
      <3>3. SubSeq(s, 1, n) \o <<s[m]>> = Append(SubSeq(s, 1, n), s[m])
        BY <1>0, <2>1, <2>3 DEF EnvFile
      <3>. QED
        BY <2>1, <3>2, <3>3
    <2>5. s[m] \in EnvLine /\ (Sets(s[m], k) => s[m] \in S)
      BY <1>0, <2>1
    <2>. DEFINE a == f[n]
                b == SubSeq(s, 1, n)
    <2>6. a \in EnvFile /\ b \in EnvFile /\ FileValue(k, a) = FileValue(k, b) /\ (Has(k, a) <=> Has(k, b))
      BY <2>3
    <2>7. f[m] = (IF s[m] \in S THEN Append(a, s[m]) ELSE a) /\ SubSeq(s, 1, m) = Append(b, s[m])
      BY <2>2, <2>4
    <2>. HIDE DEF a, b
    <2>8. /\ Append(a, s[m]) \in EnvFile /\ Append(b, s[m]) \in EnvFile
          /\ FileValue(k, Append(a, s[m])) = FileValue(k, Append(b, s[m]))
          /\ Has(k, Append(a, s[m])) <=> Has(k, Append(b, s[m]))
      BY <2>5, <2>6, ValueOfAppended
    <2>9. ~Sets(s[m], k) => /\ FileValue(k, Append(b, s[m])) = FileValue(k, b)
                            /\ Has(k, Append(b, s[m])) <=> Has(k, b)
      <3>1. ~Has(k, b) => FileValue(k, b) = Default
        BY DEF FileValue, Has
      <3>. QED
        BY <2>5, <2>6, <3>1, ValueOfAppended
    <2>10. Akin(m)
      <3>1. CASE s[m] \in S
        BY <2>7, <2>8, <3>1
      <3>2. CASE s[m] \notin S
        BY <2>5, <2>6, <2>7, <2>8, <2>9, <3>2
      <3>. QED
        BY <3>1, <3>2
    <2>. QED
      BY <2>1, <2>10
  <1>. HIDE DEF G, Akin
  <1>3. Len(s) \in G
    <2>1. \A n \in 0 .. Len(s) - 1 : n \in G => n + 1 \in G
      BY <1>2
    <2>2. \A n \in 0 .. Len(s) : n \in G
      BY <1>0, <1>1, <2>1, Induction
    <2>. QED
      BY <1>0, <2>2
  <1>4. Akin(Len(s))
    BY <1>3 DEF G
  <1>5. SubSeq(s, 1, Len(s)) = s
    BY <1>0, SubSeqFull
  <1>6. KeepOnly(s, S) = f[Len(s)]
    BY ElementsAtEnd DEF f, P, KeepOnly
  <1>. QED
    BY <1>4, <1>5, <1>6 DEF Akin

-----------------------------------------------------------------------------
(* The rewritten file.                                                     *)

LEMMA RewrittenFile ==
    ASSUME envLines \in EnvFile, NEW k \in Keys, NEW v \in Values
    PROVE  /\ Rewritten(k, v) \in EnvFile
           /\ FileValue(k, Rewritten(k, v)) = v
           /\ \A c \in Keys \ {k} : FileValue(c, Rewritten(k, v)) = FileValue(c, envLines)
  <1>. DEFINE line == LineOf(k, v)
  <1>1. line \in EnvLine /\ Sets(line, k) /\ line.value = v /\ \A c : c # k => ~Sets(line, c)
    BY DEF LineOf, EnvLine, Sets
  <1>. HIDE DEF line
  <1>2. CASE ~Has(k, envLines)
    <2>1. Rewritten(k, v) = Append(envLines, line)
      BY <1>2 DEF Rewritten, Has, line
    <2>2. ASSUME NEW c \in Keys \ {k} PROVE FileValue(c, Append(envLines, line)) = FileValue(c, envLines)
      <3>1. ~Has(c, envLines) => FileValue(c, envLines) = Default
        BY DEF FileValue, Has
      <3>. QED
        BY <1>1, <3>1, ValueOfAppended
    <2>. QED
      BY <1>1, <1>2, <2>1, <2>2, ValueOfAppended
  <1>3. CASE Has(k, envLines)
    <2>. DEFINE at == FirstPlace(k, envLines)
                before == SubSeq(envLines, 1, at - 1)
                after == SubSeq(envLines, at + 1, Len(envLines))
                others == {l \in InSeq(after) : l.key # k \/ l.comment}
                kept == KeepOnly(after, others)
    <2>1. Rewritten(k, v) = before \o <<line>> \o kept
      BY <1>3 DEF Rewritten, Has, line
    <2>2. /\ at \in 1 .. Len(envLines) /\ Sets(envLines[at], k) /\ Len(envLines) \in Nat
          /\ \A j \in PlacesOf(k, envLines) : at <= j
      BY <1>3, PlaceFound DEF EnvFile
    <2>. HIDE DEF at
    <2>3. \A j \in 1 .. Len(envLines) : envLines[j] \in EnvLine
      BY DEF EnvFile
    <2>4. /\ before \in EnvFile /\ Len(before) = at - 1
          /\ \A j \in 1 .. at - 1 : before[j] = envLines[j]
      BY <2>2, <2>3, SubSeqProperties DEF EnvFile
    <2>5. after \in EnvFile
      BY <2>2, <2>3, SubSeqProperties DEF EnvFile
    <2>6. envLines = (before \o <<envLines[at]>>) \o after
      <3>0. envLines \in Seq(EnvLine)
        BY DEF EnvFile
      <3>1. SubSeq(envLines, 1, at) = before \o <<envLines[at]>>
        BY <2>2, <3>0, SubSeqRecursiveSecond
      <3>2. SubSeq(envLines, 1, at) \o after = SubSeq(envLines, 1, Len(envLines))
        BY <2>2, <3>0, ConcatAdjacentSubSeq
      <3>3. SubSeq(envLines, 1, Len(envLines)) = envLines
        BY <3>0, SubSeqFull
      <3>. QED
        BY <3>1, <3>2, <3>3
    <2>7. ~Has(k, before)
      <3>. SUFFICES ASSUME NEW j \in PlacesOf(k, before) PROVE FALSE
        BY DEF Has
      <3>1. j \in 1 .. at - 1 /\ Sets(before[j], k)
        BY <2>4 DEF PlacesOf, EnvFile, Sets
      <3>2. j \in PlacesOf(k, envLines)
        BY <2>2, <2>4, <3>1 DEF PlacesOf, Sets, EnvFile
      <3>. QED
        BY <2>2, <3>1, <3>2
    <2>. HIDE DEF before, after
    <2>8. kept \in EnvFile
      BY <2>5, KeepElements DEF EnvFile
    <2>9. \A c \in Keys \ {k} : FileValue(c, kept) = FileValue(c, after) /\ (Has(c, kept) <=> Has(c, after))
      <3>. TAKE c \in Keys \ {k}
      <3>1. \A l \in InSeq(after) : Sets(l, c) => l \in others
        BY DEF Sets
      <3>. HIDE DEF others
      <3>. QED
        BY <2>5, <3>1, ValueOfKept
    <2>. HIDE DEF kept, others
    <2>10. <<line>> \in EnvFile /\ before \o <<line>> \in EnvFile
           /\ <<envLines[at]>> \in EnvFile /\ before \o <<envLines[at]>> \in EnvFile
           /\ (before \o <<line>>) \o kept \in EnvFile
      BY <1>1, <2>2, <2>3, <2>4, <2>8, ValueOfLine, ValueOfBoth
    <2>11. FileValue(k, (before \o <<line>>) \o kept) = v
      <3>1. FileValue(k, <<line>>) = v /\ Has(k, <<line>>)
        BY <1>1, ValueOfLine
      <3>2. FileValue(k, before \o <<line>>) = v /\ Has(k, before \o <<line>>)
        BY <2>4, <2>7, <2>10, <3>1, ValueOfBoth
      <3>. QED
        BY <2>8, <2>10, <3>2, ValueOfBoth
    <2>12. ASSUME NEW c \in Keys \ {k}
           PROVE  FileValue(c, (before \o <<line>>) \o kept) = FileValue(c, envLines)
      <3>1. ~Has(c, <<line>>) /\ ~Has(c, <<envLines[at]>>)
        <4>1. ~Sets(line, c) /\ ~Sets(envLines[at], c)
          BY <1>1, <2>2 DEF Sets
        <4>. QED
          BY <1>1, <2>2, <2>3, <4>1, ValueOfLine
      <3>2. /\ Has(c, before \o <<line>>) <=> Has(c, before)
            /\ Has(c, before \o <<envLines[at]>>) <=> Has(c, before)
            /\ Has(c, before) => FileValue(c, before \o <<line>>) = FileValue(c, before \o <<envLines[at]>>)
        BY <2>4, <2>10, <3>1, ValueOfBoth
      <3>3. FileValue(c, (before \o <<line>>) \o kept)
              = FileValue(c, (before \o <<envLines[at]>>) \o after)
        BY <2>5, <2>8, <2>9, <2>10, <3>2, ValueOfBoth
      <3>. QED
        BY <2>6, <3>3
    <2>. QED
      BY <2>1, <2>10, <2>11, <2>12
  <1>. QED
    BY <1>2, <1>3

\* A line changed or added says nothing new of the keys it does not name.
LEMMA EditedFile ==
    ASSUME NEW env \in EnvFile, NEW i \in 1 .. Len(env), NEW l \in EnvLine, NEW c,
           l.key # c, env[i].key # c
    PROVE  FileValue(c, [env EXCEPT ![i] = l]) = FileValue(c, env)
  <1>. DEFINE new == [env EXCEPT ![i] = l]
  <1>1. new \in EnvFile /\ DOMAIN new = DOMAIN env
    BY DEF EnvFile
  <1>2. \A j \in DOMAIN env : new[j] = IF j = i THEN l ELSE env[j]
    OBVIOUS
  <1>. HIDE DEF new
  <1>3. PlacesOf(c, new) = PlacesOf(c, env)
    BY <1>1, <1>2 DEF PlacesOf
  <1>4. FirstPlace(c, new) = FirstPlace(c, env)
    BY <1>3 DEF FirstPlace
  <1>5. FileValue(c, new) = FileValue(c, env)
    <2>1. CASE ~Has(c, env)
      BY <1>3, <2>1 DEF FileValue, Has
    <2>2. CASE Has(c, env)
      <3>1. FirstPlace(c, env) \in PlacesOf(c, env)
        BY <2>2, PlaceFound
      <3>2. FirstPlace(c, env) # i
        BY <3>1 DEF PlacesOf
      <3>3. new[FirstPlace(c, env)] = env[FirstPlace(c, env)]
        BY <1>2, <3>1, <3>2 DEF PlacesOf
      <3>. QED
        BY <1>3, <1>4, <2>2, <3>3 DEF FileValue, Has
    <2>. QED
      BY <2>1, <2>2
  <1>. QED
    BY <1>5 DEF new

-----------------------------------------------------------------------------
LEMMA SettingsInitInv == SettingsInit => SettingsInv
  <1>. SUFFICES ASSUME SettingsInit PROVE SettingsInv
    OBVIOUS
  <1>1. (CHOOSE v \in Values : TRUE) \in Values
    BY SettingsAssumption
  <1>2. environment \in [Keys -> Values \cup {Unset}]
    BY <1>1 DEF SettingsInit
  <1>3. envLines \in EnvFile /\ Len(envLines) <= MaxEnvLines
    BY SettingsAssumption DEF SettingsInit, EnvFile
  <1>4. writtenValue \in [Keys -> Values \cup {Unset}] /\ FileSaysIt /\ atRisk \subseteq Keys
    BY DEF SettingsInit, FileSaysIt
  <1>. QED
    BY <1>2, <1>3, <1>4 DEF SettingsInv, SettingsTypes

\* The first lines of a file say what the file says, or nothing.
LEMMA ValueOfPrefix ==
    ASSUME NEW w \in EnvFile, NEW n \in 0 .. Len(w), NEW k
    PROVE  /\ SubSeq(w, 1, n) \in EnvFile /\ Len(SubSeq(w, 1, n)) = n
           /\ Has(k, SubSeq(w, 1, n)) => FileValue(k, SubSeq(w, 1, n)) = FileValue(k, w)
           /\ ~Has(k, SubSeq(w, 1, n)) => FileValue(k, SubSeq(w, 1, n)) = Default
  <1>. DEFINE a == SubSeq(w, 1, n)
              b == SubSeq(w, n + 1, Len(w))
  <1>0. w \in Seq(EnvLine) /\ Len(w) \in Nat /\ \A j \in 1 .. Len(w) : w[j] \in EnvLine
    BY DEF EnvFile
  <1>1. a \in EnvFile /\ Len(a) = n
    BY <1>0, SubSeqProperties DEF EnvFile
  <1>2. b \in EnvFile
    BY <1>0, SubSeqProperties DEF EnvFile
  <1>3. w = a \o b
    <2>1. /\ 1 \in 1 .. Len(w) + 1 /\ n \in (1 - 1) .. Len(w) /\ Len(w) \in n .. Len(w)
      BY <1>0
    <2>2. SubSeq(w, 1, n) \o SubSeq(w, n + 1, Len(w)) = SubSeq(w, 1, Len(w))
      BY <1>0, <2>1, ConcatAdjacentSubSeq
    <2>3. SubSeq(w, 1, Len(w)) = w
      BY <1>0, SubSeqFull
    <2>. QED
      BY <2>2, <2>3, Zenon
  <1>. HIDE DEF a, b
  <1>4. Has(k, a) => FileValue(k, a) = FileValue(k, w)
    BY <1>1, <1>2, <1>3, ValueOfBoth
  <1>5. ~Has(k, a) => FileValue(k, a) = Default
    BY DEF FileValue, Has
  <1>. QED
    BY <1>1, <1>4, <1>5 DEF a

LEMMA SameFile ==
    ASSUME SettingsInv, UNCHANGED <<envLines, writtenValue, atRisk>>
    PROVE  FileSaysIt'
  <1>1. \A k \in Keys : FileValue(k, envLines)' = FileValue(k, envLines)
    BY DEF FileValue, PlacesOf, FirstPlace
  <1>. QED
    BY <1>1 DEF SettingsInv, FileSaysIt, SaysIt

\* Of a key that is neither written nor touched the file says what it said.
LEMMA OthersSaid ==
    ASSUME FileSaysIt, NEW c \in Keys, NEW new,
           envLines' = new, FileValue(c, new) = FileValue(c, envLines),
           writtenValue'[c] = writtenValue[c], c \in atRisk => c \in atRisk',
           writtenValue'[c] # Unset
    PROVE  SaysIt(c)'
  <1>1. FileValue(c, envLines)' = FileValue(c, new)
    BY DEF FileValue, PlacesOf, FirstPlace
  <1>. QED
    BY <1>1 DEF FileSaysIt, SaysIt

LEMMA SettingsStepInv == SettingsInv /\ [SettingsNext]_settingVars => SettingsInv'
  <1>. SUFFICES ASSUME SettingsInv, [SettingsNext]_settingVars PROVE SettingsInv'
    OBVIOUS
  <1>t. SettingsTypes /\ FileSaysIt
    BY DEF SettingsInv
  <1>1. ASSUME NEW k \in Keys, NEW v \in Values, NEW inRoot \in BOOLEAN, WriteKey(k, v, inRoot)
        PROVE  SettingsInv'
    <2>. UNCHANGED environment
      BY <1>1 DEF WriteKey
    <2>1. CASE inRoot
      <3>. DEFINE new == Rewritten(k, v)
      <3>1. /\ Len(new) <= MaxEnvLines /\ envLines' = new
            /\ writtenValue' = [writtenValue EXCEPT ![k] = v] /\ atRisk' = atRisk \ {k}
        BY <1>1, <2>1 DEF WriteKey
      <3>2. /\ new \in EnvFile /\ FileValue(k, new) = v
            /\ \A c \in Keys \ {k} : FileValue(c, new) = FileValue(c, envLines)
        BY <1>t, RewrittenFile DEF SettingsTypes
      <3>. HIDE DEF new
      <3>3. SettingsTypes'
        BY <1>t, <3>1, <3>2 DEF SettingsTypes
      <3>4. \A c \in Keys : FileValue(c, envLines)' = FileValue(c, new)
        BY <3>1 DEF FileValue, PlacesOf, FirstPlace
      <3>5. \A c \in Keys : writtenValue'[c] = IF c = k THEN v ELSE writtenValue[c]
        BY <1>t, <3>1 DEF SettingsTypes
      <3>6. ASSUME NEW c \in Keys, writtenValue'[c] # Unset PROVE SaysIt(c)'
        <4>1. CASE c = k
          BY <3>2, <3>4, <3>5, <4>1 DEF SaysIt
        <4>2. CASE c # k
          BY <1>t, <3>1, <3>2, <3>5, <3>6, <4>2, OthersSaid
        <4>. QED
          BY <4>1, <4>2
      <3>7. FileSaysIt'
        BY <3>6 DEF FileSaysIt
      <3>. QED
        BY <3>3, <3>7 DEF SettingsInv
    <2>2. CASE ~inRoot
      <3>1. UNCHANGED <<envLines, writtenValue, atRisk>>
        BY <1>1, <2>2 DEF WriteKey
      <3>2. SettingsTypes'
        BY <1>t, <3>1 DEF SettingsTypes
      <3>. QED
        BY <3>1, <3>2, SameFile DEF SettingsInv
    <2>. QED
      BY <2>1, <2>2
  <1>2. ASSUME NEW k \in Keys, NEW v \in Values, NEW n \in 0 .. MaxEnvLines, NEW torn \in BOOLEAN,
               BrokenOff(k, v, n, torn)
        PROVE  SettingsInv'
    <2>. UNCHANGED environment
      BY <1>2 DEF BrokenOff
    <2>. DEFINE whole == Rewritten(k, v)
                some == SubSeq(whole, 1, n)
    <2>1. /\ Len(whole) <= MaxEnvLines /\ n < Len(whole)
          /\ envLines' = IF torn THEN Append(some, TornLine(whole[n + 1])) ELSE some
          /\ writtenValue' = [writtenValue EXCEPT ![k] = Unset] /\ atRisk' = Keys
      BY <1>2 DEF BrokenOff
    <2>2. /\ whole \in EnvFile /\ Len(whole) \in Nat
          /\ \A c \in Keys \ {k} : FileValue(c, whole) = FileValue(c, envLines)
      BY <1>t, RewrittenFile DEF SettingsTypes, EnvFile
    <2>. HIDE DEF whole
    <2>3. n \in 0 .. Len(whole) /\ n + 1 \in 1 .. Len(whole)
      BY <2>1, <2>2
    <2>4. /\ some \in EnvFile /\ Len(some) = n
          /\ \A c : Has(c, some) => FileValue(c, some) = FileValue(c, whole)
          /\ \A c : ~Has(c, some) => FileValue(c, some) = Default
      BY <2>2, <2>3, ValueOfPrefix
    <2>. DEFINE last == TornLine(whole[n + 1])
    <2>5. last \in EnvLine /\ last.value = Torn
      <3>1. whole[n + 1] \in EnvLine
        BY <2>2, <2>3 DEF EnvFile
      <3>. QED
        BY <3>1 DEF TornLine, EnvLine
    <2>. HIDE DEF some, last
    <2>6. envLines' = (IF torn THEN Append(some, last) ELSE some) /\ envLines' \in EnvFile
          /\ Len(envLines') <= MaxEnvLines
      <3>1. envLines' = IF torn THEN Append(some, last) ELSE some
        BY <2>1 DEF some, last
      <3>2. CASE torn
        <4>1. Append(some, last) \in EnvFile /\ Len(Append(some, last)) = n + 1
          BY <2>4, <2>5 DEF EnvFile
        <4>. QED
          BY <2>1, <2>2, <3>1, <3>2, <4>1, SettingsAssumption
      <3>3. CASE ~torn
        BY <2>1, <2>2, <2>4, <3>1, <3>3, SettingsAssumption
      <3>. QED
        BY <3>2, <3>3
    <2>7. SettingsTypes'
      BY <1>t, <2>1, <2>6 DEF SettingsTypes
    <2>8. ASSUME NEW c \in Keys, writtenValue'[c] # Unset PROVE SaysIt(c)'
      <3>1. c # k /\ writtenValue'[c] = writtenValue[c]
        BY <1>t, <2>1, <2>8 DEF SettingsTypes
      <3>2. FileValue(c, envLines') \in {FileValue(c, whole), Default, Torn}
        <4>1. FileValue(c, some) \in {FileValue(c, whole), Default}
          BY <2>4, Zenon
        <4>2. FileValue(c, Append(some, last)) \in {FileValue(c, whole), Default, Torn}
          BY <2>4, <2>5, ValueOfAppended
        <4>. QED
          BY <2>6, <4>1, <4>2
      <3>3. FileValue(c, envLines)' = FileValue(c, envLines')
        BY DEF FileValue, PlacesOf, FirstPlace
      <3>4. FileValue(c, whole) = FileValue(c, envLines)
        BY <2>2, <3>1
      <3>5. FileValue(c, envLines) \in {writtenValue[c], Default, Torn}
        BY <1>t, <2>8, <3>1 DEF FileSaysIt, SaysIt
      <3>6. FileValue(c, envLines') \in {writtenValue'[c], Default, Torn}
        BY <3>1, <3>2, <3>4, <3>5
      <3>. QED
        BY <2>1, <3>3, <3>6 DEF SaysIt
    <2>9. FileSaysIt'
      BY <2>8 DEF FileSaysIt
    <2>. QED
      BY <2>7, <2>9 DEF SettingsInv
  <1>4. ASSUME NEW i \in 1 .. MaxEnvLines, NEW k \in Keys, NEW v \in Values, NEW comment \in BOOLEAN,
               OwnerEdits(i, k, v, comment)
        PROVE  SettingsInv'
    <2>. UNCHANGED <<environment, atRisk>>
      BY <1>4 DEF OwnerEdits
    <2>. DEFINE line == [key |-> k, value |-> v, comment |-> comment]
    <2>1. line \in EnvLine /\ line.key = k
      BY DEF EnvLine
    <2>. HIDE DEF line
    <2>2. /\ i \in 1 .. Len(envLines) + 1 /\ i <= MaxEnvLines /\ envLines \in EnvFile
          /\ Len(envLines) \in Nat /\ DOMAIN envLines = 1 .. Len(envLines) /\ Len(envLines) <= MaxEnvLines
      BY <1>4, <1>t DEF OwnerEdits, SettingsTypes, EnvFile
    <2>3. writtenValue' = [c \in Keys |-> IF c = k \/ (i <= Len(envLines) /\ envLines[i].key = c)
                                          THEN Unset ELSE writtenValue[c]]
      BY <1>4 DEF OwnerEdits
    <2>4. writtenValue' \in [Keys -> Values \cup {Unset}]
      BY <1>t, <2>3 DEF SettingsTypes
    <2>5. CASE i > Len(envLines)
      <3>1. envLines' = Append(envLines, line) /\ i = Len(envLines) + 1
        BY <1>4, <2>2, <2>5 DEF OwnerEdits, line
      <3>2. envLines' \in EnvFile /\ Len(envLines') <= MaxEnvLines
        BY <2>1, <2>2, <3>1 DEF EnvFile
      <3>3. ASSUME NEW c \in Keys, writtenValue'[c] # Unset
            PROVE  SaysIt(c)'
        <4>1. c # k /\ writtenValue'[c] = writtenValue[c]
          BY <2>3, <3>3
        <4>3. ~Sets(line, c)
          BY <2>1, <4>1 DEF Sets
        <4>4. FileValue(c, Append(envLines, line)) = FileValue(c, envLines)
          <5>1. ~Has(c, envLines) => FileValue(c, envLines) = Default
            BY DEF FileValue, Has
          <5>. QED
            BY <2>1, <2>2, <4>3, <5>1, ValueOfAppended
        <4>. QED
          BY <1>t, <3>1, <3>3, <4>1, <4>4, OthersSaid
      <3>4. FileSaysIt'
        BY <3>3 DEF FileSaysIt
      <3>. QED
        BY <1>t, <2>4, <3>2, <3>4 DEF SettingsInv, SettingsTypes
    <2>6. CASE ~(i > Len(envLines))
      <3>1. envLines' = [envLines EXCEPT ![i] = line] /\ i \in 1 .. Len(envLines)
        BY <1>4, <2>2, <2>6 DEF OwnerEdits, line
      <3>2. envLines' \in EnvFile /\ Len(envLines') <= MaxEnvLines
        BY <2>1, <2>2, <3>1 DEF EnvFile
      <3>3. ASSUME NEW c \in Keys, writtenValue'[c] # Unset
            PROVE  SaysIt(c)'
        <4>1. c # k /\ envLines[i].key # c /\ writtenValue'[c] = writtenValue[c]
          BY <2>2, <2>3, <3>1, <3>3
        <4>3. FileValue(c, [envLines EXCEPT ![i] = line]) = FileValue(c, envLines)
          BY <2>1, <2>2, <3>1, <4>1, EditedFile
        <4>. QED
          BY <1>t, <3>1, <3>3, <4>1, <4>3, OthersSaid
      <3>4. FileSaysIt'
        BY <3>3 DEF FileSaysIt
      <3>. QED
        BY <1>t, <2>4, <3>2, <3>4 DEF SettingsInv, SettingsTypes
    <2>. QED
      BY <2>5, <2>6
  <1>5. CASE UNCHANGED settingVars
    <2>1. SettingsTypes' /\ UNCHANGED <<envLines, writtenValue, atRisk>>
      BY <1>5, <1>t DEF settingVars, SettingsTypes
    <2>. QED
      BY <2>1, SameFile DEF SettingsInv
  <1>. QED
    BY <1>1, <1>2, <1>4, <1>5 DEF SettingsNext

LEMMA SettingsEnough == SettingsInv => SettingsAreRead
  <1>. SUFFICES ASSUME SettingsInv PROVE SettingsAreRead
    OBVIOUS
  <1>1. SettingsTypeOK
    <2>1. \A i \in DOMAIN envLines : envLines[i] \in EnvLine
      BY DEF SettingsInv, SettingsTypes, EnvFile
    <2>. QED
      BY <2>1 DEF SettingsInv, SettingsTypes, SettingsTypeOK, EnvLine
  <1>2. WrittenIsRead
    BY DEF SettingsInv, FileSaysIt, SaysIt, WrittenIsRead, Read
  <1>. QED
    BY <1>1, <1>2 DEF SettingsAreRead

\* Whatever the owner has made of the file, the value a command in the panel's
\* folder says it has written is what the next start reads, and a command
\* that writes another key leaves it so, or, broken off in the middle, loses
\* or tears it without bringing an older one back (config.py:17-42,
\* voice/cli.py:311-341).
THEOREM SettingsAreAlwaysRead == SettingsSpec => []SettingsAreRead
  <1>1. SettingsSpec => []SettingsInv
    BY SettingsInitInv, SettingsStepInv, PTL DEF SettingsSpec
  <1>. QED
    BY <1>1, SettingsEnough, PTL
=============================================================================

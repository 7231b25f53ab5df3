--------------------------- MODULE ApprovalProofs ---------------------------
(***************************************************************************)
(* Theorems about what the assistant lets through: the approval gate for   *)
(* any number of typed, ticked and spoken requests, any namable spoken     *)
(* floor and any number of tool calls; the web access for any number of    *)
(* redirects and results; the opening of applications for any list,        *)
(* owner's file and names.                                                 *)
(*                                                                         *)
(* ApprovalTurns first. Its properties are not inductive: that a lenient   *)
(* approver belongs to the turn in progress survives EndTurn only because  *)
(* that turn remembered the panel's approver, and it remembered it because *)
(* the approver is the panel's whenever the lock is free. GateInv adds     *)
(* those facts. What makes the others inductive is said where each begins. *)
(***************************************************************************)
EXTENDS ApprovalTurns, WebAccess, Applications, ListFacts, TLAPS

\* The lock and the turn agree, a turn remembers the panel's approver, and
\* no floor, in force or remembered, is laxer than the default.
LockInv ==
    /\ \A r \in Request : InTurn(r) <=> agentLock = r
    /\ \A r \in Request : InTurn(r) => approverBefore[r] = "panel"
    /\ approver = "ticked" => agentLock \in Ticked
FloorInv ==
    /\ taban <= DefaultFloor
    /\ \A r \in Request : floorBefore[r] <= DefaultFloor
AtGate(r) == pc[r] \in {"comparing", "asking"} => risk[r] \in Risk
GateInv ==
    /\ TypeOK
    /\ LockInv
    /\ FloorInv
    /\ \A r \in Request : AtGate(r)
    /\ AuthorityOfEveryRun

LEMMA EffectiveRiskInRisk ==
    ASSUME NEW d \in Risk, NEW c \in NoClassifier .. Fails
    PROVE  EffectiveRisk(d, c) \in Risk /\ d <= EffectiveRisk(d, c)
  BY DEF EffectiveRisk, Risk, NoClassifier, Fails, LOW, CRITICAL

LEMMA GateInit == Init => GateInv
  <1> SUFFICES ASSUME Init PROVE GateInv
    OBVIOUS
  <1> USE DEF Init
  <1>1. TypeOK
    <2>1. ran \in SUBSET [by : Request, risk : Risk, asked : BOOLEAN]
      OBVIOUS
    <2>2. overlapped \in BOOLEAN
      OBVIOUS
    <2>3. risk \in [Request -> Risk \cup {NoRisk}] /\ calls \in [Request -> 0 .. MaxCalls]
      BY CallsAssumption
    <2>. QED
      BY <2>1, <2>2, <2>3 DEF TypeOK, Risk, LOW, CRITICAL, DefaultFloor, MEDIUM, PC
  <1>2. LockInv
    BY NoOneAssumption DEF LockInv, InTurn
  <1>3. FloorInv
    BY DEF FloorInv, DefaultFloor, MEDIUM
  <1>4. AuthorityOfEveryRun /\ \A r \in Request : AtGate(r)
    BY DEF AuthorityOfEveryRun, AtGate
  <1>. QED
    BY <1>1, <1>2, <1>3, <1>4 DEF GateInv

LEMMA GateStep == GateInv /\ [Next]_vars => GateInv'
  <1> SUFFICES ASSUME GateInv, [Next]_vars PROVE GateInv'
    OBVIOUS
  <1> USE CallsAssumption, FloorAssumption, NoOneAssumption
      DEF GateInv, TypeOK, LockInv, FloorInv, AtGate, AuthorityOfEveryRun,
          InTurn, Goto, Risk, LOW, MEDIUM, HIGH, CRITICAL, DefaultFloor,
          NamableFloor, NoRisk, PC
  <1>1. ASSUME NEW r \in Request, Hear(r) PROVE GateInv'
    BY <1>1 DEF Hear
  <1>2. ASSUME NEW r \in Request, ReadFloor(r) PROVE GateInv'
    BY <1>2 DEF ReadFloor
  <1>3. ASSUME NEW r \in Request, RaiseFloor(r) PROVE GateInv'
    BY <1>3 DEF RaiseFloor, Raised, Lower
  <1>4. ASSUME NEW r \in Request, LeaveFloor(r) PROVE GateInv'
    BY <1>4 DEF LeaveFloor, RestoredFloor
  <1>5. ASSUME NEW r \in Request, Arrive(r) PROVE GateInv'
    BY <1>5 DEF Arrive
  <1>6. ASSUME NEW r \in Request, TakeLock(r) PROVE GateInv'
    BY <1>6 DEF TakeLock, TurnApprover, Request
  <1>7. ASSUME NEW r \in Request, EndTurn(r) PROVE GateInv'
    BY <1>7 DEF EndTurn, ApproverAfter, ReleasedLock, AfterTurn
  <1>8. ASSUME NEW r \in Request, Dispatch(r) PROVE GateInv'
    BY <1>8, EffectiveRiskInRisk DEF Dispatch
  <1>9. ASSUME NEW r \in Request, CompareWithFloor(r) PROVE GateInv'
    <2> SUFFICES ASSUME WithinFloor(risk[r]), Run(r, risk[r], FALSE) PROVE GateInv'
      BY <1>9 DEF CompareWithFloor
    <2>1. risk[r] \in Risk /\ risk[r] <= DefaultFloor
      BY <1>9 DEF CompareWithFloor, WithinFloor
    <2> DEFINE e == [by |-> r, risk |-> risk[r], asked |-> FALSE]
    <2>2. e \in [by : Request, risk : Risk, asked : BOOLEAN] /\ e.risk <= DefaultFloor
      BY <2>1
    <2>3. ran' = ran \cup {e}
      BY DEF Run
    <2>4. ran' \in SUBSET [by : Request, risk : Risk, asked : BOOLEAN]
      <3> HIDE DEF e
      <3>. QED
        BY <2>2, <2>3
    <2>5. AuthorityOfEveryRun'
      <3> HIDE DEF e
      <3>. QED
        BY <2>2, <2>3
    <2>6. TypeOK' /\ LockInv' /\ FloorInv' /\ \A q \in Request : AtGate(q)'
      BY <1>9, <2>4 DEF CompareWithFloor
    <2>. QED
      BY <2>5, <2>6
  <1>10. ASSUME NEW r \in Request, AskApprover(r) PROVE GateInv'
    <2>1. CASE ~SaysYes(risk[r])
      BY <1>10, <2>1 DEF AskApprover
    <2>2. CASE SaysYes(risk[r])
      <3> DEFINE e == [by |-> r, risk |-> risk[r], asked |-> TRUE]
      <3>1. r \in Ticked /\ risk[r] = HIGH
        BY <1>10, <2>2 DEF AskApprover, SaysYes
      <3>2. /\ e \in [by : Request, risk : Risk, asked : BOOLEAN]
            /\ e.by \in Ticked /\ e.risk = HIGH /\ e.asked
        BY <3>1
      <3>3. ran' = ran \cup {e}
        BY <1>10, <2>2 DEF AskApprover, Run
      <3>4. ran' \in SUBSET [by : Request, risk : Risk, asked : BOOLEAN]
        <4> HIDE DEF e
        <4>. QED
          BY <3>2, <3>3
      <3>5. AuthorityOfEveryRun'
        <4> HIDE DEF e
        <4>. QED
          BY <3>2, <3>3
      <3>6. TypeOK' /\ LockInv' /\ FloorInv' /\ \A q \in Request : AtGate(q)'
        BY <1>10, <3>4 DEF AskApprover
      <3>. QED
        BY <3>5, <3>6
    <2>. QED
      BY <2>1, <2>2
  <1>11. CASE UNCHANGED vars
    BY <1>11 DEF vars
  <1>. QED
    BY <1>1, <1>2, <1>3, <1>4, <1>5, <1>6, <1>7, <1>8, <1>9, <1>10, <1>11
       DEF Next, Step, Idle

LEMMA GateInvariant == Spec => []GateInv
  BY GateInit, GateStep, PTL DEF Spec

\* Type correctness of the gate, for every set of requests and every bound.
THEOREM GateTypeCorrect == Spec => []TypeOK
  <1>1. GateInv => TypeOK
    BY DEF GateInv
  <1>. QED
    BY <1>1, GateInvariant, PTL

\* PanelServer.ask's "this one turn and HIGH only": the lenient approver is
\* installed only while a ticked request holds the lock and runs its turn.
THEOREM ApprovalIsScoped == Spec => []ApprovalStaysInItsTurn
  <1>1. GateInv => ApprovalStaysInItsTurn
    <2>1. Ticked \subseteq Request
      BY DEF Request
    <2>. QED
      BY <2>1 DEF GateInv, LockInv, ApprovalStaysInItsTurn
  <1>. QED
    BY <1>1, GateInvariant, PTL

\* No interleaving of any number of requests lets a call above the default
\* floor run, other than a HIGH call of the turn that was ticked for it.
THEOREM NothingRunsWithoutAuthority == Spec => []AuthorityOfEveryRun
  <1>1. GateInv => AuthorityOfEveryRun
    BY DEF GateInv
  <1>. QED
    BY <1>1, GateInvariant, PTL

-----------------------------------------------------------------------------
(* The floor.  While no two spoken requests were inside their floors at    *)
(* once, the floor is a function of where the one that is inside stands,   *)
(* and that function is the inductive invariant: raised from RaiseFloor    *)
(* until LeaveFloor, the default floor otherwise.                          *)

FloorPlaces == {"reading_floor", "raising_floor", "leaving_floor"}
FloorIsRaised(r) == UnderFloor(r) /\ pc[r] # "raising_floor"
FloorFollows ==
    /\ \A r, s \in Spoken : UnderFloor(r) /\ UnderFloor(s) => r = s
    /\ \A r \in Spoken : UnderFloor(r) => floorBefore[r] = DefaultFloor
    /\ \A r \in Spoken : FloorIsRaised(r) => taban = SpokenFloor
    /\ (\A r \in Spoken : ~FloorIsRaised(r)) => taban = DefaultFloor
MicInv ==
    /\ \A r \in Request : pc[r] \in FloorPlaces => r \in Spoken
    /\ ~overlapped => FloorFollows
    /\ SpokenStaysBelowItsFloor

LEMMA MicInit == Init => MicInv
  BY DEF Init, MicInv, FloorFollows, FloorIsRaised, UnderFloor, SpokenStaysBelowItsFloor,
         FloorPlaces, Request

LEMMA MicStep ==
    ASSUME GateInv, MicInv, [Next]_vars
    PROVE  MicInv'
  <1> USE FloorAssumption, RequestAssumption
      DEF FloorFollows, GateInv, TypeOK, LockInv, InTurn, AtGate, MicInv,
          FloorPlaces, FloorIsRaised, UnderFloor, Goto, DefaultFloor, LOW,
          MEDIUM, HIGH, NamableFloor, Request, PC
  <1>1. ASSUME NEW r \in Request, Hear(r) PROVE MicInv'
    BY <1>1 DEF Hear, SpokenStaysBelowItsFloor
  <1>2. ASSUME NEW r \in Request, ReadFloor(r) PROVE MicInv'
    BY <1>2 DEF ReadFloor, SpokenStaysBelowItsFloor
  <1>3. ASSUME NEW r \in Request, RaiseFloor(r) PROVE MicInv'
    BY <1>3 DEF RaiseFloor, Raised, Lower, SpokenStaysBelowItsFloor
  <1>4. ASSUME NEW r \in Request, LeaveFloor(r) PROVE MicInv'
    BY <1>4 DEF LeaveFloor, RestoredFloor, SpokenStaysBelowItsFloor
  <1>5. ASSUME NEW r \in Request, Arrive(r) PROVE MicInv'
    BY <1>5 DEF Arrive, SpokenStaysBelowItsFloor
  <1>6. ASSUME NEW r \in Request, TakeLock(r) PROVE MicInv'
    BY <1>6 DEF TakeLock, SpokenStaysBelowItsFloor
  <1>7. ASSUME NEW r \in Request, EndTurn(r) PROVE MicInv'
    BY <1>7 DEF EndTurn, AfterTurn, SpokenStaysBelowItsFloor
  <1>8. ASSUME NEW r \in Request, Dispatch(r) PROVE MicInv'
    BY <1>8 DEF Dispatch, SpokenStaysBelowItsFloor
  <1>9. ASSUME NEW r \in Request, CompareWithFloor(r) PROVE MicInv'
    BY <1>9 DEF CompareWithFloor, WithinFloor, Run, SpokenStaysBelowItsFloor
  <1>10. ASSUME NEW r \in Request, AskApprover(r) PROVE MicInv'
    BY <1>10 DEF AskApprover, SaysYes, Run, SpokenStaysBelowItsFloor
  <1>11. CASE UNCHANGED vars
    BY <1>11 DEF vars, SpokenStaysBelowItsFloor
  <1>. QED
    BY <1>1, <1>2, <1>3, <1>4, <1>5, <1>6, <1>7, <1>8, <1>9, <1>10, <1>11
       DEF Next, Step, Idle

\* "for the duration of a spoken turn the bar goes up": unless two spoken
\* requests overlapped, no call of a spoken turn ran above the spoken floor.
THEOREM SpokenTurnsKeepTheirFloor == Spec => []SpokenStaysBelowItsFloor
  <1>1. GateInv /\ MicInv /\ [Next]_vars => MicInv'
    BY MicStep
  <1>2. MicInv => SpokenStaysBelowItsFloor
    BY DEF MicInv
  <1>. QED
    BY <1>1, <1>2, MicInit, GateInvariant, PTL DEF Spec

\* "Cikista eski degere donuyor": unless two spoken requests overlapped, the
\* floor is the default one whenever none is inside its scope.
THEOREM FloorIsRestored == Spec => []FloorComesBack
  <1>1. GateInv /\ MicInv /\ [Next]_vars => MicInv'
    BY MicStep
  <1>2. MicInv => FloorComesBack
    BY DEF MicInv, FloorFollows, FloorComesBack, NobodySpeaks, FloorIsRaised
  <1>. QED
    BY <1>1, <1>2, MicInit, GateInvariant, PTL DEF Spec

\* _TabanKapsami as a whole, with the types it keeps.
THEOREM SpokenFloorIsScoped == Spec => []FloorOfSpokenTurns
  <1>1. FloorOfSpokenTurns <=> TypeOK /\ SpokenStaysBelowItsFloor /\ FloorComesBack
    BY DEF FloorOfSpokenTurns
  <1>. QED
    BY <1>1, GateTypeCorrect, SpokenTurnsKeepTheirFloor, FloorIsRestored, PTL

-----------------------------------------------------------------------------
(***************************************************************************)
(* WebAccess. WebIsHonest is inductive together with what the last         *)
(* examination found: an address that passed it answers as it did then, or *)
(* has moved since.                                                        *)
(***************************************************************************)

StillExamined ==
    /\ browsing = "examined" => WebName(hop) /\ (~moved => answers[hop.host] = {"public"})
    /\ browsing = "searching" => engine # "off"
WebInv == WebIsHonest /\ StillExamined

\* Whatever number the model asks for, the engine is asked for one result at
\* least and for no more than the tool allows.
LEMMA CountInRange ==
    ASSUME NEW asks \in Int
    PROVE  Count(asks) \in 1 .. MostResults
  BY WebAssumption DEF Count, NotANumber

LEMMA WebInitHonest == WebInit => WebInv
  <1>. SUFFICES ASSUME WebInit PROVE WebInv
    OBVIOUS
  <1>1. NoAddress \in Addresses /\ NoConnection \in Connections /\ NoConnection.side = "none"
    BY DEF NoAddress, Addresses, Schemes, Written, NoConnection, Connections
  <1>2. moved \in BOOLEAN
    BY Zenon DEF WebInit
  <1>3. WebTypeOK
    BY <1>1, <1>2, WebAssumption DEF WebInit, WebTypeOK
  <1>. QED
    BY <1>1, <1>3
    DEF WebInit, WebInv, WebIsHonest, NoSilentRefusal, EveryHopIsPublic, StillExamined

LEMMA SearchHonest ==
    ASSUME WebInv, NEW asks \in Int, NEW blank \in BOOLEAN, Search(asks, blank)
    PROVE  WebInv'
  <1>1. Count(asks) \in 0 .. MostResults
    BY CountInRange
  <1>2. WebTypeOK'
    BY <1>1, WebAssumption DEF WebInv, WebIsHonest, WebTypeOK, Search, Tells, fetchVars
  <1>. QED
    BY <1>2
    DEF WebInv, WebIsHonest, NoSilentRefusal, EveryHopIsPublic, StillExamined, Search, Tells,
        fetchVars

\* A call that ends in an error promises nothing.
LEMMA ErrorHonest ==
    ASSUME WebInv, Tells("error", 0), browsing' = "idle",
           UNCHANGED <<engine, answers, wanted, fetchVars>>
    PROVE  WebInv'
  <1>1. WebTypeOK'
    BY WebAssumption DEF WebInv, WebIsHonest, WebTypeOK, Tells, fetchVars
  <1>. QED
    BY <1>1
    DEF WebInv, WebIsHonest, NoSilentRefusal, EveryHopIsPublic, StillExamined, Tells, fetchVars

LEMMA PageHonest ==
    ASSUME WebInv, NEW p \in SearchPages, PageArrives(p)
    PROVE  WebInv'
  <1>. DEFINE blocked == engine = "duckduckgo" /\ (TakesAsBlocked(p) \/ ~p.markup)
              n == IF p.readable < wanted THEN p.readable ELSE wanted
  <1>. UNCHANGED <<engine, answers, wanted, fetchVars>> /\ browsing' = "idle"
    BY DEF PageArrives
  <1>1. CASE blocked
    BY <1>1, ErrorHonest DEF PageArrives
  <1>2. CASE ~blocked
    <2>1. Tells(IF n = 0 THEN "no_results" ELSE "results", n)
      BY <1>2 DEF PageArrives
    <2>2. n \in 0 .. MostResults
      BY WebAssumption DEF WebInv, WebIsHonest, WebTypeOK, SearchPages
    <2>3. cause' \in {"page", "disguised"}
      <3>1. engine \in {"off", "duckduckgo", "brave"}
        BY DEF WebInv, WebIsHonest, WebTypeOK
      <3>2. engine # "off"
        BY DEF PageArrives, WebInv, StillExamined
      <3>. QED
        BY <1>2, <3>1, <3>2 DEF PageArrives, TakesAsBlocked
    <2>4. WebTypeOK'
      <3>. HIDE DEF n, blocked
      <3>. QED
        BY <2>1, <2>2 DEF WebInv, WebIsHonest, WebTypeOK, Tells, fetchVars
    <2>. HIDE DEF n, blocked
    <2>. QED
      BY <2>1, <2>3, <2>4
      DEF WebInv, WebIsHonest, NoSilentRefusal, EveryHopIsPublic, StillExamined, Tells, fetchVars
  <1>. QED
    BY <1>1, <1>2

\* The first address and every redirect's are examined before they are asked.
LEMMA HopHonest ==
    ASSUME WebInv, NEW a \in Addresses, Read(a) \/ Redirected(a)
    PROVE  WebInv'
  <1>1. PICK n \in 0 .. MaxHops : ExaminedNext(a, n)
    BY WebAssumption DEF Read, Redirected, WebInv, WebIsHonest, WebTypeOK
  <1>2. CASE Follows(a)
    <2>1. /\ browsing' = "examined" /\ hop' = a /\ moved' = FALSE /\ hops' = n
          /\ UNCHANGED <<engine, answers, wanted, reached, cause, told>>
      BY <1>1, <1>2 DEF ExaminedNext
    <2>2. moved' \in BOOLEAN
      BY <2>1, Zenon
    <2>3. WebTypeOK'
      BY <2>1, <2>2, WebAssumption DEF WebInv, WebIsHonest, WebTypeOK
    <2>4. StillExamined'
      BY <1>2, <2>1 DEF StillExamined, Follows, Examined, WebName
    <2>. QED
      BY <2>1, <2>3, <2>4 DEF WebInv, WebIsHonest, NoSilentRefusal, EveryHopIsPublic, WebName
  <1>3. CASE ~Follows(a)
    BY <1>1, <1>3, ErrorHonest DEF ExaminedNext, fetchVars
  <1>. QED
    BY <1>2, <1>3

\* The second resolution agrees with the examination, or the name has moved.
LEMMA ConnectHonest ==
    ASSUME WebInv, NEW side \in Sides, Connect(side)
    PROVE  WebInv'
  <1>1. /\ browsing' = "fetching" /\ reached' = [to |-> hop, side |-> side, moved |-> moved]
        /\ UNCHANGED <<engine, answers, wanted, hop, moved, hops, cause, told>>
    BY DEF Connect
  <1>2. hop \in Addresses /\ moved \in BOOLEAN
    BY DEF WebInv, WebIsHonest, WebTypeOK
  <1>3. reached' \in Connections
    BY <1>1, <1>2 DEF Connections
  <1>4. WebTypeOK'
    BY <1>1, <1>3 DEF WebInv, WebIsHonest, WebTypeOK
  <1>5. WebName(hop) /\ (side = "private" => moved)
    BY DEF Connect, WebInv, StillExamined
  <1>6. EveryHopIsPublic'
    BY <1>1, <1>5 DEF EveryHopIsPublic, WebName
  <1>. QED
    BY <1>1, <1>4, <1>6 DEF WebInv, WebIsHonest, NoSilentRefusal, StillExamined

LEMMA MovesHonest ==
    ASSUME WebInv, NEW name \in Names, NEW answer \in SUBSET Sides, NameMoves(name, answer)
    PROVE  WebInv'
  <1>1. /\ answers' = [answers EXCEPT ![name] = answer]
        /\ moved' = (moved \/ (browsing = "examined" /\ name = hop.host))
        /\ UNCHANGED <<engine, browsing, wanted, hop, hops, reached, cause, told>>
    BY DEF NameMoves
  <1>2. answers \in [Names -> SUBSET Sides] /\ answers' \in [Names -> SUBSET Sides]
    BY <1>1 DEF WebInv, WebIsHonest, WebTypeOK
  <1>3. moved' \in BOOLEAN
    BY <1>1, Zenon
  <1>4. WebTypeOK'
    BY <1>1, <1>2, <1>3 DEF WebInv, WebIsHonest, WebTypeOK
  <1>5. StillExamined'
    <2>. SUFFICES ASSUME browsing = "examined"
                  PROVE  WebName(hop) /\ (~moved' => answers'[hop.host] = {"public"})
      BY <1>1 DEF StillExamined, WebName, WebInv
    <2>1. WebName(hop) /\ (~moved => answers[hop.host] = {"public"})
      BY DEF WebInv, StillExamined
    <2>2. ~moved' => ~moved /\ name # hop.host
      BY <1>1
    <2>. QED
      BY <1>1, <1>2, <2>1, <2>2 DEF WebName
  <1>. QED
    BY <1>1, <1>4, <1>5 DEF WebInv, WebIsHonest, NoSilentRefusal, EveryHopIsPublic, WebName

LEMMA FetchedHonest ==
    ASSUME WebInv, NEW size, NEW type, Fetched(size, type)
    PROVE  WebInv'
  <1>1. WebTypeOK'
    BY WebAssumption DEF WebInv, WebIsHonest, WebTypeOK, Fetched, Tells, fetchVars
  <1>. QED
    BY <1>1
    DEF WebInv, WebIsHonest, NoSilentRefusal, EveryHopIsPublic, StillExamined, Fetched, Tells,
        fetchVars

LEMMA WebStepHonest == WebInv /\ [WebNext]_webVars => WebInv'
  <1>. SUFFICES ASSUME WebInv, [WebNext]_webVars PROVE WebInv'
    OBVIOUS
  <1>1. ASSUME NEW asks \in {NotANumber, 0, 1, MostResults + 2}, NEW blank \in BOOLEAN,
               Search(asks, blank)
        PROVE  WebInv'
    <2>1. asks \in Int
      BY WebAssumption DEF NotANumber
    <2>. QED
      BY <1>1, <2>1, SearchHonest
  <1>2. CASE RequestFails \/ FetchFails
    BY <1>2, ErrorHonest DEF RequestFails, FetchFails
  <1>3. ASSUME NEW p \in SearchPages, PageArrives(p) PROVE WebInv'
    BY <1>3, PageHonest
  <1>4. ASSUME NEW a \in Addresses, Read(a) \/ Redirected(a) PROVE WebInv'
    BY <1>4, HopHonest
  <1>5. ASSUME NEW size, NEW type, Fetched(size, type) PROVE WebInv'
    BY <1>5, FetchedHonest
  <1>6. ASSUME NEW side \in Sides, Connect(side) PROVE WebInv'
    BY <1>6, ConnectHonest
  <1>7. ASSUME NEW name \in Names, NEW answer \in SUBSET Sides, NameMoves(name, answer)
        PROVE  WebInv'
    BY <1>7, MovesHonest
  <1>8. CASE UNCHANGED webVars
    BY <1>8
    DEF WebInv, WebIsHonest, WebTypeOK, NoSilentRefusal, EveryHopIsPublic, StillExamined,
        WebName, webVars, fetchVars
  <1>. QED
    BY <1>1, <1>2, <1>3, <1>4, <1>5, <1>6, <1>7, <1>8 DEF WebNext

\* However many redirects a fetch follows, however many results may be asked
\* for and whatever the names answer when: a refusal the code can tell is not
\* told as an empty list, and a connection ends in a private network only
\* when its name changed its answer after it was examined.
THEOREM WebStaysHonest == WebSpec => []WebIsHonest
  <1>1. WebInv => WebIsHonest
    BY DEF WebInv
  <1>. QED
    BY <1>1, WebInitHonest, WebStepHonest, PTL DEF WebSpec

-----------------------------------------------------------------------------
(***************************************************************************)
(* Applications. OpeningIsTrue is inductive with the reason of each        *)
(* opening: the entry is the one the look-up gives for the name and the    *)
(* file of that moment, and the openers not tried yet are a tail of those  *)
(* that the system offers for it.                                          *)
(***************************************************************************)

(* The look-up.                                                            *)

LEMMA CatalogueTyped ==
    ASSUME NEW file \in OwnerFiles
    PROVE  /\ Catalogue(file) \in Seq(Entries)
           /\ Len(Catalogue(file)) = Len(BuiltIn) + Len(file)
           /\ \A i \in DOMAIN file : /\ Len(BuiltIn) + i \in DOMAIN Catalogue(file)
                                     /\ Catalogue(file)[Len(BuiltIn) + i] = file[i]
           /\ \A k \in DOMAIN Catalogue(file) : k > Len(BuiltIn) =>
                /\ k - Len(BuiltIn) \in DOMAIN file
                /\ Catalogue(file)[k] = file[k - Len(BuiltIn)]
  BY AppAssumption DEF Catalogue

Hits(word, file, pass) ==
    {i \in DOMAIN Catalogue(file) : \E n \in Catalogue(file)[i].names : Matches(pass, n, word)}

LEMMA LastHit ==
    ASSUME NEW file \in OwnerFiles, NEW hits, hits \subseteq DOMAIN Catalogue(file), hits # {}
    PROVE  LET k == CHOOSE i \in hits : Wins(i, hits)
           IN  k \in hits /\ \A j \in hits : j <= k
  <1>1. Len(Catalogue(file)) \in Nat /\ DOMAIN Catalogue(file) = 1 .. Len(Catalogue(file))
    BY CatalogueTyped
  <1>2. \E x \in hits : \A y \in hits : y <= x
    BY <1>1, GreatestIndex
  <1>. QED
    BY <1>2 DEF Wins

\* What is found is an entry of the catalogue.
LEMMA BulFindsEntries ==
    ASSUME NEW word, NEW file \in OwnerFiles
    PROVE  \/ Bul(word, file) = NoEntry
           \/ \E i \in DOMAIN Catalogue(file) : Bul(word, file) = Catalogue(file)[i]
  <1>. DEFINE at(pass) == CHOOSE i \in Hits(word, file, pass) : Wins(i, Hits(word, file, pass))
  <1>1. ASSUME NEW pass, Hits(word, file, pass) # {}
        PROVE  at(pass) \in DOMAIN Catalogue(file)
    <2>1. Hits(word, file, pass) \subseteq DOMAIN Catalogue(file)
      BY DEF Hits
    <2>. QED
      BY <1>1, <2>1, LastHit
  <1>2. Bul(word, file) =
          IF word = <<>> THEN NoEntry
          ELSE IF Hits(word, file, "exact") # {} THEN Catalogue(file)[at("exact")]
          ELSE IF Hits(word, file, "start") # {} THEN Catalogue(file)[at("start")]
          ELSE IF Hits(word, file, "part") # {} THEN Catalogue(file)[at("part")]
          ELSE NoEntry
    BY Zenon DEF Bul, Hits
  <1>. HIDE DEF at
  <1>. QED
    BY <1>1, <1>2

\* A name of the owner's file is answered from the owner's file.
LEMMA BulPrefersTheOwner ==
    ASSUME NEW word, NEW file \in OwnerFiles, NEW o \in DOMAIN file, word \in file[o].names
    PROVE  \E i \in DOMAIN file : word \in file[i].names /\ Bul(word, file) = file[i]
  <1>. DEFINE hits == Hits(word, file, "exact")
              k == CHOOSE i \in hits : Wins(i, hits)
  <1>1. word # <<>>
    <2>1. file \in Seq(Entries)
      BY AppAssumption
    <2>2. file[o] \in Entries
      BY <2>1
    <2>. QED
      BY <2>2 DEF Entries
  <1>2. \A i \in DOMAIN Catalogue(file) : i \in hits <=> word \in Catalogue(file)[i].names
    BY DEF Hits, Matches
  <1>3. Len(BuiltIn) + o \in hits
    BY <1>2, CatalogueTyped
  <1>4. hits \subseteq DOMAIN Catalogue(file)
    BY DEF Hits
  <1>5. k \in hits /\ \A j \in hits : j <= k
    BY <1>3, <1>4, LastHit
  <1>6. Bul(word, file) = Catalogue(file)[k]
    BY <1>1, <1>3, Zenon DEF Bul, Hits
  <1>. HIDE DEF hits, k
  <1>7. o \in Nat \ {0} /\ Len(BuiltIn) \in Nat /\ k \in Nat
    <2>1. o \in Nat \ {0} /\ Len(BuiltIn) \in Nat
      BY AppAssumption
    <2>. QED
      BY <1>4, <1>5, <2>1, CatalogueTyped
  <1>8. k > Len(BuiltIn)
    BY <1>3, <1>5, <1>7
  <1>9. k - Len(BuiltIn) \in DOMAIN file /\ Catalogue(file)[k] = file[k - Len(BuiltIn)]
    BY <1>4, <1>5, <1>8, CatalogueTyped
  <1>10. word \in Catalogue(file)[k].names
    BY <1>2, <1>4, <1>5
  <1>. QED
    BY <1>6, <1>9, <1>10

-----------------------------------------------------------------------------
(* The openers.                                                            *)

\* The openers are tried in their order: what is left says which ones were
\* tried in vain.
LeftOfTwo(first, second) ==
    \/ untried = <<>>
    \/ untried = <<first, second>>
    \/ untried = <<second>> /\ first \in passed
TriedInOrder ==
    /\ system = "wsl" /\ entry.kind = "web" =>
         \/ untried = <<>>
         \/ untried = <<"wslview", "explorer", "xdg_open">>
         \/ untried = <<"explorer", "xdg_open">> /\ "wslview" \in passed
         \/ untried = <<"xdg_open">> /\ {"wslview", "explorer"} \subseteq passed
    /\ system = "windows" /\ entry.kind = "web" => LeftOfTwo("startfile", "xdg_open")
    /\ system = "windows" /\ entry.kind # "web" => untried = <<>> \/ untried = <<"startfile">>
    /\ system = "wsl" /\ entry.kind = "windows" => LeftOfTwo("direct", "cmd")
    /\ system = "wsl" /\ entry.kind = "uri" => LeftOfTwo("explorer", "cmd")
    /\ system = "linux" /\ entry.kind = "web" =>
         \A i \in DOMAIN untried : untried[i] # "cmd"
    /\ system = "linux" /\ entry.kind # "web" => untried = <<>>
AppInv ==
    /\ AppTypeOK
    /\ untried \in Seq(Openers)
    /\ entry = Bul(spoken, fileThen)
    /\ entry.kind \in {"web", "windows", "uri"}
    /\ installed \subseteq Installable(system)
    /\ TriedInOrder
    /\ OpenedIsReal

LEMMA BulTyped ==
    ASSUME NEW word, NEW file \in OwnerFiles, Bul(word, file) # NoEntry
    PROVE  Bul(word, file) \in Entries
  BY BulFindsEntries, CatalogueTyped

LEMMA OrderTyped ==
    ASSUME NEW sys \in {"windows", "wsl", "linux"}, NEW kind \in {"web", "windows", "uri"}
    PROVE  /\ Order(sys, kind) \in Seq(Openers)
           /\ kind = "web" => Order(sys, kind) = WebOrder(sys)
  <1>1. /\ <<>> \in Seq(Openers) /\ <<"startfile">> \in Seq(Openers)
        /\ <<"startfile", "xdg_open">> \in Seq(Openers)
        /\ <<"direct", "cmd">> \in Seq(Openers) /\ <<"explorer", "cmd">> \in Seq(Openers)
    BY DEF Openers
  <1>2. /\ <<"wslview", "explorer", "xdg_open">> \in Seq(Openers)
        /\ <<"xdg_open", "wslview", "explorer">> \in Seq(Openers)
    BY DEF Openers
  <1>3. WebOrder(sys) \in Seq(Openers)
    BY <1>1, <1>2 DEF WebOrder
  <1>5. kind # "web" => Order(sys, kind) \in {<<>>, <<"startfile">>, <<"direct", "cmd">>,
                                              <<"explorer", "cmd">>}
    BY Zenon DEF Order
  <1>6. kind = "web" => Order(sys, kind) = WebOrder(sys)
    BY DEF Order
  <1>. QED
    BY <1>1, <1>3, <1>5, <1>6

LEMMA AppInvIsEnough == AppInv => OpeningIsTrue
  <1>. SUFFICES ASSUME AppInv PROVE OwnersNameWins
    BY DEF AppInv, OpeningIsTrue
  <1>1. fileThen \in OwnerFiles /\ entry = Bul(spoken, fileThen)
    BY DEF AppInv, AppTypeOK
  <1>. QED
    BY <1>1, BulPrefersTheOwner DEF OwnersNameWins

LEMMA AppInitInv == AppInit => AppInv
  <1>. SUFFICES ASSUME AppInit PROVE AppInv
    OBVIOUS
  <1>1. Bul(<<>>, fileThen) = NoEntry /\ NoEntry.kind = "web"
    <2>1. Bul(<<>>, fileThen) = NoEntry
      BY Zenon DEF Bul
    <2>. QED
      BY <2>1 DEF NoEntry
  <1>2. AppTypeOK /\ untried \in Seq(Openers)
    <2>1. installed \subseteq Openers
      BY DEF AppInit, Installable, Openers
    <2>2. opened \in BOOLEAN
      BY Zenon DEF AppInit
    <2>. QED
      BY <2>1, <2>2 DEF AppInit, AppTypeOK
  <1>3. TriedInOrder /\ OpenedIsReal
    BY DEF AppInit, TriedInOrder, LeftOfTwo, OpenedIsReal
  <1>. QED
    BY <1>1, <1>2, <1>3 DEF AppInit, AppInv

LEMMA AskForInv ==
    ASSUME AppInv, NEW word \in Requests, AskFor(word)
    PROVE  AppInv'
  <1>1. ownFile \in OwnerFiles /\ fileThen' \in OwnerFiles /\ entry' = Bul(word, ownFile)
    BY DEF AppInv, AppTypeOK, AskFor
  <1>2. entry' = Bul(spoken, fileThen)'
    BY <1>1 DEF AskFor
  <1>3. entry' # NoEntry => entry' \in Entries
    BY <1>1, BulTyped
  <1>4. entry' # NoEntry => entry'.kind \in {"web", "windows", "uri"}
    BY <1>3 DEF Entries
  <1>0. entry'.kind \in {"web", "windows", "uri"}
    <2>1. NoEntry.kind = "web"
      BY DEF NoEntry
    <2>. QED
      BY <1>4, <2>1
  <1>5. untried' \in Seq(Openers)
    BY <1>4, OrderTyped DEF AskFor, AppInv, AppTypeOK
  <1>6. AppTypeOK'
    <2>1. \A i \in DOMAIN untried' : untried'[i] \in Openers
      BY <1>5
    <2>2. entry' = NoEntry \/ \E f \in OwnerFiles : \E i \in DOMAIN Catalogue(f) :
                                 entry' = Catalogue(f)[i]
      BY <1>1, BulFindsEntries
    <2>3. opened' \in BOOLEAN /\ reply' \in {"none", "opened", "unknown_name", "not_opened"}
      BY DEF AskFor
    <2>4. UNCHANGED <<system, installed, ownFile>> /\ spoken' \in Requests /\ passed' = {}
      BY DEF AskFor
    <2>5. by' \in Openers \cup {"none"}
      BY DEF AskFor
    <2>. QED
      BY <1>1, <2>1, <2>2, <2>3, <2>4, <2>5 DEF AppInv, AppTypeOK, Catalogue
  <1>7. TriedInOrder'
    <2>. SUFFICES ASSUME untried' # <<>> PROVE TriedInOrder'
      BY DEF TriedInOrder, LeftOfTwo
    <2>1. untried' = Order(system, entry'.kind)
      BY DEF AskFor
    <2>2. system' = system /\ system \in {"windows", "wsl", "linux"}
      BY DEF AskFor, AppInv, AppTypeOK
    <2>3. entry'.kind = "web" =>
            untried' = CASE system = "windows" -> <<"startfile", "xdg_open">>
                         [] system = "wsl" -> <<"wslview", "explorer", "xdg_open">>
                         [] system = "linux" -> <<"xdg_open", "wslview", "explorer">>
      BY <2>1, Zenon DEF Order, WebOrder
    <2>4. entry'.kind # "web" =>
            untried' = CASE system = "linux" -> <<>>
                         [] system = "windows" -> <<"startfile">>
                         [] system = "wsl" -> IF entry'.kind = "windows" THEN <<"direct", "cmd">>
                                                                        ELSE <<"explorer", "cmd">>
      BY <2>1, Zenon DEF Order
    <2>. QED
      BY <1>0, <2>2, <2>3, <2>4 DEF TriedInOrder, LeftOfTwo
  <1>8. OpenedIsReal'
    BY DEF AskFor, OpenedIsReal
  <1>. QED
    BY <1>0, <1>2, <1>5, <1>6, <1>7, <1>8 DEF AppInv, AskFor

LEMMA TryInv ==
    ASSUME AppInv, NEW result \in Results, Try(result)
    PROVE  AppInv'
  <1>. DEFINE opener == Head(untried)
              works == opener \in installed /\ result # "fails"
  <1>0. UNCHANGED <<system, installed, ownFile, spoken, entry, fileThen>>
    BY DEF Try
  <1>1. /\ untried # <<>> /\ untried \in Seq(Openers)
        /\ result = "ends" => ~Sound(opener)
        /\ untried' = IF works THEN <<>> ELSE Tail(untried)
        /\ opened' = (works /\ result = "opens")
        /\ by' = IF works THEN opener ELSE "none"
        /\ passed' = IF works THEN passed ELSE passed \cup {opener}
        /\ reply' = "opened" <=> works
        /\ reply' \in {"none", "opened", "not_opened"}
    BY DEF Try, AppInv
  <1>2. opener \in Openers /\ Tail(untried) \in Seq(Openers)
    BY <1>1
  <1>3. untried' \in Seq(Openers)
    BY <1>1, <1>2
  <1>4. opened' \in BOOLEAN
    BY <1>1, Zenon
  <1>5. AppTypeOK'
    BY <1>0, <1>1, <1>2, <1>3, <1>4 DEF AppInv, AppTypeOK
  <1>6. entry' = Bul(spoken, fileThen)'
    BY <1>0 DEF AppInv
  <1>7. TriedInOrder'
    <2>. SUFFICES ASSUME ~works PROVE TriedInOrder'
      BY <1>0, <1>1 DEF TriedInOrder, LeftOfTwo
    <2>1. untried' = Tail(untried) /\ passed' = passed \cup {opener}
      BY <1>1
    <2>2. ASSUME untried = <<"wslview", "explorer", "xdg_open">>
          PROVE  untried' = <<"explorer", "xdg_open">> /\ "wslview" \in passed'
      BY <2>1, <2>2
    <2>3. ASSUME untried = <<"explorer", "xdg_open">>, "wslview" \in passed
          PROVE  untried' = <<"xdg_open">> /\ {"wslview", "explorer"} \subseteq passed'
      BY <2>1, <2>3
    <2>4. ASSUME NEW one, untried = <<one>>
          PROVE  untried' = <<>>
      BY <2>1, <2>4
    <2>5. ASSUME NEW one, NEW two, LeftOfTwo(one, two)
          PROVE  LeftOfTwo(one, two)'
      <3>1. untried # <<>> /\ opener = Head(untried)
        BY <1>1
      <3>2. CASE untried = <<one, two>>
        BY <2>1, <3>1, <3>2 DEF LeftOfTwo
      <3>3. CASE untried = <<two>>
        BY <2>4, <3>3 DEF LeftOfTwo
      <3>. QED
        BY <2>5, <3>1, <3>2, <3>3 DEF LeftOfTwo
    <2>6. ASSUME \A i \in DOMAIN untried : untried[i] # "cmd"
          PROVE  \A i \in DOMAIN untried' : untried'[i] # "cmd"
      BY <1>1, <2>1, <2>6
    <2>. HIDE DEF opener, works
    <2>. QED
      BY <1>0, <1>1, <2>2, <2>3, <2>4, <2>5, <2>6 DEF AppInv, TriedInOrder
  <1>8. OpenedIsReal'
    <2>. SUFFICES ASSUME works, result = "ends"
                  PROVE  ~Sound(opener) /\ installed \cap Better(opener) \subseteq passed
      <3>1. works => by' = opener
        BY <1>1
      <3>2. result \in {"opens", "ends", "fails"}
        BY DEF Results
      <3>. QED
        BY <1>0, <1>1, <3>1, <3>2, Zenon DEF OpenedIsReal, Better
    <2>0. ~Sound(opener) /\ opener # "startfile"
      BY <1>1 DEF Sound
    <2>1. /\ system \in {"windows", "wsl", "linux"} /\ entry.kind \in {"web", "windows", "uri"}
          /\ installed \subseteq Installable(system) /\ TriedInOrder
      BY DEF AppInv, AppTypeOK
    <2>2. /\ \A one : untried = <<one>> => opener = one
          /\ \A one, two : untried = <<one, two>> => opener = one
          /\ \A one, two, three : untried = <<one, two, three>> => opener = one
      OBVIOUS
    <2>3. CASE opener = "xdg_open" /\ system # "linux"
      <3>1. Better(opener) = {"startfile", "wslview", "explorer"}
        BY <2>3 DEF Better
      <3>2. system = "wsl" => installed \cap {"startfile"} = {}
        BY <2>1 DEF Installable
      <3>3. system = "windows" => installed \cap {"wslview", "explorer"} = {}
        BY <2>1 DEF Installable
      <3>. HIDE DEF opener, works
      <3>4. entry.kind = "web"
        BY <1>1, <2>1, <2>2, <2>3 DEF TriedInOrder, LeftOfTwo
      <3>5. system = "wsl" => {"wslview", "explorer"} \subseteq passed
        BY <1>1, <2>1, <2>2, <2>3, <3>4 DEF TriedInOrder
      <3>6. system = "windows" => "startfile" \in passed
        BY <1>1, <2>1, <2>2, <2>3, <3>4 DEF TriedInOrder, LeftOfTwo
      <3>. QED
        BY <2>0, <2>1, <2>3, <3>1, <3>2, <3>3, <3>5, <3>6
    <2>4. CASE opener = "cmd"
      <3>1. Better(opener) = {IF entry.kind = "windows" THEN "direct" ELSE "explorer"}
        BY <2>4 DEF Better
      <3>2. system = "linux" => FALSE
        BY <1>1, <2>1, <2>4 DEF TriedInOrder
      <3>. HIDE DEF opener, works
      <3>3. system = "wsl" /\ entry.kind # "web"
        BY <1>1, <2>1, <2>2, <2>4, <3>2 DEF TriedInOrder, LeftOfTwo
      <3>. QED
        BY <1>1, <2>0, <2>1, <2>2, <2>4, <3>1, <3>3 DEF TriedInOrder, LeftOfTwo
    <2>5. CASE opener # "cmd" /\ ~(opener = "xdg_open" /\ system # "linux")
      <3>1. Better(opener) = {}
        BY <2>5 DEF Better
      <3>. QED
        BY <2>0, <3>1
    <2>. QED
      BY <2>3, <2>4, <2>5
  <1>. QED
    BY <1>0, <1>3, <1>5, <1>6, <1>7, <1>8 DEF AppInv

LEMMA AppStepInv == AppInv /\ [AppNext]_appVars => AppInv'
  <1>. SUFFICES ASSUME AppInv, [AppNext]_appVars PROVE AppInv'
    OBVIOUS
  <1>1. ASSUME NEW file \in OwnerFiles, EditFile(file) PROVE AppInv'
    BY <1>1 DEF AppInv, AppTypeOK, TriedInOrder, LeftOfTwo, OpenedIsReal, Better, EditFile
  <1>2. ASSUME NEW word \in Requests, AskFor(word) PROVE AppInv'
    BY <1>2, AskForInv
  <1>3. ASSUME NEW result \in Results, Try(result) PROVE AppInv'
    BY <1>3, TryInv
  <1>4. CASE UNCHANGED appVars
    BY <1>4 DEF AppInv, AppTypeOK, TriedInOrder, LeftOfTwo, OpenedIsReal, Better, appVars
  <1>. QED
    BY <1>1, <1>2, <1>3, <1>4 DEF AppNext

\* For any built-in list, any owner's files and any names asked for: a name
\* of the owner's is answered from his file, and a thing is said to be open
\* unopened only on the word of a program that was run, and on that of
\* xdg-open outside Linux and of cmd after the better openers failed.
THEOREM OpeningStaysTrue == AppSpec => []OpeningIsTrue
  BY AppInitInv, AppStepInv, AppInvIsEnough, PTL DEF AppSpec
=============================================================================

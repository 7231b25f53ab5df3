--------------------------- MODULE ApprovalTurns ---------------------------
(***************************************************************************)
(* The approval gate under concurrent panel requests.                      *)
(*                                                                         *)
(* The panel serves every HTTP request on a thread of its own.  A typed    *)
(* turn (/ask), a typed turn whose sender ticked "approve HIGH for this    *)
(* turn" and a spoken turn (/konus) all end up in PanelServer.ask, which   *)
(* takes _agent_lock for the turn.  Two fields of the one PermissionManager*)
(* change around a turn: `approver', swapped and restored INSIDE the lock, *)
(* and `taban' (the highest risk that runs unasked), lowered and restored  *)
(* OUTSIDE it by the context manager that konus enters before it calls ask.*)
(*                                                                         *)
(* Web servers make a fresh thread per request, so a member of Request is  *)
(* one request and is served once.                                         *)
(*                                                                         *)
(* An operator named X_Fault is X with a seeded fault.  The specification  *)
(* never uses it: it shows that the properties notice the fault.           *)
(***************************************************************************)
EXTENDS Integers, FiniteSets

CONSTANTS
    Typed,        (* /ask requests without the approval tick               *)
    Ticked,       (* /ask requests with approve_high = true                *)
    Spoken,       (* /konus requests                                       *)
    SpokenFloor,  (* sesli_onay_tabani, what JARVIS_SESLI_TABAN names      *)
    MaxCalls,     (* tool calls one turn can make, a bound of the model    *)
    NoOne         (* the value of the lock when nobody holds it            *)

Request == Typed \cup Ticked \cup Spoken

\* RiskLevel is an IntEnum; its order is what the gate compares.
LOW == 0
MEDIUM == 1
HIGH == 2
CRITICAL == 3
Risk == LOW .. CRITICAL

\* VARSAYILAN_TABAN, the floor a PermissionManager is built with.
DefaultFloor == MEDIUM

\* sesli_taban: only LOW and MEDIUM can be named, anything else is MEDIUM.
NamableFloor == {LOW, MEDIUM}

ASSUME RequestAssumption ==
    /\ Typed \cap Ticked = {}
    /\ Typed \cap Spoken = {}
    /\ Ticked \cap Spoken = {}
ASSUME FloorAssumption == SpokenFloor \in NamableFloor
ASSUME CallsAssumption == MaxCalls \in Nat

ASSUME NoOneAssumption == NoOne \notin Request

NoRisk == -1

VARIABLES
    taban,        (* PermissionManager.taban                               *)
    approver,     (* PermissionManager.approver: "panel" or "ticked"       *)
    agentLock,    (* PanelServer._agent_lock: its holder, or NoOne         *)
    pc,           (* where each request's thread stands                    *)
    floorBefore,  (* _TabanKapsami._onceki of each spoken request          *)
    approverBefore, (* previous_approver of each turn                      *)
    calls,        (* tool calls made by each turn                          *)
    risk,         (* effective risk of the call a turn has at the gate     *)
    ran,          (* history: the calls that ran, [by, risk, asked]         *)
    overlapped    (* history: two spoken requests were inside their raised  *)
                  (* floors at once                                         *)

vars == <<taban, approver, agentLock, pc, floorBefore, approverBefore,
          calls, risk, ran, overlapped>>

PC == {"arriving", "reading_floor", "raising_floor", "at_lock", "in_turn",
       "comparing", "asking", "leaving_floor", "done"}

Init ==
    /\ taban = DefaultFloor
    /\ approver = "panel"
    /\ agentLock = NoOne
    /\ pc = [r \in Request |-> "arriving"]
    /\ floorBefore = [r \in Request |-> DefaultFloor]
    /\ approverBefore = [r \in Request |-> "panel"]
    /\ calls = [r \in Request |-> 0]
    /\ risk = [r \in Request |-> NoRisk]
    /\ ran = {}
    /\ overlapped = FALSE

\* Inside the agent lock; for a spoken request, inside its raised floor.
InTurn(r) == pc[r] \in {"in_turn", "comparing", "asking"}
UnderFloor(r) == pc[r] \in {"raising_floor", "at_lock", "in_turn",
                            "comparing", "asking", "leaving_floor"}

Goto(r, label) == pc' = [pc EXCEPT ![r] = label]
Run(r, k, asked) ==
    ran' = ran \cup {[by |-> r, risk |-> k, asked |-> asked]}

-----------------------------------------------------------------------------
(* The floor: _TabanKapsami.                                               *)

Lower(a, b) == IF a <= b THEN a ELSE b

\* The smaller of the two risks is the stricter floor; asking for a higher
\* one is ignored.
Raised_Fault(before, wanted) == before
Raised(before, wanted) == Lower(before, wanted)

\* /konus: the recording is transcribed.  Silence ends the request with an
\* empty answer and an STT failure ends it with an error, both before the
\* floor is touched.
Hear(r) ==
    /\ r \in Spoken
    /\ pc[r] = "arriving"
    /\ \/ Goto(r, "reading_floor")
       \/ Goto(r, "done")
    /\ UNCHANGED <<taban, approver, agentLock, floorBefore, approverBefore,
                   calls, risk, ran, overlapped>>

\* __enter__, first statement: remember the floor in force.
ReadFloor(r) ==
    /\ pc[r] = "reading_floor"
    /\ floorBefore' = [floorBefore EXCEPT ![r] = taban]
    /\ Goto(r, "raising_floor")
    /\ overlapped' = (overlapped \/ \E s \in Spoken \ {r} : UnderFloor(s))
    /\ UNCHANGED <<taban, approver, agentLock, approverBefore, calls, risk, ran>>

\* __enter__, second statement: write the stricter of the two.
RaiseFloor(r) ==
    /\ pc[r] = "raising_floor"
    /\ taban' = Raised(floorBefore[r], SpokenFloor)
    /\ Goto(r, "at_lock")
    /\ UNCHANGED <<approver, agentLock, floorBefore, approverBefore, calls,
                   risk, ran, overlapped>>

\* __exit__: write back what this thread remembered, whatever happened since.
RestoredFloor_Fault(r) == taban
RestoredFloor(r) == floorBefore[r]
LeaveFloor(r) ==
    /\ pc[r] = "leaving_floor"
    /\ taban' = RestoredFloor(r)
    /\ Goto(r, "done")
    /\ UNCHANGED <<approver, agentLock, floorBefore, approverBefore, calls,
                   risk, ran, overlapped>>

-----------------------------------------------------------------------------
(* The turn: PanelServer.ask.                                              *)

\* A typed request reaches the lock straight from the HTTP handler.
Arrive(r) ==
    /\ r \in Typed \cup Ticked
    /\ pc[r] = "arriving"
    /\ Goto(r, "at_lock")
    /\ UNCHANGED <<taban, approver, agentLock, floorBefore, approverBefore,
                   calls, risk, ran, overlapped>>

\* The approver a turn runs under: `approved_high and speech is None' swaps
\* in one that says yes to HIGH.
TurnApprover(r) == IF r \in Ticked THEN "ticked" ELSE approver

TakeLock(r) ==
    /\ pc[r] = "at_lock"
    /\ agentLock = NoOne
    /\ agentLock' = r
    /\ approverBefore' = [approverBefore EXCEPT ![r] = approver]
    /\ approver' = TurnApprover(r)
    /\ Goto(r, "in_turn")
    /\ UNCHANGED <<taban, floorBefore, calls, risk, ran, overlapped>>

\* The turn returned or raised: `finally' restores the approver, the lock is
\* released, and a spoken turn goes on to leave its floor.
ApproverAfter_Fault(r) == approver
ApproverAfter(r) == approverBefore[r]
AfterTurn(r) == IF r \in Spoken THEN "leaving_floor" ELSE "done"
ReleasedLock_Fault(r) == r
ReleasedLock(r) == NoOne

EndTurn(r) ==
    /\ pc[r] = "in_turn"
    /\ approver' = ApproverAfter(r)
    /\ agentLock' = ReleasedLock(r)
    /\ Goto(r, AfterTurn(r))
    /\ UNCHANGED <<taban, floorBefore, approverBefore, calls, risk, ran, overlapped>>

-----------------------------------------------------------------------------
(* The gate: ToolManager.dispatch and PermissionManager.check.             *)

\* effective_risk: a per-call classifier may only raise the declared risk,
\* and one that fails counts as CRITICAL.
NoClassifier == LOW - 1
Fails == CRITICAL + 1
EffectiveRisk_Fault(declared, computed) ==
    IF declared <= computed THEN computed ELSE declared
EffectiveRisk(declared, computed) ==
    IF computed = Fails THEN CRITICAL
    ELSE IF declared <= computed THEN computed ELSE declared

\* The model asks for a tool.  An unknown tool and one that the tool's own
\* policy forbids end here, before anybody is asked; the rest go to the gate
\* with their effective risk.
Dispatch(r) ==
    /\ pc[r] = "in_turn"
    /\ calls[r] < MaxCalls
    /\ calls' = [calls EXCEPT ![r] = @ + 1]
    /\ \/ UNCHANGED <<pc, risk>>
       \/ \E declared \in Risk, computed \in NoClassifier .. Fails :
            /\ risk' = [risk EXCEPT ![r] = EffectiveRisk(declared, computed)]
            /\ Goto(r, "comparing")
    /\ UNCHANGED <<taban, approver, agentLock, floorBefore, approverBefore, ran,
                   overlapped>>

\* check, first half: at or below the floor the call runs unasked.
WithinFloor(k) == k <= taban
CompareWithFloor(r) ==
    /\ pc[r] = "comparing"
    /\ \/ /\ WithinFloor(risk[r])
          /\ Run(r, risk[r], FALSE)
          /\ risk' = [risk EXCEPT ![r] = NoRisk]
          /\ Goto(r, "in_turn")
       \/ /\ ~WithinFloor(risk[r])
          /\ Goto(r, "asking")
          /\ UNCHANGED <<risk, ran>>
    /\ UNCHANGED <<taban, approver, agentLock, floorBefore, approverBefore, calls,
                   overlapped>>

\* panel_approver refuses everything; the one a tick installs says yes to
\* HIGH and to nothing else.
SaysYes_Fault(k) == approver = "ticked" /\ k >= HIGH
SaysYes(k) == approver = "ticked" /\ k = HIGH
AskApprover(r) ==
    /\ pc[r] = "asking"
    /\ IF SaysYes(risk[r]) THEN Run(r, risk[r], TRUE) ELSE UNCHANGED ran
    /\ risk' = [risk EXCEPT ![r] = NoRisk]
    /\ Goto(r, "in_turn")
    /\ UNCHANGED <<taban, approver, agentLock, floorBefore, approverBefore, calls,
                   overlapped>>

-----------------------------------------------------------------------------
Step(r) ==
    \/ Hear(r) \/ ReadFloor(r) \/ RaiseFloor(r) \/ LeaveFloor(r)
    \/ Arrive(r) \/ TakeLock(r) \/ EndTurn(r)
    \/ Dispatch(r) \/ CompareWithFloor(r) \/ AskApprover(r)

\* Every request has been answered; the server just waits for another one.
AllServed == \A r \in Request : pc[r] = "done"
Idle == AllServed /\ UNCHANGED vars

Next == (\E r \in Request : Step(r)) \/ Idle

\* A request's thread is never abandoned half way: the model call has a
\* timeout, the lock is released in a `with', and a tool call returns.
\* Nothing forces a request to arrive.
Progress(r) ==
    \/ ReadFloor(r) \/ RaiseFloor(r) \/ LeaveFloor(r) \/ TakeLock(r)
    \/ EndTurn(r) \/ CompareWithFloor(r) \/ AskApprover(r)
Spec == Init /\ [][Next]_vars /\ \A r \in Request : WF_vars(Progress(r))

-----------------------------------------------------------------------------
(* Properties.                                                             *)

\* Every variable keeps its type, and a turn makes at most MaxCalls calls.
TypeOK ==
    /\ taban \in Risk
    /\ approver \in {"panel", "ticked"}
    /\ agentLock \in Request \cup {NoOne}
    /\ pc \in [Request -> PC]
    /\ floorBefore \in [Request -> Risk]
    /\ approverBefore \in [Request -> {"panel", "ticked"}]
    /\ calls \in [Request -> 0 .. MaxCalls]
    /\ risk \in [Request -> Risk \cup {NoRisk}]
    /\ ran \in SUBSET [by : Request, risk : Risk, asked : BOOLEAN]
    /\ overlapped \in BOOLEAN

\* "Browser approval is deliberately valid for this one turn and HIGH only"
\* (PanelServer.ask): whenever the lenient approver is installed, the turn
\* that holds the lock is the one that was ticked, so no other request's tool
\* call is ever decided by it.
ApprovalStaysInItsTurn ==
    approver = "ticked" => agentLock \in Ticked /\ InTurn(agentLock)

\* What ran without the right to: over all interleavings nothing above the
\* default floor runs, except a HIGH call of the turn that was ticked for it.
\* A spoken turn and an unticked one never run HIGH, and the panel never runs
\* CRITICAL, whatever the other requests do meanwhile.
AuthorityOfEveryRun ==
    \A e \in ran :
        \/ e.risk <= DefaultFloor
        \/ e.by \in Ticked /\ e.risk = HIGH /\ e.asked

\* Every request that got past its arrival is answered: no thread is left
\* waiting for the agent lock.
EveryRequestAnswered ==
    \A r \in Request : pc[r] # "arriving" ~> pc[r] = "done"

\* "for the duration of a spoken turn the bar goes up" (yukselt): a call that
\* a spoken turn runs is within the spoken floor, one spoken request after
\* another and among any typed ones.
SpokenStaysBelowItsFloor ==
    ~overlapped => \A e \in ran : e.by \in Spoken => e.risk <= SpokenFloor

\* "Cikista eski degere donuyor" (_TabanKapsami): when no spoken request is
\* inside its raised floor, the floor is the default one again.  Otherwise a
\* leftover floor would keep refusing MEDIUM tools on every later turn.
NobodySpeaks == \A r \in Spoken : ~UnderFloor(r)
FloorComesBack == ~overlapped /\ NobodySpeaks => taban = DefaultFloor

\* The same of every execution, as the comment says it.
FloorAlwaysComesBack == NobodySpeaks => taban = DefaultFloor

\* The raised floor as a whole: it holds for the spoken turn, and for nothing
\* after it.
FloorOfSpokenTurns == TypeOK /\ SpokenStaysBelowItsFloor /\ FloorComesBack
=============================================================================

----------------------------- MODULE CoreState -----------------------------
(***************************************************************************)
(* The central state machine and the panels that display it.               *)
(*                                                                         *)
(* StateMachine.transition sets the state under its lock and calls the     *)
(* listeners after releasing it.  The panel server's listener publishes    *)
(* the new state on the EventHub, which keeps the latest one for panels    *)
(* that connect later and puts it in the bounded queue of every panel that *)
(* is connected.  The listener runs on the thread that made the            *)
(* transition, so an activity goes on only when its panels were told.      *)
(*                                                                         *)
(* Four kinds of activity make transitions, each on a thread of its own:   *)
(* agent turns (one at a time, under the agent's turn lock), the server's  *)
(* hearing of a recording (listen and the first half of konus), the        *)
(* synthesis of an answer (_serve_speech) and the vision pipeline.         *)
(*                                                                         *)
(* An operator named X_Fault is X with a seeded fault.  The specification  *)
(* never uses it: it shows that the properties notice the fault.           *)
(***************************************************************************)
EXTENDS Integers, Sequences

CONSTANTS
    Turn,        (* agent turns                                             *)
    Hearing,     (* recordings transcribed by listen or konus               *)
    Speech,      (* answers synthesised by _serve_speech                    *)
    Vision,      (* frames analysed by the vision pipeline                  *)
    Panel,       (* browser panels                                          *)
    QueueLimit,  (* the size of a panel's queue (100 in the code)           *)
    MaxCalls     (* model calls in one turn (Agent.max_steps)               *)

Activity == Turn \cup Hearing \cup Speech \cup Vision

ASSUME KindsAssumption ==
    /\ Turn \cap Hearing = {} /\ Turn \cap Speech = {} /\ Turn \cap Vision = {}
    /\ Hearing \cap Speech = {} /\ Hearing \cap Vision = {}
    /\ Speech \cap Vision = {}
ASSUME LimitAssumption == QueueLimit \in Nat \ {0} /\ MaxCalls \in Nat \ {0}

VARIABLES
    state,     (* StateMachine._state                                       *)
    pc,        (* the last transition each activity asked for               *)
    telling,   (* "retain" or "put" while an activity runs its listener     *)
    targets,   (* the queues an activity has still to put its state in      *)
    calls,     (* model calls the turn in progress made                     *)
    retained,  (* EventHub._last["state"]                                   *)
    panel,     (* "away", "open" or "closed"                                *)
    queue,     (* the queue of each panel                                   *)
    screen,    (* what each panel displays                                  *)
    lost       (* the panels one of whose events met a full queue           *)

activityVars == <<state, pc, telling, targets, calls>>
panelVars == <<panel, queue, screen, lost>>
vars == <<activityVars, retained, panelVars>>

States == {"standby", "listening", "thinking", "analyzing", "speaking", "seeing"}
Blank == "blank"

\* "new" has not begun; "recover" and "recovered" are the way out of a turn.
PC == States \cup {"new", "recover", "recovered", "ended"}

Init ==
    /\ state = "standby"
    /\ pc = [a \in Activity |-> "new"]
    /\ telling = [a \in Activity |-> "nothing"]
    /\ targets = [a \in Activity |-> {}]
    /\ calls = 0
    /\ retained = "standby"
    /\ panel = [p \in Panel |-> "away"]
    /\ queue = [p \in Panel |-> <<>>]
    /\ screen = [p \in Panel |-> Blank]
    /\ lost = {}

-----------------------------------------------------------------------------
(* StateMachine.transition.                                                *)

\* The lock section: the same state again is no transition and tells nobody.
Unchanged(s) == s = state
Transition(a, s, label) ==
    /\ telling[a] = "nothing"
    /\ state' = s
    /\ pc' = [pc EXCEPT ![a] = label]
    /\ telling' = [telling EXCEPT ![a] = IF Unchanged(s) THEN "nothing" ELSE "retain"]
    /\ UNCHANGED <<targets, retained, panelVars>>

\* What the listener reports: the state its own transition set.
Reported_Fault(a) == IF pc[a] = "recovered" THEN retained ELSE pc[a]
Reported(a) == IF pc[a] = "recovered" THEN "standby" ELSE pc[a]

\* publish's lock section: keep the latest, copy the subscribers.
Kept(a) == Reported(a)
Retain(a) ==
    /\ telling[a] = "retain"
    /\ retained' = Kept(a)
    /\ targets' = [targets EXCEPT ![a] = {p \in Panel : panel[p] = "open"}]
    /\ telling' = [telling EXCEPT ![a] = "put"]
    /\ UNCHANGED <<state, pc, calls, panelVars>>

\* The queues that put_nowait may leave: it never waits.
AfterPutUnbounded_Fault(q, s) == {Append(q, s)}
AfterPut_Fault(q, s) == IF Len(q) < QueueLimit THEN {Append(q, s)} ELSE {}
AfterPut(q, s) == IF Len(q) < QueueLimit THEN {Append(q, s)} ELSE {q}
Put(a, p) ==
    /\ telling[a] = "put"
    /\ p \in targets[a]
    /\ \E q \in AfterPut(queue[p], Reported(a)) : queue' = [queue EXCEPT ![p] = q]
    /\ lost' = IF Len(queue[p]) < QueueLimit THEN lost ELSE lost \cup {p}
    /\ targets' = [targets EXCEPT ![a] = @ \ {p}]
    /\ UNCHANGED <<state, pc, telling, calls, retained, panel, screen>>

Told(a) ==
    /\ telling[a] = "put"
    /\ targets[a] = {}
    /\ telling' = [telling EXCEPT ![a] = "nothing"]
    /\ UNCHANGED <<state, pc, targets, calls, retained, panelVars>>

-----------------------------------------------------------------------------
(* The activities.                                                         *)

At(a, labels) == pc[a] \in labels /\ telling[a] = "nothing"

\* A turn begins: it has the turn lock, and LISTENING is its first state.
InTurn(a) == a \in Turn /\ pc[a] \notin {"new", "ended"}
BeginTurn(a) ==
    /\ a \in Turn /\ pc[a] = "new"
    /\ \A b \in Turn : ~InTurn(b)
    /\ Transition(a, "listening", "listening")
    /\ calls' = 0

\* THINKING before each model call.
Think(a) ==
    /\ a \in Turn /\ At(a, {"listening", "analyzing"})
    /\ calls < MaxCalls
    /\ Transition(a, "thinking", "thinking")
    /\ calls' = calls + 1

\* ANALYZING before the tools of a round.
UseTools(a) ==
    /\ a \in Turn /\ At(a, {"thinking"})
    /\ Transition(a, "analyzing", "analyzing")
    /\ UNCHANGED calls

\* SPEAKING for a control reply or for the model's answer.
Answer(a) ==
    /\ a \in Turn /\ At(a, {"listening", "thinking"})
    /\ Transition(a, "speaking", "speaking")
    /\ UNCHANGED calls

\* STANDBY after the answer, after a model error, and out of steps.
TurnRests(a) ==
    /\ a \in Turn
    /\ \/ At(a, {"speaking", "thinking"})
       \/ At(a, {"analyzing"}) /\ calls = MaxCalls
    /\ Transition(a, "standby", "standby")
    /\ UNCHANGED calls

\* _execute_turn's finally, after a return or an exception (of the memory
\* store): it reads the machine, whoever set it, and recovers it.
NeedsRecovery_Fault == FALSE
NeedsRecovery == state # "standby"
LeaveTurn(a) ==
    /\ a \in Turn /\ At(a, {"listening", "thinking", "standby"})
    /\ pc' = [pc EXCEPT ![a] = IF NeedsRecovery THEN "recover" ELSE "ended"]
    /\ UNCHANGED <<state, telling, targets, calls, retained, panelVars>>
Recover(a) ==
    /\ At(a, {"recover"})
    /\ Transition(a, "standby", "recovered")
    /\ UNCHANGED calls

\* listen and konus: LISTENING, and STANDBY whether or not it was understood.
Hear(a) ==
    /\ a \in Hearing
    /\ \/ At(a, {"new"}) /\ Transition(a, "listening", "listening")
       \/ At(a, {"listening"}) /\ Transition(a, "standby", "standby")
    /\ UNCHANGED calls

\* _serve_speech: SPEAKING, and STANDBY before the response is written.
Speak(a) ==
    /\ a \in Speech
    /\ \/ At(a, {"new"}) /\ Transition(a, "speaking", "speaking")
       \/ At(a, {"speaking"}) /\ Transition(a, "standby", "standby")
    /\ UNCHANGED calls

\* VisionPipeline.analyze: SEEING, ANALYZING, and STANDBY in its finally.
See(a) ==
    /\ a \in Vision
    /\ \/ At(a, {"new"}) /\ Transition(a, "seeing", "seeing")
       \/ At(a, {"seeing"}) /\ Transition(a, "analyzing", "analyzing")
       \/ At(a, {"analyzing"}) /\ Transition(a, "standby", "standby")
    /\ UNCHANGED calls

\* The thread is done with the state machine (and a turn frees its lock).
End(a) ==
    /\ \/ At(a, {"recovered"})
       \/ a \notin Turn /\ At(a, {"standby"})
    /\ pc' = [pc EXCEPT ![a] = "ended"]
    /\ UNCHANGED <<state, telling, targets, calls, retained, panelVars>>

-----------------------------------------------------------------------------
(* The panels.                                                             *)

\* subscribe: under the hub's lock, join the list and be sent the latest.
Replay_Fault == <<>>
Replay == <<retained>>
Connect(p) ==
    /\ panel[p] = "away"
    /\ panel' = [panel EXCEPT ![p] = "open"]
    /\ queue' = [queue EXCEPT ![p] = Replay]
    /\ UNCHANGED <<activityVars, retained, screen, lost>>

Show(p) ==
    /\ panel[p] = "open"
    /\ queue[p] # <<>>
    /\ screen' = [screen EXCEPT ![p] = Head(queue[p])]
    /\ queue' = [queue EXCEPT ![p] = Tail(@)]
    /\ UNCHANGED <<activityVars, retained, panel, lost>>

\* The connection broke: unsubscribe.  A put that is under way still fills
\* the queue, which nobody reads.
Disconnect(p) ==
    /\ panel[p] = "open"
    /\ panel' = [panel EXCEPT ![p] = "closed"]
    /\ UNCHANGED <<activityVars, retained, queue, screen, lost>>

-----------------------------------------------------------------------------
Tell(a) == Retain(a) \/ Told(a) \/ \E p \in Panel : Put(a, p)
Act(a) ==
    \/ Think(a) \/ UseTools(a) \/ Answer(a) \/ TurnRests(a) \/ LeaveTurn(a)
    \/ Recover(a) \/ End(a)
Begun(a) == pc[a] # "new"
Outside(a) == Hear(a) \/ Speak(a) \/ See(a)

Resting == \A a \in Activity : pc[a] \in {"new", "ended"}
Idle == Resting /\ UNCHANGED vars

Next ==
    \/ \E a \in Activity : BeginTurn(a) \/ Act(a) \/ Outside(a) \/ Tell(a)
    \/ \E p \in Panel : Connect(p) \/ Show(p) \/ Disconnect(p)
    \/ Idle

\* A thread that began goes on: its model call, transcription, synthesis or
\* analysis returns or raises.  Nothing makes a panel read its queue, and
\* nothing makes an activity begin.
Spec ==
    /\ Init
    /\ [][Next]_vars
    /\ \A a \in Activity :
        WF_vars(Act(a) \/ Tell(a) \/ (Begun(a) /\ Outside(a)))

-----------------------------------------------------------------------------
(* Properties.                                                             *)

\* Every variable keeps its type; a queue never outgrows its limit.
TypeOK ==
    /\ state \in States
    /\ pc \in [Activity -> PC]
    /\ telling \in [Activity -> {"nothing", "retain", "put"}]
    /\ targets \in [Activity -> SUBSET Panel]
    /\ calls \in 0 .. MaxCalls
    /\ retained \in States
    /\ panel \in [Panel -> {"away", "open", "closed"}]
    /\ queue \in [Panel -> Seq(States)]
    /\ \A p \in Panel : Len(queue[p]) <= QueueLimit
    /\ screen \in [Panel -> States \cup {Blank}]
    /\ lost \subseteq Panel

\* Whatever overlaps with whatever, and whoever overwrites whose state: when
\* nothing is in progress the machine is in STANDBY.
RestIsStandby == Resting => state = "standby"

\* "the visual state and the backend state never disagree": when nothing is
\* in progress, a panel that connects now is told the machine's state.
RetainedIsState == Resting => retained = state

\* The same for a panel that is connected and none of whose events met a
\* full queue: once it has read its queue, it displays the machine's state.
Displays(p) == LET shown == <<screen[p]>> \o queue[p] IN shown[Len(shown)]
ScreensAgree ==
    Resting => \A p \in Panel : panel[p] = "open" /\ p \notin lost => Displays(p) = state

\* "a panel that connects late still paints a correct screen instead of an
\* empty one": an open panel has, or is about to have, something to display.
NoBlankPanel == \A p \in Panel : panel[p] = "open" => Displays(p) # Blank

\* "A panel that stopped reading must not stall the agent": an activity that
\* began ends, though no panel ever reads.
EveryActivityEnds == \A a \in Activity : (pc[a] # "new") ~> (pc[a] = "ended")

\* Where turns alone make transitions, the panels and the machine never
\* disagree at rest, no panel is blank and no queue outgrows its limit.
PanelsAgree == TypeOK /\ RetainedIsState /\ ScreensAgree /\ NoBlankPanel
=============================================================================

-------------------------- MODULE CoreStateProofs ---------------------------
(***************************************************************************)
(* Theorems about CoreState for any number of activities and panels and    *)
(* any queue size.                                                         *)
(*                                                                         *)
(* Two inductive invariants.  RestInv is about every mixture of            *)
(* activities: the machine leaves STANDBY only while some activity has a   *)
(* STANDBY of its own still to come.  TurnsInv is about turns alone: their *)
(* lock makes one thread at a time tell the panels, so what is retained,   *)
(* and what a panel will display, is the machine's state as soon as that   *)
(* thread has told them.                                                   *)
(***************************************************************************)
EXTENDS CoreState, HealthPanel, TLAPS

LEMMA SequenceEnds ==
    ASSUME NEW S, NEW q \in Seq(S), q # <<>>
    PROVE  /\ Head(q) \in S /\ Tail(q) \in Seq(S)
           /\ Len(q) \in Nat \ {0} /\ Len(Tail(q)) = Len(q) - 1
           /\ Len(q) > 1 => Tail(q)[Len(Tail(q))] = q[Len(q)]
           /\ Len(q) = 1 => Head(q) = q[Len(q)] /\ Tail(q) = <<>>
  OBVIOUS

LEMMA NotEmpty == ASSUME NEW t, Len(t) # 0 PROVE t # <<>>
  <1>1. Len(<<>>) = 0
    OBVIOUS
  <1>. QED
    BY <1>1, Zenon

LEMMA OneOrMore == ASSUME NEW n \in Nat \ {0} PROVE n = 1 \/ n > 1
  OBVIOUS

LEMMA AfterPutFits ==
    ASSUME NEW S, NEW q \in Seq(S), Len(q) <= QueueLimit, NEW s \in S,
           NEW r \in AfterPut(q, s)
    PROVE  r \in Seq(S) /\ Len(r) <= QueueLimit
  BY LimitAssumption DEF AfterPut

Telling(a) == telling[a] # "nothing" => Reported(a) \in States
Settled(a) == pc[a] \in {"new", "standby", "recovered", "ended"}
RestInv ==
    /\ TypeOK
    /\ \A a \in Activity : Telling(a)
    /\ (\A a \in Activity : Settled(a)) => state = "standby"

LEMMA RestInit == Init => RestInv
  BY LimitAssumption
  DEF Init, RestInv, TypeOK, Telling, Settled, States, PC, Blank

\* A transition keeps the invariant when its label is settled exactly when
\* it is a return to STANDBY.
LEMMA TransitionRests ==
    ASSUME RestInv, NEW a \in Activity, NEW s \in States, NEW label \in PC,
           Transition(a, s, label), calls' \in 0 .. MaxCalls,
           IF label = "recovered" THEN s = "standby" ELSE s = label
    PROVE  RestInv'
  <1>1. TypeOK'
    BY DEF RestInv, TypeOK, Transition, panelVars, Blank
  <1>2. ASSUME NEW b \in Activity PROVE Telling(b)'
    BY <1>2 DEF RestInv, TypeOK, Telling, Reported, Transition
  <1>3. (\A b \in Activity : Settled(b))' => state' = "standby"
    <2> SUFFICES ASSUME (\A b \in Activity : Settled(b))' PROVE state' = "standby"
      OBVIOUS
    <2>1. pc'[a] = label /\ state' = s
      BY DEF RestInv, TypeOK, Transition
    <2>2. label \in {"new", "standby", "recovered", "ended"}
      BY <2>1 DEF Settled
    <2>. QED
      BY <2>1, <2>2 DEF States
  <1>. QED
    BY <1>1, <1>2, <1>3 DEF RestInv

LEMMA RestStep == RestInv /\ [Next]_vars => RestInv'
  <1> SUFFICES ASSUME RestInv, [Next]_vars PROVE RestInv'
    OBVIOUS
  <1> USE LimitAssumption
  <1>0. TypeOK
    BY DEF RestInv
  <1>1. ASSUME NEW a \in Activity, BeginTurn(a) \/ Think(a) PROVE RestInv'
    <2>1. calls' \in 0 .. MaxCalls
      BY <1>0, <1>1 DEF BeginTurn, Think, TypeOK
    <2>2. \E s \in States : Transition(a, s, s)
      BY <1>1 DEF BeginTurn, Think, States
    <2>. QED
      BY <2>1, <2>2, TransitionRests DEF PC, States
  <1>2. ASSUME NEW a \in Activity,
               UseTools(a) \/ Answer(a) \/ TurnRests(a) \/ Outside(a)
        PROVE  RestInv'
    <2>1. calls' \in 0 .. MaxCalls
      BY <1>0, <1>2 DEF UseTools, Answer, TurnRests, Outside, Hear, Speak, See, TypeOK
    <2>2. \E s \in States : Transition(a, s, s)
      BY <1>2 DEF UseTools, Answer, TurnRests, Outside, Hear, Speak, See, States
    <2>. QED
      BY <2>1, <2>2, TransitionRests DEF PC, States
  <1>3. ASSUME NEW a \in Activity, Recover(a) PROVE RestInv'
    BY <1>0, <1>3, TransitionRests DEF Recover, States, PC, TypeOK
  <1>4. ASSUME NEW a \in Activity, LeaveTurn(a) \/ End(a) PROVE RestInv'
    <2>1. TypeOK'
      BY <1>0, <1>4 DEF LeaveTurn, End, NeedsRecovery, TypeOK, panelVars, PC
    <2>2. ASSUME NEW b \in Activity PROVE Telling(b)'
      BY <1>4 DEF LeaveTurn, End, At, RestInv, TypeOK, Telling, Reported
    <2>3. pc'[a] = "ended" => state = "standby" \/ Settled(a)
      BY <1>0, <1>4 DEF LeaveTurn, End, At, NeedsRecovery, TypeOK, Settled
    <2>4. (\A b \in Activity : Settled(b))' => state' = "standby"
      BY <1>0, <1>4, <2>3 DEF LeaveTurn, End, RestInv, TypeOK, Settled
    <2>. QED
      BY <2>1, <2>2, <2>4 DEF RestInv
  <1>5. ASSUME NEW a \in Activity, Retain(a) PROVE RestInv'
    <2>1. Reported(a) \in States
      BY <1>5 DEF Retain, RestInv, Telling
    <2>2. TypeOK'
      BY <1>0, <1>5, <2>1 DEF Retain, Kept, TypeOK, panelVars
    <2>. QED
      BY <1>5, <2>2 DEF Retain, RestInv, TypeOK, Telling, Reported, Settled
  <1>6. ASSUME NEW a \in Activity, NEW p \in Panel, Put(a, p) PROVE RestInv'
    <2>1. Reported(a) \in States
      BY <1>6 DEF Put, RestInv, Telling
    <2>2. PICK q \in AfterPut(queue[p], Reported(a)) : queue' = [queue EXCEPT ![p] = q]
      BY <1>6 DEF Put
    <2>4. q \in Seq(States) /\ Len(q) <= QueueLimit
      BY <1>0, <2>1, <2>2, AfterPutFits DEF TypeOK
    <2>3. TypeOK'
      BY <1>0, <1>6, <2>2, <2>4 DEF Put, TypeOK
    <2>. QED
      BY <1>6, <2>3 DEF Put, RestInv, Telling, Reported, Settled
  <1>7. ASSUME NEW a \in Activity, Told(a) PROVE RestInv'
    BY <1>7 DEF Told, RestInv, TypeOK, Telling, Reported, Settled, panelVars
  <1>8. ASSUME NEW p \in Panel, Connect(p) PROVE RestInv'
    BY <1>8 DEF Connect, Replay, RestInv, TypeOK, Telling, Reported, Settled, activityVars
  <1>9. ASSUME NEW p \in Panel, Show(p) PROVE RestInv'
    <2>1. queue[p] \in Seq(States) /\ queue[p] # <<>> /\ Len(queue[p]) <= QueueLimit
      BY <1>0, <1>9 DEF Show, TypeOK
    <2>2. Head(queue[p]) \in States /\ Tail(queue[p]) \in Seq(States)
          /\ Len(Tail(queue[p])) <= QueueLimit
      BY <2>1, SequenceEnds
    <2>3. TypeOK'
      BY <1>0, <1>9, <2>2 DEF Show, TypeOK, activityVars
    <2>. QED
      BY <1>9, <2>3 DEF Show, RestInv, Telling, Reported, Settled, activityVars
  <1>10. ASSUME NEW p \in Panel, Disconnect(p) PROVE RestInv'
    BY <1>10 DEF Disconnect, RestInv, TypeOK, Telling, Reported, Settled, activityVars
  <1>11. CASE UNCHANGED vars
    BY <1>11 DEF vars, activityVars, panelVars, RestInv, TypeOK, Telling, Reported, Settled
  <1>. QED
    BY <1>1, <1>2, <1>3, <1>4, <1>5, <1>6, <1>7, <1>8, <1>9, <1>10, <1>11
    DEF Next, Act, Tell, Idle

LEMMA RestInvariant == Spec => []RestInv
  BY RestInit, RestStep, PTL DEF Spec

\* TypeOK, for any activities, panels and queue size.
THEOREM CoreStateTypeCorrect == Spec => []TypeOK
  <1>1. RestInv => TypeOK
    BY DEF RestInv
  <1>. QED
    BY <1>1, RestInvariant, PTL

\* StateMachine and its four kinds of user: however their transitions
\* overlap, the machine is in STANDBY when nothing is in progress.
THEOREM MachineRests == Spec => []RestIsStandby
  <1>1. RestInv => RestIsStandby
    BY DEF RestInv, RestIsStandby, Resting, Settled
  <1>. QED
    BY <1>1, RestInvariant, PTL

-----------------------------------------------------------------------------
(* Turns alone.                                                            *)

OnlyTurns == Hearing = {} /\ Speech = {} /\ Vision = {}

Untold(p) == \E a \in Turn : telling[a] = "retain" \/ p \in targets[a]
TurnsInv ==
    /\ RestInv
    /\ \A a, b \in Turn : InTurn(a) /\ InTurn(b) => a = b
    /\ \A a \in Turn : telling[a] # "nothing" => InTurn(a) /\ state = Reported(a)
    /\ \A a \in Turn : telling[a] = "put" => retained = state
    /\ \A a \in Turn : targets[a] # {} => telling[a] = "put"
    /\ (\A a \in Turn : telling[a] # "retain") => retained = state
    /\ \A p \in Panel :
        panel[p] = "open" /\ p \notin lost /\ ~Untold(p) => Displays(p) = state

LEMMA LastShown ==
    ASSUME NEW S, NEW q \in Seq(S), NEW x
    PROVE  LET shown == <<x>> \o q
           IN  shown[Len(shown)] = IF q = <<>> THEN x ELSE q[Len(q)]
  <1> DEFINE shown == <<x>> \o q
  <1>1. Len(shown) = Len(q) + 1 /\ Len(q) \in Nat
    OBVIOUS
  <1>2. CASE q = <<>>
    BY <1>2
  <1>3. CASE q # <<>>
    <2>1. Len(q) \in Nat \ {0}
      BY <1>3
    <2>2. shown[Len(q) + 1] = q[Len(q)]
      BY <1>1, <2>1
    <2>. QED
      BY <1>1, <1>3, <2>2
  <1>. QED
    BY <1>2, <1>3

LEMMA TurnsInit == OnlyTurns /\ Init => TurnsInv
  BY RestInit DEF OnlyTurns, Activity, Init, TurnsInv, InTurn, Untold

\* A step that leaves the panels alone leaves what they display alone.
LEMMA DisplaysKept ==
    ASSUME queue' = queue, screen' = screen, NEW p \in Panel
    PROVE  Displays(p)' = Displays(p)
  BY DEF Displays

LEMMA TransitionTurns ==
    ASSUME OnlyTurns, TurnsInv, NEW a \in Turn, NEW s, NEW label \in PC \ {"new", "ended"},
           Transition(a, s, label), RestInv',
           InTurn(a) \/ \A b \in Turn : ~InTurn(b),
           IF label = "recovered" THEN s = "standby" ELSE s = label
    PROVE  TurnsInv'
  <1>1. /\ pc' = [pc EXCEPT ![a] = label] /\ state' = s
        /\ telling[a] = "nothing" /\ targets' = targets
        /\ telling' = [telling EXCEPT ![a] = IF s = state THEN "nothing" ELSE "retain"]
        /\ retained' = retained /\ queue' = queue /\ screen' = screen
        /\ panel' = panel /\ lost' = lost
    BY DEF Transition, Unchanged, panelVars
  <1>2. Activity = Turn /\ TypeOK
    BY DEF OnlyTurns, Activity, TurnsInv, RestInv
  <1>3. \A b \in Turn : telling[b] = "nothing" /\ targets[b] = {}
    BY <1>1 DEF TurnsInv
  <1>4. retained = state
    BY <1>3 DEF TurnsInv
  <1>5. \A b \in Turn \ {a} : ~InTurn(b) /\ ~InTurn(b)'
    BY <1>1, <1>2 DEF TurnsInv, InTurn, TypeOK
  <1>6. InTurn(a)'
    BY <1>1, <1>2 DEF InTurn, TypeOK
  <1>7. ASSUME NEW p \in Panel PROVE Displays(p)' = Displays(p)
    BY <1>1, DisplaysKept
  <1>8. CASE s = state
    <2>1. telling' = telling /\ state' = state
      BY <1>1, <1>2, <1>8 DEF TypeOK
    <2>. QED
      BY <1>1, <1>3, <1>4, <1>5, <1>7, <2>1 DEF TurnsInv, Untold
  <1>9. CASE s # state
    <2>1. telling'[a] = "retain" /\ \A b \in Turn \ {a} : telling'[b] = "nothing"
      BY <1>1, <1>2, <1>3, <1>9 DEF TypeOK
    <2>2. Reported(a)' = state'
      BY <1>1, <1>2 DEF Reported, TypeOK
    <2>. QED
      BY <1>1, <1>3, <1>5, <1>6, <2>1, <2>2 DEF TurnsInv, Untold
  <1>. QED
    BY <1>8, <1>9

LEMMA TurnsStep == OnlyTurns /\ TurnsInv /\ [Next]_vars => TurnsInv'
  <1> SUFFICES ASSUME OnlyTurns, TurnsInv, [Next]_vars PROVE TurnsInv'
    OBVIOUS
  <1>1. RestInv' /\ TypeOK /\ TypeOK' /\ Activity = Turn
    BY RestStep DEF TurnsInv, RestInv, OnlyTurns, Activity
  <1>2. ASSUME NEW a \in Turn, BeginTurn(a) PROVE TurnsInv'
    BY <1>1, <1>2, TransitionTurns DEF BeginTurn, PC, States
  <1>3. ASSUME NEW a \in Turn,
               Think(a) \/ UseTools(a) \/ Answer(a) \/ TurnRests(a) \/ Recover(a)
        PROVE  TurnsInv'
    <2>1. InTurn(a)
      BY <1>3 DEF Think, UseTools, Answer, TurnRests, Recover, At, InTurn
    <2>2. \E label \in PC \ {"new", "ended"} :
            Transition(a, IF label = "recovered" THEN "standby" ELSE label, label)
      BY <1>3 DEF Think, UseTools, Answer, TurnRests, Recover, PC, States
    <2>. QED
      BY <1>1, <2>1, <2>2, TransitionTurns
  <1>4. ASSUME NEW a \in Turn, LeaveTurn(a) \/ End(a) PROVE TurnsInv'
    <2>1. /\ \E label \in {"recover", "ended"} : pc' = [pc EXCEPT ![a] = label]
          /\ telling[a] = "nothing" /\ InTurn(a)
          /\ UNCHANGED <<state, telling, targets, calls, retained, panelVars>>
      BY <1>4 DEF LeaveTurn, End, At, InTurn
    <2>2. \A b \in Turn \ {a} : InTurn(b)' = InTurn(b) /\ Reported(b)' = Reported(b)
      BY <1>1, <2>1 DEF InTurn, Reported, TypeOK
    <2>3. \A p \in Panel : Displays(p)' = Displays(p) /\ Untold(p)' = Untold(p)
      BY <2>1, DisplaysKept DEF panelVars, Untold
    <2>. QED
      BY <1>1, <2>1, <2>2, <2>3 DEF TurnsInv, panelVars
  <1>5. ASSUME NEW a \in Turn, Retain(a) PROVE TurnsInv'
    <2>1. InTurn(a) /\ state = Reported(a)
      BY <1>5 DEF Retain, TurnsInv
    <2>2. /\ pc' = pc /\ state' = state /\ retained' = state /\ panel' = panel
          /\ telling' = [telling EXCEPT ![a] = "put"]
          /\ targets' = [targets EXCEPT ![a] = {p \in Panel : panel[p] = "open"}]
      BY <1>5, <2>1 DEF Retain, Kept, panelVars
    <2>3. ASSUME NEW p \in Panel, panel'[p] = "open" PROVE Untold(p)'
      BY <1>1, <2>2, <2>3 DEF Untold, TypeOK
    <2>4. \A b \in Turn : InTurn(b)' = InTurn(b) /\ Reported(b)' = Reported(b)
      BY <2>2 DEF InTurn, Reported
    <2>. QED
      BY <1>1, <2>1, <2>2, <2>3, <2>4 DEF TurnsInv, TypeOK
  <1>6. ASSUME NEW a \in Turn, NEW p \in Panel, Put(a, p) PROVE TurnsInv'
    <2>1. /\ UNCHANGED <<state, pc, telling, calls, retained, panel, screen>>
          /\ targets' = [targets EXCEPT ![a] = @ \ {p}]
          /\ telling[a] = "put" /\ state = Reported(a)
      BY <1>6 DEF Put, TurnsInv
    <2>2. \A b \in Turn : InTurn(b)' = InTurn(b) /\ Reported(b)' = Reported(b)
      BY <2>1 DEF InTurn, Reported
    <2>3. ASSUME NEW r \in Panel, r # p, panel[r] = "open", r \notin lost', ~Untold(r)'
          PROVE  Displays(r)' = state'
      <3>1. r \notin lost /\ ~Untold(r)
        BY <1>1, <1>6, <2>1, <2>3 DEF Put, Untold, TypeOK
      <3>2. Displays(r) = state
        BY <2>3, <3>1 DEF TurnsInv
      <3>3. queue'[r] = queue[r] /\ screen'[r] = screen[r]
        BY <1>1, <1>6, <2>1, <2>3 DEF Put, TypeOK
      <3>. QED
        BY <2>1, <3>2, <3>3 DEF Displays
    <2>4. ASSUME panel[p] = "open", p \notin lost' PROVE Displays(p)' = state'
      <3>1. Len(queue[p]) < QueueLimit /\ queue[p] \in Seq(States)
        BY <1>1, <1>6, <2>4 DEF Put, TypeOK
      <3>2. queue'[p] = Append(queue[p], state)
        BY <1>1, <1>6, <2>1, <3>1 DEF Put, AfterPut, TypeOK
      <3>3. queue'[p] # <<>> /\ queue'[p][Len(queue'[p])] = state
        BY <3>1, <3>2
      <3>5. queue'[p] \in Seq(States)
        BY <1>1 DEF TypeOK
      <3>4. Displays(p)' = queue'[p][Len(queue'[p])]
        BY <3>1, <3>2, <3>3, <3>5, LastShown DEF Displays
      <3>. QED
        BY <2>1, <3>3, <3>4
    <2>. QED
      BY <1>1, <2>1, <2>2, <2>3, <2>4 DEF TurnsInv, TypeOK
  <1>7. ASSUME NEW a \in Turn, Told(a) PROVE TurnsInv'
    <2>1. /\ telling[a] = "put" /\ telling' = [telling EXCEPT ![a] = "nothing"]
          /\ targets[a] = {}
          /\ UNCHANGED <<state, pc, targets, calls, retained, panelVars>>
      BY <1>7 DEF Told
    <2>2. \A b \in Turn : InTurn(b)' = InTurn(b) /\ Reported(b)' = Reported(b)
      BY <2>1 DEF InTurn, Reported
    <2>3. \A p \in Panel : Displays(p)' = Displays(p) /\ Untold(p)' = Untold(p)
      BY <1>1, <2>1, DisplaysKept DEF panelVars, Untold, TypeOK
    <2>4. retained = state
      BY <2>1 DEF TurnsInv
    <2>. QED
      BY <1>1, <2>1, <2>2, <2>3, <2>4 DEF TurnsInv, panelVars, TypeOK
  <1>8. ASSUME NEW p \in Panel, Connect(p) \/ Show(p) \/ Disconnect(p) PROVE TurnsInv'
    <2>1. UNCHANGED <<state, pc, telling, targets, retained, lost>>
      BY <1>8 DEF Connect, Show, Disconnect, activityVars
    <2>2. \A a \in Turn : InTurn(a)' = InTurn(a) /\ Reported(a)' = Reported(a)
      BY <2>1 DEF InTurn, Reported
    <2>3. \A r \in Panel : Untold(r)' = Untold(r)
      BY <2>1 DEF Untold
    <2>4. \A r \in Panel \ {p} : Displays(r)' = Displays(r) /\ panel'[r] = panel[r]
      BY <1>1, <1>8 DEF Connect, Show, Disconnect, Displays, TypeOK
    <2>5. ASSUME panel'[p] = "open", p \notin lost, ~Untold(p)
          PROVE  Displays(p)' = state
      <3>1. CASE Connect(p)
        <4>1. retained = state
          BY <2>5 DEF TurnsInv, Untold
        <4>2. queue'[p] = <<state>>
          BY <1>1, <3>1, <4>1 DEF Connect, Replay, TypeOK
        <4>. QED
          BY <4>2 DEF Displays
      <3>2. CASE Show(p)
        <4>1. Displays(p) = state /\ queue[p] \in Seq(States) /\ queue[p] # <<>>
          BY <1>1, <2>5, <3>2 DEF Show, TurnsInv, TypeOK
        <4>2. state = queue[p][Len(queue[p])]
          BY <4>1, LastShown DEF Displays
        <4>3. queue'[p] = Tail(queue[p]) /\ screen'[p] = Head(queue[p])
          BY <1>1, <3>2 DEF Show, TypeOK
        <4>7. queue'[p] \in Seq(States)
          BY <1>1 DEF TypeOK
        <4>4. Displays(p)' = IF queue'[p] = <<>> THEN screen'[p]
                             ELSE queue'[p][Len(queue'[p])]
          BY <4>7, LastShown DEF Displays
        <4>5. Len(queue[p]) \in Nat \ {0}
          BY <4>1, SequenceEnds
        <4>6. CASE Len(queue[p]) = 1
          BY <4>1, <4>2, <4>3, <4>4, <4>6, SequenceEnds
        <4>8. CASE Len(queue[p]) > 1
          <5>1. /\ Len(Tail(queue[p])) = Len(queue[p]) - 1
                /\ Tail(queue[p])[Len(Tail(queue[p]))] = queue[p][Len(queue[p])]
            BY <4>1, <4>8, SequenceEnds
          <5>2. Len(Tail(queue[p])) # 0
            BY <4>8, <5>1
          <5>3. Tail(queue[p]) # <<>>
            BY <5>2, NotEmpty
          <5>. QED
            BY <4>2, <4>3, <4>4, <5>1, <5>3
        <4>. QED
          BY <4>5, <4>6, <4>8, OneOrMore
      <3>3. CASE Disconnect(p)
        BY <1>1, <2>5, <3>3 DEF Disconnect, TypeOK
      <3>. QED
        BY <1>8, <3>1, <3>2, <3>3
    <2>. QED
      BY <1>1, <2>1, <2>2, <2>3, <2>4, <2>5 DEF TurnsInv
  <1>9. CASE UNCHANGED vars
    BY <1>1, <1>9 DEF vars, activityVars, panelVars, TurnsInv, InTurn, Reported,
                      Untold, Displays
  <1>. QED
    BY <1>1, <1>2, <1>3, <1>4, <1>5, <1>6, <1>7, <1>8, <1>9
    DEF Next, Act, Outside, Tell, Idle, Hear, Speak, See, OnlyTurns

LEMMA TurnsInvariant == ASSUME OnlyTurns PROVE Spec => []TurnsInv
  <1>1. Init => TurnsInv
    BY TurnsInit
  <1>2. TurnsInv /\ [Next]_vars => TurnsInv'
    BY TurnsStep
  <1>. QED
    BY <1>1, <1>2, PTL DEF Spec

\* _on_state and EventHub.publish, when only turns run: at rest the state a
\* late panel is sent is the machine's state.
THEOREM TurnsRetainTheState == ASSUME OnlyTurns PROVE Spec => []RetainedIsState
  <1>1. TurnsInv => RetainedIsState
    <2> SUFFICES ASSUME TurnsInv, Resting PROVE retained = state
      BY DEF RetainedIsState
    <2>1. \A a \in Turn : ~InTurn(a)
      BY DEF Resting, InTurn, Activity
    <2>2. \A a \in Turn : telling[a] = "nothing"
      BY <2>1 DEF TurnsInv
    <2>. QED
      BY <2>2 DEF TurnsInv
  <1>. QED
    BY <1>1, TurnsInvariant, PTL

\* _serve_events, when only turns run: at rest every connected panel that
\* lost no event to a full queue comes to display the machine's state.
THEOREM TurnsReachTheScreens == ASSUME OnlyTurns PROVE Spec => []ScreensAgree
  <1>1. TurnsInv => ScreensAgree
    <2> SUFFICES ASSUME TurnsInv, Resting, NEW p \in Panel,
                        panel[p] = "open", p \notin lost
                 PROVE  Displays(p) = state
      BY DEF ScreensAgree
    <2>1. \A a \in Turn : ~InTurn(a)
      BY DEF Resting, InTurn, Activity
    <2>2. \A a \in Turn : telling[a] = "nothing" /\ targets[a] = {}
      BY <2>1 DEF TurnsInv
    <2>3. ~Untold(p)
      BY <2>2 DEF Untold
    <2>. QED
      BY <2>3 DEF TurnsInv
  <1>. QED
    BY <1>1, TurnsInvariant, PTL

\* A panel that is open has a queue, or a screen that shows a state.
Painted(p) == panel[p] = "open" => queue[p] # <<>> \/ screen[p] \in States
PaintedInv == \A p \in Panel : Painted(p)

LEMMA PaintedStep == RestInv /\ PaintedInv /\ [Next]_vars => PaintedInv'
  <1> SUFFICES ASSUME RestInv, PaintedInv, [Next]_vars, NEW r \in Panel PROVE Painted(r)'
    BY DEF PaintedInv
  <1>1. TypeOK /\ Painted(r)
    BY DEF RestInv, PaintedInv
  <1>2. ASSUME UNCHANGED panelVars PROVE Painted(r)'
    BY <1>1, <1>2 DEF panelVars, Painted
  <1>3. ASSUME NEW a \in Activity, Act(a) \/ Retain(a) \/ Told(a) \/ BeginTurn(a) \/ Outside(a)
        PROVE  UNCHANGED panelVars
    BY <1>3 DEF Act, Retain, Told, BeginTurn, Outside, Think, UseTools, Answer, TurnRests,
                LeaveTurn, Recover, End, Hear, Speak, See, Transition
  <1>4. ASSUME NEW a \in Activity, NEW p \in Panel, Put(a, p) PROVE Painted(r)'
    <2>1. PICK q \in AfterPut(queue[p], Reported(a)) : queue' = [queue EXCEPT ![p] = q]
      BY <1>4 DEF Put
    <2>2. UNCHANGED <<panel, screen>>
      BY <1>4 DEF Put
    <2>3. queue[p] \in Seq(States) /\ Reported(a) \in States
      BY <1>1, <1>4 DEF Put, TypeOK, RestInv, Telling
    <2>4. q # <<>> \/ q = queue[p]
      <3>1. Append(queue[p], Reported(a)) # <<>>
        BY <2>3
      <3>. QED
        BY <2>1, <3>1 DEF AfterPut
    <2>. QED
      BY <1>1, <2>1, <2>2, <2>4 DEF Painted, TypeOK
  <1>5. ASSUME NEW p \in Panel, Connect(p) PROVE Painted(r)'
    BY <1>1, <1>5 DEF Connect, Replay, Painted, TypeOK
  <1>6. ASSUME NEW p \in Panel, Show(p) PROVE Painted(r)'
    <2>1. Head(queue[p]) \in States
      BY <1>1, <1>6, SequenceEnds DEF Show, TypeOK
    <2>. QED
      BY <1>1, <1>6, <2>1 DEF Show, Painted, TypeOK
  <1>7. ASSUME NEW p \in Panel, Disconnect(p) PROVE Painted(r)'
    BY <1>1, <1>7 DEF Disconnect, Painted, TypeOK
  <1>8. CASE UNCHANGED vars
    BY <1>2, <1>8 DEF vars
  <1>. QED
    BY <1>2, <1>3, <1>4, <1>5, <1>6, <1>7, <1>8 DEF Next, Tell, Idle

\* EventHub.subscribe's replay: a panel never has nothing to show, whatever
\* activities run and whenever it connects.
THEOREM PanelsAreNeverBlank == Spec => []NoBlankPanel
  <1>1. Init => PaintedInv
    BY DEF Init, PaintedInv, Painted
  <1>2. RestInv /\ PaintedInv /\ [Next]_vars => PaintedInv'
    BY PaintedStep
  <1>3. RestInv /\ PaintedInv => NoBlankPanel
    <2> SUFFICES ASSUME RestInv, PaintedInv, NEW p \in Panel, panel[p] = "open"
                 PROVE  Displays(p) # Blank
      BY DEF NoBlankPanel
    <2>1. queue[p] \in Seq(States) /\ (queue[p] # <<>> \/ screen[p] \in States)
      BY DEF RestInv, TypeOK, PaintedInv, Painted
    <2>2. Displays(p) = IF queue[p] = <<>> THEN screen[p] ELSE queue[p][Len(queue[p])]
      BY <2>1, LastShown DEF Displays
    <2>3. Displays(p) \in States
      <3>1. CASE queue[p] = <<>>
        BY <2>1, <2>2, <3>1
      <3>2. CASE queue[p] # <<>>
        <4>1. queue[p][Len(queue[p])] \in States
          BY <2>1, <3>2
        <4>. QED
          BY <2>2, <3>2, <4>1
      <3>. QED
        BY <3>1, <3>2
    <2>. QED
      BY <2>3 DEF States, Blank
  <1>. QED
    BY <1>1, <1>2, <1>3, RestInvariant, PTL DEF Spec

\* The panels as a whole, when only turns run.
THEOREM TurnsAgreeWithThePanels == ASSUME OnlyTurns PROVE Spec => []PanelsAgree
  <1>1. PanelsAgree <=> TypeOK /\ RetainedIsState /\ ScreensAgree /\ NoBlankPanel
    BY DEF PanelsAgree
  <1>. QED
    BY <1>1, CoreStateTypeCorrect, TurnsRetainTheState, TurnsReachTheScreens,
       PanelsAreNeverBlank, PTL

-----------------------------------------------------------------------------
(***************************************************************************)
(* HealthPanel. ReportIsHonest is inductive with the clock, which is the   *)
(* time that passed until it is set back, so that the reading a report     *)
(* carries tells its age, and with the vital parts of the report that is   *)
(* kept.                                                                   *)
(***************************************************************************)

\* A part the assistant cannot work without has a required check that says
\* so, whatever the scores are.
LEMMA VitalOrCritical ==
    ASSUME NEW w \in Worlds
    PROVE  /\ Verdict(w) \in {"CRITICAL", "DEGRADED", "OPERATIONAL"}
           /\ Verdict(w) # "CRITICAL" => Vital(w)
  <1>1. Verdict(w) \in {"CRITICAL", "DEGRADED", "OPERATIONAL"}
    BY DEF Verdict
  <1>2. ASSUME w.model \in {"not_found", "offline"} PROVE RequiredFails(w)
    <2>1. Check("model", "critical", TRUE) \in Model(w)
      BY <1>2 DEF Model
    <2>2. Check("model", "critical", TRUE) \in Checks(w)
      BY <2>1 DEF Checks
    <2>. QED
      BY <2>2 DEF RequiredFails, Check
  <1>3. ASSUME w.broken \in {"core", "packages", "memory", "tools"} PROVE RequiredFails(w)
    <2>1. Check(w.broken, "critical", TRUE) \in Checks(w)
      BY <1>3 DEF Checks
    <2>. QED
      BY <2>1 DEF RequiredFails, Check
  <1>4. ~Vital(w) => RequiredFails(w)
    BY <1>2, <1>3 DEF Vital, Worlds
  <1>5. RequiredFails(w) => Verdict(w) = "CRITICAL"
    BY DEF Verdict
  <1>. QED
    BY <1>1, <1>4, <1>5

Reports == [verdict : {"none", "CRITICAL", "DEGRADED", "OPERATIONAL"}, vital : BOOLEAN,
            at : 0 .. MaxTime]
HealthTypes ==
    /\ world \in Worlds
    /\ wallClock \in 0 .. MaxTime /\ elapsed \in 0 .. MaxTime /\ cachedAt \in 0 .. MaxTime
    /\ setBack \in BOOLEAN
    /\ asker \in [Askers -> {"idle", "measuring", "publishing"}]
    /\ report \in Reports
    /\ given \in [Askers -> Reports]

\* Until the clock is set back it is the time that passed, and a kept report
\* carries the reading of it at which it was measured.
ClockInv ==
    /\ report.at <= elapsed
    /\ wallClock <= elapsed
    /\ ~setBack => wallClock = elapsed
    /\ ~setBack /\ report # NoReport => report.at = cachedAt
VitalInv == report.verdict \in {"OPERATIONAL", "DEGRADED"} => report.vital
HealthInv == HealthTypes /\ ClockInv /\ VitalInv /\ NothingVitalIsAveragedAway /\ ReportIsRecent

LEMMA HealthInvIsEnough == HealthInv => ReportIsHonest
  <1>. SUFFICES ASSUME HealthTypes PROVE HealthTypeOK
    BY DEF HealthInv, ReportIsHonest
  <1>1. \A r \in {report} \cup {given[a] : a \in Askers} : r \in Reports
    BY DEF HealthTypes
  <1>2. \A r \in Reports : /\ r.vital \in BOOLEAN
                           /\ r.verdict \in {"none", "CRITICAL", "DEGRADED", "OPERATIONAL"}
                           /\ r.at \in 0 .. MaxTime
    BY DEF Reports
  <1>. QED
    BY <1>1, <1>2 DEF HealthTypes, HealthTypeOK

LEMMA HealthInitInv == HealthInit => HealthInv
  <1>. SUFFICES ASSUME HealthInit PROVE HealthInv
    OBVIOUS
  <1>1. NoReport \in Reports /\ NoReport.at = 0 /\ NoReport.verdict = "none"
    BY HealthAssumption DEF NoReport, Reports
  <1>2. setBack \in BOOLEAN /\ asker \in [Askers -> {"idle", "measuring", "publishing"}]
    BY Zenon DEF HealthInit
  <1>3. HealthTypes
    BY <1>1, <1>2, HealthAssumption DEF HealthInit, HealthTypes
  <1>4. \A a \in Askers : given[a] = NoReport
    BY DEF HealthInit
  <1>. QED
    BY <1>1, <1>3, <1>4, HealthAssumption
    DEF HealthInit, HealthInv, ClockInv, VitalInv, NothingVitalIsAveragedAway, ReportIsRecent

LEMMA TimeKeeps ==
    ASSUME HealthInv, NEW back \in BOOLEAN, TimePasses(back)
    PROVE  HealthInv'
  <1>. UNCHANGED <<world, report, cachedAt, asker, given>>
    BY DEF TimePasses
  <1>1. setBack' \in BOOLEAN /\ (~setBack' => ~setBack /\ ~back)
    BY DEF TimePasses
  <1>2. /\ elapsed' \in 0 .. MaxTime /\ elapsed' = elapsed + 1
        /\ wallClock' \in 0 .. MaxTime /\ wallClock' <= elapsed'
    BY HealthAssumption DEF HealthInv, HealthTypes, ClockInv, TimePasses
  <1>3. HealthTypes'
    BY <1>1, <1>2 DEF HealthInv, HealthTypes
  <1>4. ~setBack' => wallClock' = elapsed'
    BY <1>1 DEF HealthInv, ClockInv, TimePasses
  <1>5. ClockInv'
    BY <1>1, <1>2, <1>4 DEF HealthInv, HealthTypes, ClockInv, Reports
  <1>6. ReportIsRecent'
    BY <1>1 DEF HealthInv, ReportIsRecent
  <1>. QED
    BY <1>3, <1>5, <1>6 DEF HealthInv, VitalInv, NothingVitalIsAveragedAway

LEMMA AskKeeps ==
    ASSUME HealthInv, NEW a \in Askers, NEW refresh \in BOOLEAN, AskHealth(a, refresh)
    PROVE  HealthInv'
  <1>. UNCHANGED <<world, clocks, report, cachedAt>>
    BY DEF AskHealth
  <1>0. UNCHANGED <<wallClock, elapsed, setBack>>
    BY DEF clocks
  <1>1. ClockInv' /\ VitalInv'
    BY <1>0 DEF HealthInv, ClockInv, VitalInv
  <1>2. CASE UNCHANGED given /\ asker' = [asker EXCEPT ![a] = "measuring"]
    BY <1>0, <1>1, <1>2
    DEF HealthInv, HealthTypes, NothingVitalIsAveragedAway, ReportIsRecent
  <1>3. CASE /\ StillKept /\ UNCHANGED asker
             /\ given' = [given EXCEPT ![a] = [report EXCEPT !.at = elapsed - report.at]]
    <2>. DEFINE r == [report EXCEPT !.at = elapsed - report.at]
    <2>1. /\ r \in Reports /\ r.at = elapsed - report.at
          /\ r.verdict = report.verdict /\ r.vital = report.vital
      <3>1. report \in Reports /\ elapsed - report.at \in 0 .. MaxTime
        BY HealthAssumption DEF HealthInv, HealthTypes, ClockInv, Reports
      <3>. QED
        BY <3>1 DEF Reports
    <2>2. setBack \/ r.at < KeepFor
      BY <1>3, <2>1 DEF HealthInv, HealthTypes, ClockInv, StillKept
    <2>3. given' = [given EXCEPT ![a] = r]
      BY <1>3
    <2>. HIDE DEF r
    <2>4. HealthTypes'
      BY <1>0, <1>3, <2>1, <2>3 DEF HealthInv, HealthTypes
    <2>5. \A b \in Askers : given'[b] = IF b = a THEN r ELSE given[b]
      BY <2>3 DEF HealthInv, HealthTypes
    <2>6. NothingVitalIsAveragedAway'
      BY <2>1, <2>5 DEF HealthInv, VitalInv, NothingVitalIsAveragedAway
    <2>7. ReportIsRecent'
      BY <1>0, <2>2, <2>5 DEF HealthInv, ReportIsRecent
    <2>. QED
      BY <1>1, <2>4, <2>6, <2>7 DEF HealthInv
  <1>. QED
    BY <1>2, <1>3 DEF AskHealth

LEMMA MeasuredKeeps ==
    ASSUME HealthInv, NEW a \in Askers, Measured(a)
    PROVE  HealthInv'
  <1>. UNCHANGED <<world, clocks>>
    BY DEF Measured
  <1>0. UNCHANGED <<wallClock, elapsed, setBack>>
    BY DEF clocks
  <1>1. world \in Worlds /\ elapsed \in 0 .. MaxTime
    BY DEF HealthInv, HealthTypes
  <1>2. /\ report'.verdict = Verdict(world) /\ report'.vital = Vital(world)
        /\ report'.at = elapsed /\ report' \in Reports
    <2>1. Vital(world) \in BOOLEAN
      BY Zenon DEF Vital
    <2>2. report' = [verdict |-> Verdict(world), vital |-> Vital(world), at |-> elapsed]
      BY DEF Measured
    <2>. QED
      BY <1>1, <2>1, <2>2, VitalOrCritical DEF Reports
  <1>3. ClockInv'
    BY <1>0, <1>2 DEF HealthInv, HealthTypes, ClockInv, Measured
  <1>4. VitalInv'
    BY <1>1, <1>2, VitalOrCritical DEF VitalInv
  <1>. DEFINE r == [report' EXCEPT !.at = 0]
  <1>5. r \in Reports /\ r.at = 0 /\ r.verdict = report'.verdict /\ r.vital = report'.vital
    BY <1>2, HealthAssumption DEF Reports
  <1>6. given' = [given EXCEPT ![a] = r]
    BY DEF Measured
  <1>. HIDE DEF r
  <1>7. \A b \in Askers : given'[b] = IF b = a THEN r ELSE given[b]
    BY <1>6 DEF HealthInv, HealthTypes
  <1>8. HealthTypes'
    BY <1>0, <1>2, <1>5, <1>6 DEF HealthInv, HealthTypes, Measured
  <1>9. NothingVitalIsAveragedAway'
    BY <1>4, <1>5, <1>7 DEF HealthInv, VitalInv, NothingVitalIsAveragedAway
  <1>10. ReportIsRecent'
    BY <1>0, <1>5, <1>7, HealthAssumption DEF HealthInv, ReportIsRecent
  <1>. QED
    BY <1>3, <1>4, <1>8, <1>9, <1>10 DEF HealthInv

LEMMA HealthStepInv == HealthInv /\ [HealthNext]_healthVars => HealthInv'
  <1>. SUFFICES ASSUME HealthInv, [HealthNext]_healthVars PROVE HealthInv'
    OBVIOUS
  <1>1. ASSUME NEW w \in Worlds, Changes(w) PROVE HealthInv'
    BY <1>1 DEF HealthInv, HealthTypes, ClockInv, VitalInv, NothingVitalIsAveragedAway,
                ReportIsRecent, Changes, clocks
  <1>2. ASSUME NEW back \in BOOLEAN, TimePasses(back) PROVE HealthInv'
    BY <1>2, TimeKeeps
  <1>3. ASSUME NEW a \in Askers, NEW refresh \in BOOLEAN, AskHealth(a, refresh)
        PROVE  HealthInv'
    BY <1>3, AskKeeps
  <1>4. ASSUME NEW a \in Askers, Measured(a) PROVE HealthInv'
    BY <1>4, MeasuredKeeps
  <1>5. ASSUME NEW a \in Askers, PublishHealth(a) PROVE HealthInv'
    BY <1>5 DEF HealthInv, HealthTypes, ClockInv, VitalInv, NothingVitalIsAveragedAway,
                ReportIsRecent, PublishHealth, clocks
  <1>6. CASE UNCHANGED healthVars
    BY <1>6 DEF HealthInv, HealthTypes, ClockInv, VitalInv, NothingVitalIsAveragedAway,
                ReportIsRecent, healthVars, clocks
  <1>. QED
    BY <1>1, <1>2, <1>3, <1>4, <1>5, <1>6 DEF HealthNext

\* For any number of askers and any keeping time: a report that is not
\* critical was measured with every vital part in order, and, as long as the
\* clock is not set back, it is younger than the keeping time.
THEOREM ReportsStayHonest == HealthSpec => []ReportIsHonest
  BY HealthInitInv, HealthStepInv, HealthInvIsEnough, PTL DEF HealthSpec
=============================================================================

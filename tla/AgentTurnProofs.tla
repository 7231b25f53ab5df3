-------------------------- MODULE AgentTurnProofs --------------------------
(***************************************************************************)
(* Theorems about AgentTurn for any callers, tools, steps and pieces.      *)
(*                                                                         *)
(* The invariants of the module are not inductive.  What makes them so:    *)
(* the lock's holder is the one turn that is under way (LockInv); before   *)
(* its first message a turn has none, and while the model works on it the  *)
(* history ends with it (HistoryInv); what was given to a caller and what  *)
(* is still in its queue are one stream, pieces first (StreamInv); and the *)
(* outcomes the answer is grounded on are those of the last calls          *)
(* (OutcomeInv).                                                           *)
(***************************************************************************)
EXTENDS AgentTurn, SequenceTheorems, TLAPS

Fresh(r) == pc[r] \in {"new", "at_lock", "begin", "routed"}
Modelled(r) == pc[r] \in {"asking_model", "streaming", "tools"}

\* A turn starts once, and a round has a call left.
PlaceInv ==
    \A r \in Request : (caller[r] = "new" => pc[r] = "new") /\ (pc[r] = "tools" => round > 0)

\* One turn is under way, and only its specialist may be started.
LockInv ==
    /\ \A r \in Request : InTurn(r) <=> turnLock = r
    /\ specialist \subseteq {turnLock}
    /\ turnLock = NoOne => state = "standby"

\* The messages of a turn that has not begun, and of the one under way.
HistoryInv ==
    /\ TurnsDoNotInterleave
    /\ \A r \in Request : Fresh(r) => \A i \in DOMAIN history : history[i][2] # r
    /\ \A r \in Request : Modelled(r) =>
          /\ history # <<>> /\ history[Len(history)][2] = r
          /\ \E i \in DOMAIN history : history[i] = Says("user", r)
          /\ \A i \in DOMAIN history : history[i] # Says("assistant", r)
    /\ (\A r \in Request : ~Modelled(r)) =>
          history = <<>> \/ history[Len(history)][1] # "user"

\* What SQLite holds of a turn under way, and of an answered one.
RecordInv ==
    /\ RecordedInBothHistories
    /\ \A r \in Request :
          /\ pc[r] \in {"routed", "asking_model", "streaming", "tools"} =>
                \E i \in DOMAIN durable : durable[i] = Says("user", r)
          /\ answer[r] # None => pc[r] \in {"answered", "settled", "ended"}

\* A plain caller has no queue.
PlainInv(r) ==
    /\ chunks[r] = <<>> /\ ~emitted[r]
    /\ caller[r] \in {"new", "waiting", "got_answer", "got_error"}
    /\ Returned(r) <=> pc[r] = "ended"
    /\ caller[r] = "got_answer" => answer[r] # None /\ shown[r] = <<answer[r]>>

\* What was shown and what is still in the queue.
Stream(r) == shown[r] \o chunks[r]
\* The first n items are pieces, then the recorded answer or a last piece.
Told(f, n, r) ==
    /\ n > 0
    /\ \A i \in 1 .. n - 1 : f[i] = Fragment
    /\ f[n] # answer[r] => f[n] = Fragment /\ answer[r] \in {"rendered", "notice"}
StreamInv(r) ==
    /\ caller[r] \in {"new", "reading", "joining", "got_answer", "got_error"}
    /\ caller[r] \in {"joining", "got_answer", "got_error"} => pc[r] = "ended"
    /\ Fresh(r) => Stream(r) = <<>>
    /\ Modelled(r) => \A i \in DOMAIN Stream(r) : Stream(r)[i] = Fragment
    /\ pc[r] = "streaming" /\ streamed => emitted[r]
    /\ pc[r] # "ended" =>
          /\ emitted[r] <=> Stream(r) # <<>>
          /\ \A i \in DOMAIN Stream(r) : Stream(r)[i] # Done
          /\ answer[r] # None /\ emitted[r] => Told(Stream(r), Len(Stream(r)), r)
    /\ pc[r] = "ended" /\ caller[r] = "reading" =>
          LET n == Len(Stream(r)) IN
          /\ chunks[r] # <<>> /\ Stream(r)[n] = Done
          /\ \A i \in 1 .. n - 1 : Stream(r)[i] # Done
          /\ answer[r] # None => Told(Stream(r), n - 1, r)
    /\ caller[r] \in {"joining", "got_answer", "got_error"} =>
          chunks[r] = <<>> /\ (answer[r] # None => Told(shown[r], Len(shown[r]), r))
    /\ caller[r] = "got_answer" => answer[r] # None

\* The outcome of a tool is the result of its last call.
OutcomeInv ==
    /\ \A i \in DOMAIN toolResults :
          /\ toolResults[i][1] \in DOMAIN toolOutcome
          /\ LastCall(i) => toolOutcome[toolResults[i][1]] = toolResults[i][2]
    /\ \A t \in DOMAIN toolOutcome :
          \E i \in DOMAIN toolResults : LastCall(i) /\ toolResults[i][1] = t
    /\ \A r \in Request : pc[r] = "answered" /\ answer[r] \in {"rendered", "notice"} =>
          answer[r] = Grounded

AgentInv ==
    /\ TypeOK /\ PlaceInv
    /\ LockInv /\ HistoryInv /\ RecordInv /\ OutcomeInv
    /\ \A r \in Plain : PlainInv(r)
    /\ \A r \in Streamed : StreamInv(r)

\* The parts of the type invariant.
ScalarsOK ==
    /\ turnLock \in Request \cup {NoOne}
    /\ pc \in [Request -> PC]
    /\ caller \in [Request -> Callers]
    /\ state \in States
    /\ step \in 0 .. MaxSteps
    /\ round \in 0 .. MaxRound
    /\ streamed \in BOOLEAN
    /\ emitted \in [Request -> BOOLEAN]
    /\ answer \in [Request -> Answers \cup {None}]
    /\ specialist \subseteq Request
    /\ trace \in [Request -> {None, "ok", "error", "incomplete"}]
OutcomesOK ==
    /\ DOMAIN toolOutcome \subseteq Tool /\ toolOutcome \in [DOMAIN toolOutcome -> BOOLEAN]
    /\ toolResults \in Seq(Tool \X BOOLEAN)
Text == Answers \cup {Fragment}
Item == Answers \cup {Fragment, Done}
QueuesOK == chunks \in [Request -> Seq(Item)] /\ shown \in [Request -> Seq(Text)]
Message == {"user", "call", "tool", "assistant"} \X Request
Kept == {"user", "assistant"} \X Request
HistoriesOK == history \in Seq(Message) /\ durable \in Seq(Kept)
LEMMA TypeParts == TypeOK <=> ScalarsOK /\ OutcomesOK /\ QueuesOK /\ HistoriesOK
  BY DEF TypeOK, ScalarsOK, OutcomesOK, QueuesOK, HistoriesOK, Text, Item, Message, Kept

LEMMA Counts ==
    /\ MaxSteps \in Nat \ {0} /\ 0 \in 0 .. MaxSteps
    /\ MaxRound \in Nat \ {0} /\ 0 \in 0 .. MaxRound
  <1>1. MaxSteps \in Nat \ {0}
    BY StepsAssumption
  <1>. QED
    BY <1>1, BoundsAssumption

LEMMA Appended == ASSUME NEW S, NEW s \in Seq(S), NEW x \in S PROVE Append(s, x) \in Seq(S)
  OBVIOUS

LEMMA Recorded ==
    ASSUME NEW r \in Request
    PROVE  /\ Says("user", r) \in Message \cap Kept /\ Says("assistant", r) \in Message \cap Kept
           /\ Says("call", r) \in Message /\ Says("tool", r) \in Message
  BY DEF Says, Message, Kept

LEMMA Texts ==
    /\ Text \subseteq Item /\ Done \in Item /\ Fragment \in Text /\ Answers \subseteq Text
    /\ None \notin Text /\ Done \notin Text /\ Grounded \in Answers
    /\ \A t \in {"notice", "rendered", "error", "fallback", "direct"} : t \in Answers
  BY DEF Text, Item, Answers, Done, Fragment, None, Grounded

LEMMA Emitted ==
    ASSUME QueuesOK, NEW r \in Request, NEW text \in Text, Emit(r, text), shown' = shown
    PROVE  QueuesOK'
  <1>1. chunks[r] \in Seq(Item)
    BY DEF QueuesOK
  <1>2. Append(chunks[r], text) \in Seq(Item)
    BY <1>1, Texts, Appended
  <1>. QED
    BY <1>2 DEF Emit, QueuesOK

LEMMA AgentStart == Init => AgentInv
  <1> SUFFICES ASSUME Init PROVE AgentInv
    OBVIOUS
  <1>1. TypeOK /\ PlaceInv
    <2>1. ScalarsOK /\ PlaceInv
      BY Counts DEF Init, ScalarsOK, PlaceInv, PC, Callers, States
    <2>2. OutcomesOK
      BY DEF Init, OutcomesOK, NoOutcome
    <2>3. QueuesOK /\ HistoriesOK
      BY DEF Init, QueuesOK, HistoriesOK
    <2>. QED
      BY <2>1, <2>2, <2>3, TypeParts
  <1>2. LockInv
    BY CallersAssumption DEF Init, LockInv, InTurn
  <1>3. HistoryInv
    BY DEF Init, HistoryInv, TurnsDoNotInterleave, Fresh, Modelled
  <1>4. RecordInv
    BY DEF Init, RecordInv, RecordedInBothHistories, None
  <1>5. OutcomeInv
    BY DEF Init, OutcomeInv, NoOutcome
  <1>6. ASSUME NEW r \in Plain PROVE PlainInv(r)
    BY DEF Init, PlainInv, Request, Returned
  <1>7. ASSUME NEW r \in Streamed PROVE StreamInv(r)
    BY DEF Init, StreamInv, Stream, Request, Fresh, Modelled, None
  <1>. QED
    BY <1>1, <1>2, <1>3, <1>4, <1>5, <1>6, <1>7 DEF AgentInv

\* The actions of one request, and the steps that change nothing.
Acts(r) == Submit(r) \/ RunTurn(r) \/ ReadStream(r)
LEMMA EveryStep == [Next]_vars <=> (\E r \in Request : Acts(r)) \/ UNCHANGED vars
  BY DEF Next, Acts, Idle

\* Under the lock nobody else is in a turn.
LEMMA Alone ==
    ASSUME LockInv, NEW r \in Request, InTurn(r), NEW q \in Request, InTurn(q)
    PROVE  q = r
  BY DEF LockInv

LEMMA LockStep ==
    ASSUME TypeOK, PlaceInv, LockInv, NEW r \in Request, Acts(r)
    PROVE  LockInv'
  <1>0. NoOne \notin Request /\ pc \in [Request -> PC] /\ specialist \subseteq Request
        /\ (caller[r] = "new" => pc[r] = "new")
    BY CallersAssumption DEF TypeOK, PlaceInv
  <1>1. CASE Submit(r)
    BY <1>0, <1>1 DEF Submit, Goto, LockInv, InTurn, PC
  <1>2. CASE TakeTurn(r)
    BY <1>0, <1>2 DEF TakeTurn, LockFree, Goto, LockInv, InTurn, PC
  <1>3. CASE Begin(r)
    BY <1>0, <1>3 DEF Begin, Goto, LockInv, InTurn, PC
  <1>4. CASE DirectReply(r)
    BY <1>0, <1>4 DEF DirectReply, Conclude, Goto, LockInv, InTurn, PC
  <1>5. CASE Prepare(r)
    BY <1>0, <1>5 DEF Prepare, Goto, LockInv, InTurn, PC
  <1>6. CASE AskModel(r)
    BY <1>0, <1>6 DEF AskModel, Goto, LockInv, InTurn, PC
  <1>7. CASE Piece(r)
    BY <1>0, <1>7 DEF Piece, LockInv, InTurn, PC
  <1>8. CASE ModelFails(r)
    BY <1>0, <1>8 DEF ModelFails, Conclude, Goto, LockInv, InTurn, PC
  <1>9. CASE FinalAnswer(r)
    BY <1>0, <1>9 DEF FinalAnswer, Conclude, Goto, LockInv, InTurn, PC
  <1>10. CASE AskForTools(r)
    BY <1>0, <1>10 DEF AskForTools, Goto, LockInv, InTurn, PC
  <1>11. CASE RunTool(r)
    BY <1>0, <1>11 DEF RunTool, Goto, LockInv, InTurn, PC
  <1>12. CASE OutOfSteps(r)
    BY <1>0, <1>12 DEF OutOfSteps, Conclude, Goto, LockInv, InTurn, PC
  <1>13. CASE LeaveTurn(r)
    BY <1>0, <1>13 DEF LeaveTurn, SpecialistsLeft, Goto, LockInv, InTurn, PC
  <1>14. CASE ProducerEnds(r)
    BY <1>0, <1>14 DEF ProducerEnds, Goto, LockInv, InTurn, PC
  <1>15. CASE PlainReturns(r)
    BY <1>0, <1>15 DEF PlainReturns, Goto, LockInv, InTurn, PC
  <1>16. CASE Take(r)
    BY <1>0, <1>16 DEF Take, LockInv, InTurn, PC
  <1>17. CASE Join(r)
    BY <1>0, <1>17 DEF Join, LockInv, InTurn, PC
  <1>. QED
    BY <1>1, <1>2, <1>3, <1>4, <1>5, <1>6, <1>7, <1>8, <1>9, <1>10, <1>11, <1>12, <1>13, <1>14, <1>15, <1>16, <1>17
    DEF Acts, RunTurn, Work, ReadStream
\* The types, part by part.
LEMMA ScalarsStep ==
    ASSUME ScalarsOK, PlaceInv, NEW r \in Request, Acts(r)
    PROVE  ScalarsOK'
  <1> USE Counts
  <1>1. CASE Submit(r)
    BY <1>1 DEF Submit, Goto, ScalarsOK, PlaceInv, turnVars, callerVars,
       PC, Callers, States, Answers, None
  <1>2. CASE TakeTurn(r)
    BY <1>2 DEF TakeTurn, Goto, ScalarsOK, PlaceInv, turnVars, callerVars,
       PC, Callers, States, Answers, None
  <1>3. CASE Begin(r)
    BY <1>3 DEF Begin, Goto, ScalarsOK, PlaceInv, turnVars, callerVars,
       PC, Callers, States, Answers, None
  <1>4. CASE DirectReply(r)
    BY <1>4 DEF DirectReply, Conclude, Goto, Emit, Silent, ScalarsOK, PlaceInv, turnVars, callerVars,
       PC, Callers, States, Answers, None
  <1>5. CASE Prepare(r)
    BY <1>5 DEF Prepare, Goto, Silent, ScalarsOK, PlaceInv, turnVars, callerVars,
       PC, Callers, States, Answers, None
  <1>6. CASE AskModel(r)
    <2>1. step + 1 \in 0 .. MaxSteps
      BY <1>6 DEF AskModel, StepsLeft, ScalarsOK
    <2>. QED
      BY <1>6, <2>1 DEF AskModel, Goto, Silent, ScalarsOK, callerVars, PC, States
  <1>7. CASE Piece(r)
    BY <1>7 DEF Piece, Emit, ScalarsOK, PlaceInv, turnVars, callerVars,
       PC, Callers, States, Answers, None
  <1>8. CASE ModelFails(r)
    BY <1>8 DEF ModelFails, Conclude, Goto, Emit, Silent, Grounded, ScalarsOK, PlaceInv, turnVars, callerVars,
       PC, Callers, States, Answers, None
  <1>9. CASE FinalAnswer(r)
    BY <1>9 DEF FinalAnswer, Conclude, Goto, Emit, Silent, Grounded, ScalarsOK, PlaceInv, turnVars, callerVars,
       PC, Callers, States, Answers, None
  <1>10. CASE AskForTools(r)
    BY <1>10 DEF AskForTools, Goto, Silent, ScalarsOK, PlaceInv, turnVars, callerVars,
       PC, Callers, States, Answers, None
  <1>11. CASE RunTool(r)
    BY <1>11 DEF RunTool, Goto, Silent, ScalarsOK, PlaceInv, turnVars, callerVars,
       PC, Callers, States, Answers, None
  <1>12. CASE OutOfSteps(r)
    BY <1>12 DEF OutOfSteps, Conclude, Goto, Emit, Silent, ScalarsOK, PlaceInv, turnVars, callerVars,
       PC, Callers, States, Answers, None
  <1>13. CASE LeaveTurn(r)
    BY <1>13 DEF LeaveTurn, Goto, SpecialistsLeft, ScalarsOK, PlaceInv, turnVars, callerVars,
       PC, Callers, States, Answers, None
  <1>14. CASE ProducerEnds(r)
    BY <1>14 DEF ProducerEnds, Goto, ScalarsOK, PlaceInv, turnVars, callerVars,
       PC, Callers, States, Answers, None
  <1>15. CASE PlainReturns(r)
    BY <1>15 DEF PlainReturns, Goto, ScalarsOK, PlaceInv, turnVars, callerVars,
       PC, Callers, States, Answers, None
  <1>16. CASE Take(r)
    BY <1>16 DEF Take, ScalarsOK, PlaceInv, turnVars, callerVars,
       PC, Callers, States, Answers, None
  <1>17. CASE Join(r)
    BY <1>17 DEF Join, ScalarsOK, PlaceInv, turnVars, callerVars,
       PC, Callers, States, Answers, None
  <1>. QED
    BY <1>1, <1>2, <1>3, <1>4, <1>5, <1>6, <1>7, <1>8, <1>9, <1>10, <1>11, <1>12, <1>13, <1>14, <1>15, <1>16, <1>17
    DEF Acts, RunTurn, Work, ReadStream

LEMMA PlaceStep ==
    ASSUME ScalarsOK, PlaceInv, LockInv, NEW r \in Request, Acts(r)
    PROVE  PlaceInv'
  <1> USE Counts
  <1>1. CASE Submit(r)
    BY <1>1 DEF Submit, Goto, ScalarsOK, PlaceInv, LockInv, InTurn,
       turnVars, callerVars, PC, Callers
  <1>2. CASE TakeTurn(r)
    BY <1>2 DEF TakeTurn, Goto, ScalarsOK, PlaceInv, LockInv, InTurn,
       turnVars, callerVars, PC, Callers
  <1>3. CASE Begin(r)
    BY <1>3 DEF Begin, Goto, ScalarsOK, PlaceInv, LockInv, InTurn,
       turnVars, callerVars, PC, Callers
  <1>4. CASE DirectReply(r)
    BY <1>4 DEF DirectReply, Conclude, Goto, ScalarsOK, PlaceInv, LockInv, InTurn,
       turnVars, callerVars, PC, Callers
  <1>5. CASE Prepare(r)
    BY <1>5 DEF Prepare, Goto, ScalarsOK, PlaceInv, LockInv, InTurn,
       turnVars, callerVars, PC, Callers
  <1>6. CASE AskModel(r)
    BY <1>6 DEF AskModel, Goto, ScalarsOK, PlaceInv, LockInv, InTurn,
       turnVars, callerVars, PC, Callers
  <1>7. CASE Piece(r)
    BY <1>7 DEF Piece, ScalarsOK, PlaceInv, LockInv, InTurn,
       turnVars, callerVars, PC, Callers
  <1>8. CASE ModelFails(r)
    BY <1>8 DEF ModelFails, Conclude, Goto, ScalarsOK, PlaceInv, LockInv, InTurn,
       turnVars, callerVars, PC, Callers
  <1>9. CASE FinalAnswer(r)
    BY <1>9 DEF FinalAnswer, Conclude, Goto, ScalarsOK, PlaceInv, LockInv, InTurn,
       turnVars, callerVars, PC, Callers
  <1>10. CASE AskForTools(r)
    BY <1>10 DEF AskForTools, Goto, ScalarsOK, PlaceInv, LockInv, InTurn,
       turnVars, callerVars, PC, Callers
  <1>11. CASE RunTool(r)
    BY <1>11 DEF RunTool, Goto, ScalarsOK, PlaceInv, LockInv, InTurn,
       turnVars, callerVars, PC, Callers
  <1>12. CASE OutOfSteps(r)
    BY <1>12 DEF OutOfSteps, Conclude, Goto, ScalarsOK, PlaceInv, LockInv, InTurn,
       turnVars, callerVars, PC, Callers
  <1>13. CASE LeaveTurn(r)
    BY <1>13 DEF LeaveTurn, Goto, ScalarsOK, PlaceInv, LockInv, InTurn,
       turnVars, callerVars, PC, Callers
  <1>14. CASE ProducerEnds(r)
    BY <1>14 DEF ProducerEnds, Goto, ScalarsOK, PlaceInv, LockInv, InTurn,
       turnVars, callerVars, PC, Callers
  <1>15. CASE PlainReturns(r)
    BY <1>15 DEF PlainReturns, Goto, ScalarsOK, PlaceInv, LockInv, InTurn,
       turnVars, callerVars, PC, Callers
  <1>16. CASE Take(r)
    BY <1>16 DEF Take, ScalarsOK, PlaceInv, LockInv, InTurn,
       turnVars, callerVars, PC, Callers
  <1>17. CASE Join(r)
    BY <1>17 DEF Join, ScalarsOK, PlaceInv, LockInv, InTurn,
       turnVars, callerVars, PC, Callers
  <1>. QED
    BY <1>1, <1>2, <1>3, <1>4, <1>5, <1>6, <1>7, <1>8, <1>9, <1>10, <1>11, <1>12, <1>13, <1>14, <1>15, <1>16, <1>17
    DEF Acts, RunTurn, Work, ReadStream

LEMMA OutcomesTypeStep ==
    ASSUME OutcomesOK, NEW r \in Request, Acts(r)
    PROVE  OutcomesOK'
  <1>1. CASE Submit(r)
    BY <1>1 DEF Submit, OutcomesOK, turnVars
  <1>2. CASE TakeTurn(r)
    BY <1>2 DEF TakeTurn, OutcomesOK, turnVars
  <1>3. CASE Begin(r)
    BY <1>3 DEF Begin, OutcomesOK, turnVars
  <1>4. CASE DirectReply(r)
    BY <1>4 DEF DirectReply, OutcomesOK, turnVars
  <1>5. CASE Prepare(r)
    <2>1. \/ toolOutcome' = NoOutcome /\ toolResults' = <<>>
          \/ UNCHANGED <<toolOutcome, toolResults>>
      BY <1>5 DEF Prepare, turnVars
    <2>2. CASE toolOutcome' = NoOutcome /\ toolResults' = <<>>
      <3>1. DOMAIN toolOutcome' = {} /\ toolOutcome' \in [{} -> BOOLEAN]
        BY <2>2 DEF NoOutcome
      <3>. QED
        BY <2>2, <3>1 DEF OutcomesOK
    <2>3. CASE UNCHANGED <<toolOutcome, toolResults>>
      BY <2>3 DEF OutcomesOK
    <2>. QED
      BY <2>1, <2>2, <2>3
  <1>6. CASE AskModel(r)
    BY <1>6 DEF AskModel, OutcomesOK, turnVars
  <1>7. CASE Piece(r)
    BY <1>7 DEF Piece, OutcomesOK, turnVars
  <1>8. CASE ModelFails(r)
    BY <1>8 DEF ModelFails, OutcomesOK, turnVars
  <1>9. CASE FinalAnswer(r)
    BY <1>9 DEF FinalAnswer, OutcomesOK, turnVars
  <1>10. CASE AskForTools(r)
    BY <1>10 DEF AskForTools, OutcomesOK, turnVars
  <1>11. CASE RunTool(r)
    BY <1>11 DEF RunTool, Learned, OutcomesOK, turnVars
  <1>12. CASE OutOfSteps(r)
    BY <1>12 DEF OutOfSteps, OutcomesOK, turnVars
  <1>13. CASE LeaveTurn(r)
    BY <1>13 DEF LeaveTurn, NoOutcome, OutcomesOK, turnVars
  <1>14. CASE ProducerEnds(r)
    BY <1>14 DEF ProducerEnds, OutcomesOK, turnVars
  <1>15. CASE PlainReturns(r)
    BY <1>15 DEF PlainReturns, OutcomesOK, turnVars
  <1>16. CASE Take(r)
    BY <1>16 DEF Take, OutcomesOK, turnVars
  <1>17. CASE Join(r)
    BY <1>17 DEF Join, OutcomesOK, turnVars
  <1>. QED
    BY <1>1, <1>2, <1>3, <1>4, <1>5, <1>6, <1>7, <1>8, <1>9, <1>10, <1>11, <1>12, <1>13, <1>14, <1>15, <1>16, <1>17
    DEF Acts, RunTurn, Work, ReadStream

LEMMA QueuesStep ==
    ASSUME ScalarsOK, QueuesOK, NEW r \in Request, Acts(r)
    PROVE  QueuesOK'
  <1>1. CASE Submit(r)
    BY <1>1 DEF Submit, QueuesOK, callerVars
  <1>2. CASE TakeTurn(r)
    BY <1>2 DEF TakeTurn, QueuesOK, callerVars
  <1>3. CASE Begin(r)
    BY <1>3 DEF Begin, QueuesOK, callerVars
  <1>4. CASE DirectReply(r)
    BY <1>4 DEF DirectReply, Silent, QueuesOK, callerVars
  <1>5. CASE Prepare(r)
    BY <1>5 DEF Prepare, Silent, QueuesOK, callerVars
  <1>6. CASE AskModel(r)
    BY <1>6 DEF AskModel, Silent, QueuesOK, callerVars
  <1>7. CASE Piece(r)
    BY <1>7, Texts, Emitted DEF Piece, callerVars
  <1>8. CASE ModelFails(r)
    BY <1>8, Texts, Emitted DEF ModelFails, callerVars
  <1>9. CASE FinalAnswer(r)
    <2>1. Silent \/ Emit(r, Grounded)
      BY <1>9 DEF FinalAnswer
    <2>2. shown' = shown
      BY <1>9 DEF FinalAnswer, callerVars
    <2>. QED
      BY <2>1, <2>2, Texts, Emitted DEF Silent, QueuesOK
  <1>10. CASE AskForTools(r)
    BY <1>10 DEF AskForTools, Silent, QueuesOK, callerVars
  <1>11. CASE RunTool(r)
    BY <1>11 DEF RunTool, Silent, QueuesOK, callerVars
  <1>12. CASE OutOfSteps(r)
    BY <1>12, Texts, Emitted DEF OutOfSteps, callerVars
  <1>13. CASE LeaveTurn(r)
    BY <1>13 DEF LeaveTurn, QueuesOK, callerVars
  <1>14. CASE ProducerEnds(r)
    <2>1. LastPut(r) \in Seq(Item)
      BY Texts DEF LastPut, ScalarsOK
    <2>2. chunks[r] \o LastPut(r) \in Seq(Item)
      BY <2>1 DEF QueuesOK
    <2>. QED
      BY <1>14, <2>2 DEF ProducerEnds, QueuesOK, callerVars
  <1>15. CASE PlainReturns(r)
    <2>1. answer[r] # None => <<answer[r]>> \in Seq(Text)
      BY Texts DEF ScalarsOK
    <2>. QED
      BY <1>15, <2>1 DEF PlainReturns, QueuesOK
  <1>16. CASE Take(r)
    <2>1. chunks[r] \in Seq(Item) /\ chunks[r] # <<>> /\ shown[r] \in Seq(Text)
      BY <1>16 DEF Take, QueuesOK
    <2>2. Tail(chunks[r]) \in Seq(Item) /\ Head(chunks[r]) \in Item
      BY <2>1
    <2>3. Head(chunks[r]) # Done => Append(shown[r], Head(chunks[r])) \in Seq(Text)
      BY <2>1, <2>2, Appended DEF Item, Text
    <2>. QED
      BY <1>16, <2>2, <2>3 DEF Take, QueuesOK
  <1>17. CASE Join(r)
    BY <1>17 DEF Join, QueuesOK, callerVars
  <1>. QED
    BY <1>1, <1>2, <1>3, <1>4, <1>5, <1>6, <1>7, <1>8, <1>9, <1>10, <1>11, <1>12, <1>13, <1>14, <1>15, <1>16, <1>17
    DEF Acts, RunTurn, Work, ReadStream

LEMMA HistoriesStep ==
    ASSUME HistoriesOK, NEW r \in Request, Acts(r)
    PROVE  HistoriesOK'
  <1>1. CASE Submit(r)
    BY <1>1 DEF Submit, HistoriesOK
  <1>2. CASE TakeTurn(r)
    BY <1>2 DEF TakeTurn, HistoriesOK
  <1>3. CASE Begin(r)
    BY <1>3, Recorded, Appended DEF Begin, HistoriesOK
  <1>4. CASE DirectReply(r)
    <2>1. WithUser(r) \in Seq(Message)
      BY Recorded, Appended DEF WithUser, HistoriesOK
    <2>2. Append(WithUser(r), Says("assistant", r)) \in Seq(Message)
          /\ Append(durable, Says("assistant", r)) \in Seq(Kept)
      BY <2>1, Recorded, Appended DEF HistoriesOK
    <2>. QED
      BY <1>4, <2>2 DEF DirectReply, Conclude, HistoriesOK
  <1>5. CASE Prepare(r)
    BY <1>5, Recorded, Appended DEF Prepare, HistoriesOK
  <1>6. CASE AskModel(r)
    BY <1>6 DEF AskModel, HistoriesOK
  <1>7. CASE Piece(r)
    BY <1>7 DEF Piece, HistoriesOK
  <1>8. CASE ModelFails(r)
    <2>1. Append(history, Says("assistant", r)) \in Seq(Message)
          /\ Append(durable, Says("assistant", r)) \in Seq(Kept)
      BY Recorded, Appended DEF HistoriesOK
    <2>. QED
      BY <1>8, <2>1 DEF ModelFails, Conclude, HistoriesOK
  <1>9. CASE FinalAnswer(r)
    <2>1. Append(history, Says("assistant", r)) \in Seq(Message)
          /\ Append(durable, Says("assistant", r)) \in Seq(Kept)
      BY Recorded, Appended DEF HistoriesOK
    <2>. QED
      BY <1>9, <2>1 DEF FinalAnswer, Conclude, HistoriesOK
  <1>10. CASE AskForTools(r)
    BY <1>10, Recorded, Appended DEF AskForTools, HistoriesOK
  <1>11. CASE RunTool(r)
    BY <1>11, Recorded, Appended DEF RunTool, HistoriesOK
  <1>12. CASE OutOfSteps(r)
    <2>1. Append(history, Says("assistant", r)) \in Seq(Message)
          /\ Append(durable, Says("assistant", r)) \in Seq(Kept)
      BY Recorded, Appended DEF HistoriesOK
    <2>. QED
      BY <1>12, <2>1 DEF OutOfSteps, Conclude, HistoriesOK
  <1>13. CASE LeaveTurn(r)
    BY <1>13 DEF LeaveTurn, HistoriesOK
  <1>14. CASE ProducerEnds(r)
    BY <1>14 DEF ProducerEnds, HistoriesOK
  <1>15. CASE PlainReturns(r)
    BY <1>15 DEF PlainReturns, HistoriesOK
  <1>16. CASE Take(r)
    BY <1>16 DEF Take, HistoriesOK
  <1>17. CASE Join(r)
    BY <1>17 DEF Join, HistoriesOK
  <1>. QED
    BY <1>1, <1>2, <1>3, <1>4, <1>5, <1>6, <1>7, <1>8, <1>9, <1>10, <1>11, <1>12, <1>13, <1>14, <1>15, <1>16, <1>17
    DEF Acts, RunTurn, Work, ReadStream

LEMMA TypeStep ==
    ASSUME TypeOK, PlaceInv, LockInv, NEW r \in Request, Acts(r)
    PROVE  TypeOK' /\ PlaceInv'
  <1>1. ScalarsOK' /\ OutcomesOK' /\ QueuesOK' /\ HistoriesOK' /\ PlaceInv'
    BY TypeParts, ScalarsStep, PlaceStep, OutcomesTypeStep, QueuesStep, HistoriesStep
  <1>. QED
    BY <1>1 DEF TypeOK, ScalarsOK, OutcomesOK, QueuesOK, HistoriesOK, Text, Item, Message, Kept

-----------------------------------------------------------------------------
\* A step of r leaves the turns and the callers of the others alone.
LEMMA OthersStay ==
    ASSUME TypeOK, NEW r \in Request, Acts(r), NEW q \in Request, q # r
    PROVE  /\ pc'[q] = pc[q] /\ caller'[q] = caller[q] /\ answer'[q] = answer[q]
           /\ chunks'[q] = chunks[q] /\ shown'[q] = shown[q] /\ emitted'[q] = emitted[q]
           /\ streamed' => streamed \/ pc[r] = "streaming"
  <1> USE DEF TypeOK, callerVars, turnVars
  <1>1. CASE Submit(r)
    BY <1>1 DEF Submit, Goto
  <1>2. CASE TakeTurn(r)
    BY <1>2 DEF TakeTurn, Goto
  <1>3. CASE Begin(r)
    BY <1>3 DEF Begin, Goto
  <1>4. CASE DirectReply(r)
    BY <1>4 DEF DirectReply, Conclude, Goto, Silent
  <1>5. CASE Prepare(r)
    BY <1>5 DEF Prepare, Goto, Silent
  <1>6. CASE AskModel(r)
    BY <1>6 DEF AskModel, Goto, Silent
  <1>7. CASE Piece(r)
    BY <1>7 DEF Piece, Emit
  <1>8. CASE ModelFails(r)
    BY <1>8 DEF ModelFails, Conclude, Goto, Emit
  <1>9. CASE FinalAnswer(r)
    BY <1>9 DEF FinalAnswer, Conclude, Goto, Emit, Silent
  <1>10. CASE AskForTools(r)
    BY <1>10 DEF AskForTools, Goto, Silent
  <1>11. CASE RunTool(r)
    BY <1>11 DEF RunTool, Goto, Silent
  <1>12. CASE OutOfSteps(r)
    BY <1>12 DEF OutOfSteps, Conclude, Goto, Emit
  <1>13. CASE LeaveTurn(r)
    BY <1>13 DEF LeaveTurn, Goto
  <1>14. CASE ProducerEnds(r)
    BY <1>14 DEF ProducerEnds, Goto
  <1>15. CASE PlainReturns(r)
    BY <1>15 DEF PlainReturns, Goto
  <1>16. CASE Take(r)
    BY <1>16 DEF Take
  <1>17. CASE Join(r)
    BY <1>17 DEF Join
  <1>. QED
    BY <1>1, <1>2, <1>3, <1>4, <1>5, <1>6, <1>7, <1>8, <1>9, <1>10, <1>11, <1>12, <1>13, <1>14, <1>15, <1>16, <1>17
    DEF Acts, RunTurn, Work, ReadStream

-----------------------------------------------------------------------------
\* The outcomes.
LEMMA OutcomesKeep ==
    ASSUME OutcomeInv, UNCHANGED <<toolOutcome, toolResults>>,
           \A q \in Request : pc'[q] = "answered" /\ answer'[q] \in {"rendered", "notice"} =>
               answer'[q] = Grounded \/ (pc[q] = "answered" /\ answer[q] = answer'[q])
    PROVE  OutcomeInv'
  BY DEF OutcomeInv, LastCall, Grounded, Unresolved

LEMMA ToolKeeps ==
    ASSUME TypeOK, LockInv, OutcomeInv, NEW r \in Request, RunTool(r)
    PROVE  OutcomeInv'
  <1>1. PICK t \in Tool, ok \in BOOLEAN :
            toolOutcome' = Learned(t, ok) /\ toolResults' = Append(toolResults, <<t, ok>>)
    BY DEF RunTool
  <1>0. PICK n : n = Len(toolResults)
    OBVIOUS
  <1>2. /\ toolResults \in Seq(Tool \X BOOLEAN) /\ n \in Nat
        /\ toolOutcome \in [DOMAIN toolOutcome -> BOOLEAN]
    BY <1>0 DEF TypeOK
  <1>3. /\ DOMAIN toolResults = 1 .. n /\ DOMAIN toolResults' = 1 .. n + 1
        /\ \A i \in 1 .. n : toolResults'[i] = toolResults[i]
        /\ toolResults'[n + 1] = <<t, ok>> /\ Len(toolResults) = n /\ Len(toolResults') = n + 1
    BY <1>0, <1>1, <1>2
  <1>4. /\ DOMAIN toolOutcome' = DOMAIN toolOutcome \cup {t}
        /\ \A u \in DOMAIN toolOutcome' : toolOutcome'[u] = IF u = t THEN ok ELSE toolOutcome[u]
    BY <1>1 DEF Learned
  <1>5. ASSUME NEW i \in 1 .. n PROVE LastCall(i)' <=> LastCall(i) /\ toolResults[i][1] # t
    <2>1. LastCall(i) <=> \A j \in i + 1 .. n : toolResults[j][1] # toolResults[i][1]
      BY <1>3 DEF LastCall
    <2>2. LastCall(i)' <=> \A j \in i + 1 .. n + 1 : toolResults'[j][1] # toolResults'[i][1]
      BY <1>3 DEF LastCall
    <2>3. /\ toolResults'[i] = toolResults[i] /\ toolResults'[n + 1][1] = t
          /\ \A j \in i + 1 .. n : toolResults'[j] = toolResults[j]
      BY <1>2, <1>3
    <2>4. n + 1 \in i + 1 .. n + 1 /\ \A j \in i + 1 .. n + 1 : j = n + 1 \/ j \in i + 1 .. n
      BY <1>2
    <2>5. \A j \in i + 1 .. n : j \in i + 1 .. n + 1
      BY <1>2
    <2>. QED
      BY <2>1, <2>2, <2>3, <2>4, <2>5
  <1>6. LastCall(n + 1)'
    BY <1>2, <1>3 DEF LastCall
  <1>7. ASSUME NEW i \in DOMAIN toolResults'
        PROVE  /\ toolResults'[i][1] \in DOMAIN toolOutcome'
               /\ LastCall(i)' => toolOutcome'[toolResults'[i][1]] = toolResults'[i][2]
    <2>1. CASE i = n + 1
      BY <1>3, <1>4, <2>1
    <2>2. CASE i \in 1 .. n
      BY <1>3, <1>4, <1>5, <2>2 DEF OutcomeInv
    <2>. QED
      BY <1>2, <1>3, <2>1, <2>2
  <1>8. ASSUME NEW u \in DOMAIN toolOutcome'
        PROVE  \E i \in DOMAIN toolResults' : LastCall(i)' /\ toolResults'[i][1] = u
    <2>1. CASE u = t
      <3>1. n + 1 \in DOMAIN toolResults' /\ toolResults'[n + 1][1] = u
        BY <1>2, <1>3, <2>1
      <3>. QED
        BY <1>6, <3>1
    <2>2. CASE u # t
      <3>1. PICK i \in 1 .. n : LastCall(i) /\ toolResults[i][1] = u
        BY <1>3, <1>4, <2>2 DEF OutcomeInv
      <3>. QED
        BY <1>2, <1>3, <1>5, <2>2, <3>1
    <2>. QED
      BY <2>1, <2>2
  <1>9. ASSUME NEW p \in Request PROVE pc'[p] # "answered"
    BY DEF RunTool, Goto, LockInv, InTurn, TypeOK
  <1>. QED
    BY <1>7, <1>8, <1>9 DEF OutcomeInv

LEMMA OutcomeStep ==
    ASSUME TypeOK, LockInv, OutcomeInv, NEW r \in Request, Acts(r)
    PROVE  OutcomeInv'
  <1>0. ASSUME NEW p \in Request, p # r PROVE pc'[p] = pc[p] /\ answer'[p] = answer[p]
    BY <1>0, OthersStay
  <1> USE DEF TypeOK, turnVars, Goto
  <1>1. CASE Submit(r)
    BY <1>0, <1>1, OutcomesKeep DEF Submit
  <1>2. CASE TakeTurn(r)
    BY <1>0, <1>2, OutcomesKeep DEF TakeTurn
  <1>3. CASE Begin(r)
    BY <1>0, <1>3, OutcomesKeep DEF Begin
  <1>4. CASE DirectReply(r)
    BY <1>0, <1>4, OutcomesKeep DEF DirectReply, Conclude
  <1>5. CASE Prepare(r)
    <2>1. ASSUME NEW p \in Request PROVE pc'[p] # "answered"
      BY <1>5 DEF Prepare, LockInv, InTurn
    <2>2. CASE toolOutcome' = NoOutcome /\ toolResults' = <<>>
      BY <2>1, <2>2 DEF OutcomeInv, NoOutcome
    <2>3. CASE UNCHANGED <<toolOutcome, toolResults>>
      BY <2>1, <2>3, OutcomesKeep
    <2>. QED
      BY <1>5, <2>2, <2>3 DEF Prepare
  <1>6. CASE AskModel(r)
    BY <1>0, <1>6, OutcomesKeep DEF AskModel
  <1>7. CASE Piece(r)
    BY <1>0, <1>7, OutcomesKeep DEF Piece
  <1>8. CASE ModelFails(r)
    BY <1>0, <1>8, OutcomesKeep DEF ModelFails, Conclude
  <1>9. CASE FinalAnswer(r)
    <2>1. UNCHANGED <<toolOutcome, toolResults>>
      BY <1>9 DEF FinalAnswer
    <2>2. pc'[r] = "answered" => answer'[r] = Grounded
      BY <1>9 DEF FinalAnswer, Conclude
    <2>3. ASSUME NEW p \in Request, pc'[p] = "answered", answer'[p] \in {"rendered", "notice"}
          PROVE  answer'[p] = Grounded \/ (pc[p] = "answered" /\ answer[p] = answer'[p])
      <3>1. CASE p = r
        BY <2>2, <2>3, <3>1
      <3>2. CASE p # r
        BY <1>0, <2>3, <3>2
      <3>. QED
        BY <3>1, <3>2
    <2>. QED
      BY <2>1, <2>3, OutcomesKeep
  <1>10. CASE AskForTools(r)
    BY <1>0, <1>10, OutcomesKeep DEF AskForTools
  <1>11. CASE RunTool(r)
    BY <1>11, ToolKeeps
  <1>12. CASE OutOfSteps(r)
    BY <1>0, <1>12, OutcomesKeep DEF OutOfSteps, Conclude
  <1>13. CASE LeaveTurn(r)
    <2>1. toolOutcome' = NoOutcome /\ toolResults' = <<>>
      BY <1>13 DEF LeaveTurn
    <2>2. ASSUME NEW p \in Request PROVE pc'[p] # "answered"
      BY <1>13 DEF LeaveTurn, LockInv, InTurn
    <2>. QED
      BY <2>1, <2>2 DEF OutcomeInv, NoOutcome
  <1>14. CASE ProducerEnds(r)
    BY <1>0, <1>14, OutcomesKeep DEF ProducerEnds
  <1>15. CASE PlainReturns(r)
    BY <1>0, <1>15, OutcomesKeep DEF PlainReturns
  <1>16. CASE Take(r)
    BY <1>0, <1>16, OutcomesKeep DEF Take
  <1>17. CASE Join(r)
    BY <1>0, <1>17, OutcomesKeep DEF Join
  <1>. QED
    BY <1>1, <1>2, <1>3, <1>4, <1>5, <1>6, <1>7, <1>8, <1>9, <1>10, <1>11, <1>12, <1>13, <1>14, <1>15, <1>16, <1>17
    DEF Acts, RunTurn, Work, ReadStream
-----------------------------------------------------------------------------
\* The working history.

\* TurnsDoNotInterleave, of any history.
Whole(h) ==
    /\ \A i, k \in DOMAIN h :
        h[i][2] = h[k][2] => \A j \in i .. k : h[j][2] = h[k][2]
    /\ \A j \in DOMAIN h :
        h[j][1] = "assistant" =>
            /\ \E i \in 1 .. j - 1 : h[i] = Says("user", h[j][2])
            /\ \A i \in 1 .. j - 1 : h[i] # h[j]
Without(h, r) == \A i \in DOMAIN h : h[i][2] # r
EndsWith(h, r) == h # <<>> /\ h[Len(h)][2] = r
Asked(h, r) == \E i \in DOMAIN h : h[i] = Says("user", r)
Unanswered(h, r) == \A i \in DOMAIN h : h[i] # Says("assistant", r)

\* A message of the turn that the history ends with, or of a new one, keeps
\* the turns in one piece.
LEMMA AppendWhole ==
    ASSUME NEW h \in Seq(Message), Whole(h), NEW r \in Request, NEW role,
           Says(role, r) \in Message, Without(h, r) \/ EndsWith(h, r),
           role = "assistant" => Asked(h, r) /\ Unanswered(h, r)
    PROVE  /\ Append(h, Says(role, r)) \in Seq(Message)
           /\ Whole(Append(h, Says(role, r)))
           /\ EndsWith(Append(h, Says(role, r)), r)
           /\ \A q \in Request : q # r /\ Without(h, q) => Without(Append(h, Says(role, r)), q)
           /\ role = "user" \/ Asked(h, r) => Asked(Append(h, Says(role, r)), r)
           /\ role # "assistant" /\ (Without(h, r) \/ Unanswered(h, r)) =>
                 Unanswered(Append(h, Says(role, r)), r)
           /\ Append(h, Says(role, r))[Len(Append(h, Says(role, r)))][1] = role
  <1> DEFINE n == Len(h)
  <1>1. PICK g : g = Append(h, Says(role, r))
    OBVIOUS
  <1>2. /\ n \in Nat /\ DOMAIN h = 1 .. n /\ DOMAIN g = 1 .. n + 1 /\ Len(g) = n + 1
        /\ g \in Seq(Message) /\ \A i \in 1 .. n : g[i] = h[i]
    BY <1>1, Appended
  <1>3. g[n + 1] = Says(role, r) /\ g[n + 1][1] = role /\ g[n + 1][2] = r
    BY <1>1, <1>2 DEF Says
  <1>4. ASSUME NEW i \in DOMAIN g, NEW k \in DOMAIN g, g[i][2] = g[k][2], NEW j \in i .. k
        PROVE  g[j][2] = g[k][2]
    <2>1. i \in 1 .. n + 1 /\ k \in 1 .. n + 1 /\ j \in 1 .. n + 1 /\ i <= j /\ j <= k
      BY <1>2, <1>4
    <2>2. CASE k \in 1 .. n
      <3>1. /\ i \in 1 .. n /\ j \in 1 .. n
            /\ g[i] = h[i] /\ g[j] = h[j] /\ g[k] = h[k]
        BY <1>2, <2>1, <2>2
      <3>. QED
        BY <1>2, <1>4, <3>1, <2>2 DEF Whole
    <2>3. CASE k = n + 1 /\ j = n + 1
      BY <2>3
    <2>4. CASE k = n + 1 /\ j \in 1 .. n
      <3>1. i \in 1 .. n /\ n \in 1 .. n /\ g[i] = h[i] /\ g[j] = h[j]
        BY <1>2, <2>1, <2>4
      <3>2. h[i][2] = r /\ h[n][2] = r /\ g[k][2] = r
        BY <1>2, <1>3, <1>4, <2>4, <3>1 DEF Without, EndsWith
      <3>3. j \in i .. n
        BY <1>2, <2>1, <2>4
      <3>4. h[j][2] = h[n][2]
        BY <1>2, <3>1, <3>2, <3>3 DEF Whole
      <3>. QED
        BY <3>1, <3>2, <3>4
    <2>. QED
      BY <1>2, <2>1, <2>2, <2>3, <2>4
  <1>5. ASSUME NEW j \in DOMAIN g, g[j][1] = "assistant"
        PROVE  /\ \E i \in 1 .. j - 1 : g[i] = Says("user", g[j][2])
               /\ \A i \in 1 .. j - 1 : g[i] # g[j]
    <2>1. CASE j = n + 1
      <3>1. role = "assistant" /\ Asked(h, r) /\ Unanswered(h, r)
        BY <1>3, <1>5, <2>1
      <3>2. \E i \in 1 .. n : g[i] = Says("user", r)
        BY <1>2, <3>1 DEF Asked
      <3>3. \A i \in 1 .. n : g[i] # Says("assistant", r)
        BY <1>2, <3>1 DEF Unanswered
      <3>. QED
        BY <1>2, <1>3, <2>1, <3>1, <3>2, <3>3
    <2>2. CASE j \in 1 .. n
      <3>1. h[j][1] = "assistant" /\ \A i \in 1 .. j : g[i] = h[i]
        BY <1>2, <1>5, <2>2
      <3>2. /\ \E i \in 1 .. j - 1 : h[i] = Says("user", h[j][2])
            /\ \A i \in 1 .. j - 1 : h[i] # h[j]
        BY <1>2, <2>2, <3>1 DEF Whole
      <3>. QED
        BY <1>2, <2>2, <3>1, <3>2
    <2>. QED
      BY <1>2, <2>1, <2>2
  <1>6. Whole(g)
    BY <1>4, <1>5 DEF Whole
  <1>7. EndsWith(g, r)
    BY <1>2, <1>3 DEF EndsWith
  <1>8. ASSUME NEW q \in Request, q # r, Without(h, q) PROVE Without(g, q)
    BY <1>2, <1>3, <1>8 DEF Without
  <1>9. ASSUME role = "user" \/ Asked(h, r) PROVE Asked(g, r)
    <2>1. CASE role = "user"
      BY <1>2, <1>3, <2>1 DEF Asked
    <2>2. CASE Asked(h, r)
      BY <1>2, <2>2 DEF Asked
    <2>. QED
      BY <1>9, <2>1, <2>2
  <1>10. ASSUME role # "assistant", Without(h, r) \/ Unanswered(h, r) PROVE Unanswered(g, r)
    <2>1. ASSUME NEW i \in 1 .. n PROVE h[i] # Says("assistant", r)
      <3>1. CASE Without(h, r)
        <4>1. h[i][2] # r /\ Says("assistant", r)[2] = r
          BY <1>2, <3>1 DEF Without, Says
        <4>. QED
          BY <4>1
      <3>2. CASE Unanswered(h, r)
        BY <1>2, <3>2 DEF Unanswered
      <3>. QED
        BY <1>10, <3>1, <3>2
    <2>2. Says(role, r) # Says("assistant", r)
      BY <1>10 DEF Says
    <2>. QED
      BY <1>2, <1>3, <2>1, <2>2 DEF Unanswered
  <1>. QED
    BY <1>1, <1>2, <1>3, <1>6, <1>7, <1>8, <1>9, <1>10

\* HistoryInv in these words.
LEMMA HistoryParts ==
    HistoryInv <=>
        /\ Whole(history)
        /\ \A r \in Request : Fresh(r) => Without(history, r)
        /\ \A r \in Request : Modelled(r) =>
              EndsWith(history, r) /\ Asked(history, r) /\ Unanswered(history, r)
        /\ (\A r \in Request : ~Modelled(r)) =>
              history = <<>> \/ history[Len(history)][1] # "user"
  BY DEF HistoryInv, TurnsDoNotInterleave, Whole, Without, EndsWith, Asked, Unanswered

\* A turn under the lock is the only one that the model works on.
LEMMA OthersAreOut ==
    ASSUME LockInv, NEW r \in Request, InTurn(r), NEW q \in Request, q # r
    PROVE  ~Modelled(q)
  BY Alone DEF InTurn, Modelled

\* A step that leaves the history alone and begins no model turn.
LEMMA HistoryKeeps ==
    ASSUME HistoryInv, history' = history,
           \A q \in Request : (Fresh(q)' => Fresh(q)) /\ (Modelled(q)' <=> Modelled(q))
    PROVE  HistoryInv'
  BY DEF HistoryInv, TurnsDoNotInterleave
\* A message of the turn that the model works on, or its first one.
LEMMA TurnGrows ==
    ASSUME TypeOK, LockInv, HistoryInv, NEW r \in Request, InTurn(r), NEW role,
           Says(role, r) \in Message, role # "assistant", role = "user" \/ Modelled(r),
           Fresh(r) \/ Modelled(r), Modelled(r)', history' = Append(history, Says(role, r)),
           \A q \in Request \ {r} : pc'[q] = pc[q]
    PROVE  HistoryInv'
  <1>1. history \in Seq(Message) /\ Whole(history)
    BY TypeParts, HistoryParts DEF HistoriesOK
  <1>2. Without(history, r) \/ (EndsWith(history, r) /\ Asked(history, r) /\ Unanswered(history, r))
    BY HistoryParts
  <1>3. role = "user" \/ Asked(history, r)
    BY HistoryParts
  <1>4. /\ Whole(history') /\ EndsWith(history', r) /\ Asked(history', r)
        /\ Unanswered(history', r)
        /\ \A q \in Request : q # r /\ Without(history, q) => Without(history', q)
    BY <1>1, <1>2, <1>3, AppendWhole
  <1>5. ASSUME NEW q \in Request, q # r
        PROVE  (Fresh(q)' => Without(history', q)) /\ ~Modelled(q)'
    <2>1. pc'[q] = pc[q] /\ ~Modelled(q)
      BY <1>5, OthersAreOut
    <2>2. Fresh(q) => Without(history, q)
      BY HistoryParts
    <2>. QED
      BY <1>4, <1>5, <2>1, <2>2 DEF Fresh, Modelled
  <1>6. ~Fresh(r)'
    BY DEF Fresh, Modelled
  <1>7. TurnsDoNotInterleave'
    BY <1>4, Zenon DEF TurnsDoNotInterleave, Whole
  <1>8. \A q \in Request : Fresh(q)' => Without(history', q)
    BY <1>5, <1>6
  <1>9. \A q \in Request : Modelled(q)' =>
          EndsWith(history', q) /\ Asked(history', q) /\ Unanswered(history', q)
    BY <1>4, <1>5
  <1>10. \E q \in Request : Modelled(q)'
    OBVIOUS
  <1>. QED
    BY <1>7, <1>8, <1>9, <1>10, Zenon DEF HistoryInv, Without, EndsWith, Asked, Unanswered

\* The answer of the turn, after the messages h.
LEMMA TurnConcludes ==
    ASSUME TypeOK, LockInv, HistoryInv, NEW r \in Request, InTurn(r), NEW h \in Seq(Message),
           Whole(h), EndsWith(h, r), Asked(h, r), Unanswered(h, r),
           \A q \in Request : q # r /\ Without(history, q) => Without(h, q),
           history' = Append(h, Says("assistant", r)),
           pc'[r] \in {"answered", "raised"}, \A q \in Request \ {r} : pc'[q] = pc[q]
    PROVE  HistoryInv'
  <1>1. /\ Whole(history') /\ history'[Len(history')][1] = "assistant"
        /\ \A q \in Request : q # r /\ Without(history, q) => Without(history', q)
    BY Recorded, AppendWhole
  <1>2. ASSUME NEW q \in Request
        PROVE  (Fresh(q)' => Without(history', q)) /\ ~Modelled(q)'
    <2>1. CASE q = r
      BY <2>1 DEF Fresh, Modelled
    <2>2. CASE q # r
      <3>1. pc'[q] = pc[q] /\ ~Modelled(q)
        BY <2>2, OthersAreOut
      <3>2. Fresh(q) => Without(history, q)
        BY HistoryParts
      <3>. QED
        BY <1>1, <2>2, <3>1, <3>2 DEF Fresh, Modelled
    <2>. QED
      BY <2>1, <2>2
  <1>. QED
    BY <1>1, <1>2
    DEF HistoryInv, TurnsDoNotInterleave, Whole, Without, EndsWith, Asked, Unanswered

\* _direct_reply finds no question at the end of the history, and adds its own.
LEMMA DirectHistory ==
    ASSUME TypeOK, LockInv, HistoryInv, NEW r \in Request, pc[r] = "routed"
    PROVE  /\ WithUser(r) = Append(history, Says("user", r))
           /\ WithUser(r) \in Seq(Message) /\ Whole(WithUser(r))
           /\ EndsWith(WithUser(r), r) /\ Asked(WithUser(r), r) /\ Unanswered(WithUser(r), r)
           /\ \A q \in Request : q # r /\ Without(history, q) => Without(WithUser(r), q)
  <1>1. \A q \in Request : ~Modelled(q)
    BY OthersAreOut DEF InTurn, Modelled
  <1>2. WithUser(r) = Append(history, Says("user", r))
    BY <1>1, HistoryParts DEF WithUser
  <1>3. history \in Seq(Message) /\ Whole(history) /\ Without(history, r)
    BY TypeParts, HistoryParts DEF HistoriesOK, Fresh
  <1>4. Says("user", r) \in Message
    BY Recorded
  <1>. QED
    BY <1>2, <1>3, <1>4, AppendWhole

LEMMA HistoryStep ==
    ASSUME TypeOK, PlaceInv, LockInv, HistoryInv, NEW r \in Request, Acts(r)
    PROVE  HistoryInv'
  <1>0. /\ \A p \in Request \ {r} : pc'[p] = pc[p]
        /\ pc \in [Request -> PC]
        /\ history \in Seq(Message) /\ Whole(history)
        /\ Modelled(r) =>
              EndsWith(history, r) /\ Asked(history, r) /\ Unanswered(history, r)
        /\ caller[r] = "new" => pc[r] = "new"
    BY OthersStay, HistoryParts, TypeParts DEF ScalarsOK, HistoriesOK, PlaceInv
  <1>1. CASE Submit(r)
    <2>1. history' = history /\ \A p \in Request :
            (Fresh(p)' => Fresh(p)) /\ (Modelled(p)' <=> Modelled(p))
      BY <1>0, <1>1 DEF Submit, Goto, Fresh, Modelled
    <2>. QED
      BY <2>1, HistoryKeeps
  <1>2. CASE TakeTurn(r)
    <2>1. history' = history /\ \A p \in Request :
            (Fresh(p)' => Fresh(p)) /\ (Modelled(p)' <=> Modelled(p))
      BY <1>0, <1>2 DEF TakeTurn, Goto, Fresh, Modelled
    <2>. QED
      BY <2>1, HistoryKeeps
  <1>3. CASE Begin(r)
    <2>1. history' = history /\ \A p \in Request :
            (Fresh(p)' => Fresh(p)) /\ (Modelled(p)' <=> Modelled(p))
      BY <1>0, <1>3 DEF Begin, Goto, Fresh, Modelled
    <2>. QED
      BY <2>1, HistoryKeeps
  <1>4. CASE DirectReply(r)
    <2>1. InTurn(r) /\ history' = Append(WithUser(r), Says("assistant", r))
          /\ pc'[r] \in {"answered", "raised"}
      BY <1>0, <1>4 DEF DirectReply, Conclude, Goto, InTurn
    <2>2. pc[r] = "routed"
      BY <1>4 DEF DirectReply
    <2>. QED
      BY <1>0, <2>1, <2>2, DirectHistory, TurnConcludes
  <1>5. CASE Prepare(r)
    <2>1. InTurn(r) /\ Fresh(r) /\ ~Modelled(r)
      BY <1>5 DEF Prepare, InTurn, Fresh, Modelled
    <2>2. CASE history' = Append(history, Says("user", r)) /\ Modelled(r)'
      BY <1>0, <2>1, <2>2, Recorded, TurnGrows
    <2>3. CASE history' = history /\ pc'[r] = "raised"
      BY <1>0, <2>1, <2>3, HistoryKeeps DEF Fresh, Modelled
    <2>. QED
      BY <1>0, <1>5, <2>2, <2>3 DEF Prepare, Goto, Modelled
  <1>6. CASE AskModel(r)
    <2>1. history' = history /\ \A p \in Request :
            (Fresh(p)' => Fresh(p)) /\ (Modelled(p)' <=> Modelled(p))
      BY <1>0, <1>6 DEF AskModel, Goto, Fresh, Modelled
    <2>. QED
      BY <2>1, HistoryKeeps
  <1>7. CASE Piece(r)
    <2>1. history' = history /\ \A p \in Request :
            (Fresh(p)' => Fresh(p)) /\ (Modelled(p)' <=> Modelled(p))
      BY <1>0, <1>7 DEF Piece, Fresh, Modelled
    <2>. QED
      BY <2>1, HistoryKeeps
  <1>8. CASE ModelFails(r)
    <2>1. InTurn(r) /\ Modelled(r) /\ history' = Append(history, Says("assistant", r))
          /\ pc'[r] \in {"answered", "raised"}
      BY <1>0, <1>8 DEF ModelFails, Conclude, Goto, InTurn, Modelled
    <2>. QED
      BY <1>0, <2>1, TurnConcludes
  <1>9. CASE FinalAnswer(r)
    <2>1. InTurn(r) /\ Modelled(r) /\ history' = Append(history, Says("assistant", r))
          /\ pc'[r] \in {"answered", "raised"}
      BY <1>0, <1>9 DEF FinalAnswer, Conclude, Goto, InTurn, Modelled
    <2>. QED
      BY <1>0, <2>1, TurnConcludes
  <1>10. CASE AskForTools(r)
    <2>1. InTurn(r) /\ Modelled(r) /\ Modelled(r)'
          /\ history' = Append(history, Says("call", r))
      BY <1>0, <1>10 DEF AskForTools, Goto, InTurn, Modelled
    <2>. QED
      BY <1>0, <2>1, Recorded, TurnGrows
  <1>11. CASE RunTool(r)
    <2>1. InTurn(r) /\ Modelled(r) /\ Modelled(r)'
          /\ history' = Append(history, Says("tool", r))
      BY <1>0, <1>11 DEF RunTool, Goto, InTurn, Modelled
    <2>. QED
      BY <1>0, <2>1, Recorded, TurnGrows
  <1>12. CASE OutOfSteps(r)
    <2>1. InTurn(r) /\ Modelled(r) /\ history' = Append(history, Says("assistant", r))
          /\ pc'[r] \in {"answered", "raised"}
      BY <1>0, <1>12 DEF OutOfSteps, Conclude, Goto, InTurn, Modelled
    <2>. QED
      BY <1>0, <2>1, TurnConcludes
  <1>13. CASE LeaveTurn(r)
    <2>1. history' = history /\ \A p \in Request :
            (Fresh(p)' => Fresh(p)) /\ (Modelled(p)' <=> Modelled(p))
      BY <1>0, <1>13 DEF LeaveTurn, Goto, Fresh, Modelled
    <2>. QED
      BY <2>1, HistoryKeeps
  <1>14. CASE ProducerEnds(r)
    <2>1. history' = history /\ \A p \in Request :
            (Fresh(p)' => Fresh(p)) /\ (Modelled(p)' <=> Modelled(p))
      BY <1>0, <1>14 DEF ProducerEnds, Goto, Fresh, Modelled
    <2>. QED
      BY <2>1, HistoryKeeps
  <1>15. CASE PlainReturns(r)
    <2>1. history' = history /\ \A p \in Request :
            (Fresh(p)' => Fresh(p)) /\ (Modelled(p)' <=> Modelled(p))
      BY <1>0, <1>15 DEF PlainReturns, Goto, Fresh, Modelled
    <2>. QED
      BY <2>1, HistoryKeeps
  <1>16. CASE Take(r)
    <2>1. history' = history /\ \A p \in Request :
            (Fresh(p)' => Fresh(p)) /\ (Modelled(p)' <=> Modelled(p))
      BY <1>0, <1>16 DEF Take, Fresh, Modelled
    <2>. QED
      BY <2>1, HistoryKeeps
  <1>17. CASE Join(r)
    <2>1. history' = history /\ \A p \in Request :
            (Fresh(p)' => Fresh(p)) /\ (Modelled(p)' <=> Modelled(p))
      BY <1>0, <1>17 DEF Join, Fresh, Modelled
    <2>. QED
      BY <2>1, HistoryKeeps
  <1>. QED
    BY <1>1, <1>2, <1>3, <1>4, <1>5, <1>6, <1>7, <1>8, <1>9, <1>10, <1>11, <1>12, <1>13, <1>14, <1>15, <1>16, <1>17
    DEF Acts, RunTurn, Work, ReadStream

-----------------------------------------------------------------------------
\* The two records.
Extends(g, h) == DOMAIN h \subseteq DOMAIN g /\ \A i \in DOMAIN h : g[i] = h[i]
BothSides(h, r) ==
    \E i, j \in DOMAIN h : i < j /\ h[i] = Says("user", r) /\ h[j] = Says("assistant", r)

LEMMA AppendExtends ==
    ASSUME NEW S, NEW h \in Seq(S), NEW x
    PROVE  Extends(Append(h, x), h)
  BY DEF Extends

LEMMA RecordKeeps ==
    ASSUME TypeOK, RecordInv, NEW r \in Request, Extends(history', history),
           Extends(durable', durable), answer' = answer,
           \A q \in Request \ {r} : pc'[q] = pc[q],
           answer[r] # None => pc'[r] \in {"answered", "settled", "ended"},
           pc'[r] \in {"routed", "asking_model", "streaming", "tools"} => Asked(durable', r)
    PROVE  RecordInv'
  <1>1. ASSUME NEW q \in Request, answer'[q] # None
        PROVE  BothSides(history', q) /\ BothSides(durable', q)
    <2>1. BothSides(history, q) /\ BothSides(durable, q)
      BY <1>1 DEF RecordInv, RecordedInBothHistories, BothSides
    <2>. QED
      BY <2>1 DEF BothSides, Extends
  <1>2. ASSUME NEW q \in Request
        PROVE  /\ pc'[q] \in {"routed", "asking_model", "streaming", "tools"} => Asked(durable', q)
               /\ answer'[q] # None => pc'[q] \in {"answered", "settled", "ended"}
    BY DEF RecordInv, Asked, Extends
  <1>. QED
    BY <1>1, <1>2 DEF RecordInv, RecordedInBothHistories, BothSides, Asked

LEMMA RecordConcludes ==
    ASSUME TypeOK, RecordInv, NEW r \in Request, NEW h \in Seq(Message), Extends(h, history),
           Asked(h, r), pc[r] \in {"routed", "asking_model", "streaming", "tools"},
           NEW text, NEW before, NEW status, Conclude(r, text, h, before, status)
    PROVE  RecordInv'
  <1>1. history' = Append(h, Says("assistant", r))
    BY DEF Conclude
  <1>2. \A q \in Request \ {r} : pc'[q] = pc[q]
    BY DEF Conclude, Goto, TypeOK
  <1>3. answer[r] = None
    BY DEF RecordInv
  <1>4. Extends(history', history)
    BY <1>1, AppendExtends DEF Extends
  <1>5. CASE /\ durable' = Append(durable, Says("assistant", r))
             /\ answer' = [answer EXCEPT ![r] = text]
             /\ Goto(r, "answered")
    <2>1. pc'[r] = "answered" /\ durable \in Seq(Kept) /\ answer \in [Request -> Answers \cup {None}]
      BY <1>5 DEF Goto, TypeOK, Kept
    <2>2. Extends(durable', durable)
      BY <1>5, <2>1, AppendExtends
    <2>3. BothSides(history', r)
      <3>1. PICK i \in DOMAIN h : h[i] = Says("user", r)
        BY DEF Asked
      <3>2. i \in DOMAIN history' /\ history'[i] = Says("user", r) /\ i < Len(h) + 1
            /\ Len(h) + 1 \in DOMAIN history' /\ history'[Len(h) + 1] = Says("assistant", r)
        BY <1>1, <3>1
      <3>. QED
        BY <3>2 DEF BothSides
    <2>4. BothSides(durable', r)
      <3>1. PICK n : n = Len(durable) + 1
        OBVIOUS
      <3>2. PICK i \in DOMAIN durable : durable[i] = Says("user", r)
        BY DEF RecordInv
      <3>3. i \in DOMAIN durable' /\ durable'[i] = Says("user", r) /\ i < n
            /\ n \in DOMAIN durable' /\ durable'[n] = Says("assistant", r)
        BY <1>5, <2>1, <3>1, <3>2
      <3>. QED
        BY <3>3 DEF BothSides
    <2>5. ASSUME NEW q \in Request, q # r, answer'[q] # None
          PROVE  BothSides(history', q) /\ BothSides(durable', q)
      <3>1. BothSides(history, q) /\ BothSides(durable, q)
        BY <1>5, <2>1, <2>5 DEF RecordInv, RecordedInBothHistories, BothSides
      <3>. QED
        BY <1>4, <2>2, <3>1 DEF BothSides, Extends
    <2>6. ASSUME NEW q \in Request
          PROVE  /\ pc'[q] \in {"routed", "asking_model", "streaming", "tools"} => Asked(durable', q)
                 /\ answer'[q] # None => pc'[q] \in {"answered", "settled", "ended"}
      <3>1. CASE q = r
        BY <2>1, <3>1
      <3>2. CASE q # r
        BY <1>2, <1>5, <2>1, <2>2, <3>2 DEF RecordInv, Asked, Extends
      <3>. QED
        BY <3>1, <3>2
    <2>. QED
      BY <2>3, <2>4, <2>5, <2>6 DEF RecordInv, RecordedInBothHistories, BothSides, Asked
  <1>6. CASE UNCHANGED <<durable, answer>> /\ Goto(r, "raised")
    <2>1. pc'[r] = "raised" /\ durable \in Seq(Kept)
      BY <1>6 DEF Goto, TypeOK, Kept
    <2>2. Extends(durable', durable) /\ answer' = answer
      BY <1>6 DEF Extends
    <2>. QED
      BY <1>2, <1>3, <1>4, <2>1, <2>2, RecordKeeps
  <1>. QED
    BY <1>5, <1>6 DEF Conclude

LEMMA RecordStep ==
    ASSUME TypeOK, PlaceInv, LockInv, HistoryInv, RecordInv, NEW r \in Request, Acts(r)
    PROVE  RecordInv'
  <1>0. /\ \A p \in Request \ {r} : pc'[p] = pc[p]
        /\ pc \in [Request -> PC] /\ history \in Seq(Message) /\ durable \in Seq(Kept)
        /\ Modelled(r) => Asked(history, r)
        /\ Extends(history, history) /\ Extends(durable, durable)
        /\ answer[r] # None => pc[r] \in {"answered", "settled", "ended"}
        /\ pc[r] \in {"routed", "asking_model", "streaming", "tools"} => Asked(durable, r)
        /\ caller[r] = "new" => pc[r] = "new"
    BY OthersStay, HistoryParts, TypeParts
    DEF ScalarsOK, HistoriesOK, Extends, RecordInv, Asked, PlaceInv
  <1>1. CASE Submit(r)
    <2>1. UNCHANGED <<history, durable, answer>>
      BY <1>1 DEF Submit
    <2>2. /\ answer[r] # None => pc'[r] \in {"answered", "settled", "ended"}
          /\ pc'[r] \in {"routed", "asking_model", "streaming", "tools"} => Asked(durable, r)
      BY <1>0, <1>1 DEF Submit, Goto
    <2>. QED
      BY <1>0, <2>1, <2>2, RecordKeeps
  <1>2. CASE TakeTurn(r)
    <2>1. UNCHANGED <<history, durable, answer>>
      BY <1>2 DEF TakeTurn
    <2>2. /\ answer[r] # None => pc'[r] \in {"answered", "settled", "ended"}
          /\ pc'[r] \in {"routed", "asking_model", "streaming", "tools"} => Asked(durable, r)
      BY <1>0, <1>2 DEF TakeTurn, Goto
    <2>. QED
      BY <1>0, <2>1, <2>2, RecordKeeps
  <1>3. CASE Begin(r)
    <2>1. pc[r] = "begin" /\ UNCHANGED <<history, answer>>
      BY <1>3 DEF Begin
    <2>2. CASE durable' = Append(durable, Says("user", r)) /\ pc'[r] = "routed"
      <3>1. Extends(durable', durable) /\ Asked(durable', r)
        BY <1>0, <2>2, AppendExtends DEF Asked
      <3>. QED
        BY <1>0, <2>1, <2>2, <3>1, RecordKeeps
    <2>3. CASE durable' = durable /\ pc'[r] = "raised"
      BY <1>0, <2>1, <2>3, RecordKeeps
    <2>. QED
      BY <1>0, <1>3, <2>2, <2>3 DEF Begin, Goto
  <1>4. CASE DirectReply(r)
    <2>1. pc[r] = "routed" /\ Conclude(r, "direct", WithUser(r), state, "ok")
      BY <1>4 DEF DirectReply
    <2>2. WithUser(r) \in Seq(Message) /\ Asked(WithUser(r), r) /\ Extends(WithUser(r), history)
      BY <1>0, <2>1, DirectHistory, AppendExtends
    <2>. QED
      BY <2>1, <2>2, RecordConcludes
  <1>5. CASE Prepare(r)
    <2>1. pc'[r] \in {"asking_model", "raised"} /\ pc[r] = "routed"
          /\ history' \in {history, Append(history, Says("user", r))}
          /\ UNCHANGED <<durable, answer>>
      BY <1>0, <1>5 DEF Prepare, Goto
    <2>2. Extends(history', history)
      BY <1>0, <2>1, AppendExtends
    <2>. QED
      BY <1>0, <2>1, <2>2, RecordKeeps
  <1>6. CASE AskModel(r)
    <2>1. UNCHANGED <<history, durable, answer>>
      BY <1>6 DEF AskModel
    <2>2. /\ answer[r] # None => pc'[r] \in {"answered", "settled", "ended"}
          /\ pc'[r] \in {"routed", "asking_model", "streaming", "tools"} => Asked(durable, r)
      BY <1>0, <1>6 DEF AskModel, Goto
    <2>. QED
      BY <1>0, <2>1, <2>2, RecordKeeps
  <1>7. CASE Piece(r)
    <2>1. UNCHANGED <<history, durable, answer>>
      BY <1>7 DEF Piece
    <2>2. /\ answer[r] # None => pc'[r] \in {"answered", "settled", "ended"}
          /\ pc'[r] \in {"routed", "asking_model", "streaming", "tools"} => Asked(durable, r)
      BY <1>0, <1>7 DEF Piece
    <2>. QED
      BY <1>0, <2>1, <2>2, RecordKeeps
  <1>8. CASE ModelFails(r)
    <2>0. PICK text, before : text = "error" /\ before = state
      OBVIOUS
    <2>1. Modelled(r) /\ pc[r] \in {"routed", "asking_model", "streaming", "tools"}
          /\ Conclude(r, text, history, before, "error")
      BY <1>8, <2>0 DEF ModelFails, Modelled
    <2>. QED
      BY <1>0, <2>1, RecordConcludes
  <1>9. CASE FinalAnswer(r)
    <2>0. PICK text, before : text = Grounded /\ before = state
      OBVIOUS
    <2>1. Modelled(r) /\ pc[r] \in {"routed", "asking_model", "streaming", "tools"}
          /\ Conclude(r, text, history, before, "ok")
      BY <1>9, <2>0 DEF FinalAnswer, Modelled
    <2>. QED
      BY <1>0, <2>1, RecordConcludes
  <1>10. CASE AskForTools(r)
    <2>1. pc'[r] \in {"tools", "asking_model"} /\ pc[r] \in {"streaming", "tools"}
          /\ history' = Append(history, Says("call", r))
          /\ UNCHANGED <<durable, answer>>
      BY <1>0, <1>10 DEF AskForTools, Goto
    <2>. QED
      BY <1>0, <2>1, AppendExtends, RecordKeeps
  <1>11. CASE RunTool(r)
    <2>1. pc'[r] \in {"tools", "asking_model"} /\ pc[r] \in {"streaming", "tools"}
          /\ history' = Append(history, Says("tool", r))
          /\ UNCHANGED <<durable, answer>>
      BY <1>0, <1>11 DEF RunTool, Goto
    <2>. QED
      BY <1>0, <2>1, AppendExtends, RecordKeeps
  <1>12. CASE OutOfSteps(r)
    <2>0. PICK text, before : text = "fallback" /\ before = "standby"
      OBVIOUS
    <2>1. Modelled(r) /\ pc[r] \in {"routed", "asking_model", "streaming", "tools"}
          /\ Conclude(r, text, history, before, "incomplete")
      BY <1>12, <2>0 DEF OutOfSteps, Modelled
    <2>. QED
      BY <1>0, <2>1, RecordConcludes
  <1>13. CASE LeaveTurn(r)
    <2>1. UNCHANGED <<history, durable, answer>>
      BY <1>13 DEF LeaveTurn
    <2>2. /\ answer[r] # None => pc'[r] \in {"answered", "settled", "ended"}
          /\ pc'[r] \in {"routed", "asking_model", "streaming", "tools"} => Asked(durable, r)
      BY <1>0, <1>13 DEF LeaveTurn, Goto
    <2>. QED
      BY <1>0, <2>1, <2>2, RecordKeeps
  <1>14. CASE ProducerEnds(r)
    <2>1. UNCHANGED <<history, durable, answer>>
      BY <1>14 DEF ProducerEnds
    <2>2. /\ answer[r] # None => pc'[r] \in {"answered", "settled", "ended"}
          /\ pc'[r] \in {"routed", "asking_model", "streaming", "tools"} => Asked(durable, r)
      BY <1>0, <1>14 DEF ProducerEnds, Goto
    <2>. QED
      BY <1>0, <2>1, <2>2, RecordKeeps
  <1>15. CASE PlainReturns(r)
    <2>1. UNCHANGED <<history, durable, answer>>
      BY <1>15 DEF PlainReturns
    <2>2. /\ answer[r] # None => pc'[r] \in {"answered", "settled", "ended"}
          /\ pc'[r] \in {"routed", "asking_model", "streaming", "tools"} => Asked(durable, r)
      BY <1>0, <1>15 DEF PlainReturns, Goto
    <2>. QED
      BY <1>0, <2>1, <2>2, RecordKeeps
  <1>16. CASE Take(r)
    <2>1. UNCHANGED <<history, durable, answer>>
      BY <1>16 DEF Take
    <2>2. /\ answer[r] # None => pc'[r] \in {"answered", "settled", "ended"}
          /\ pc'[r] \in {"routed", "asking_model", "streaming", "tools"} => Asked(durable, r)
      BY <1>0, <1>16 DEF Take
    <2>. QED
      BY <1>0, <2>1, <2>2, RecordKeeps
  <1>17. CASE Join(r)
    <2>1. UNCHANGED <<history, durable, answer>>
      BY <1>17 DEF Join
    <2>2. /\ answer[r] # None => pc'[r] \in {"answered", "settled", "ended"}
          /\ pc'[r] \in {"routed", "asking_model", "streaming", "tools"} => Asked(durable, r)
      BY <1>0, <1>17 DEF Join
    <2>. QED
      BY <1>0, <2>1, <2>2, RecordKeeps
  <1>. QED
    BY <1>1, <1>2, <1>3, <1>4, <1>5, <1>6, <1>7, <1>8, <1>9, <1>10, <1>11, <1>12, <1>13, <1>14, <1>15, <1>16, <1>17
    DEF Acts, RunTurn, Work, ReadStream
-----------------------------------------------------------------------------
\* The callers.
LEMMA PlainStep ==
    ASSUME TypeOK, PlaceInv, RecordInv, NEW r \in Request, Acts(r),
           \A p \in Plain : PlainInv(p)
    PROVE  \A p \in Plain : PlainInv(p)'
  <1>0. SUFFICES ASSUME r \in Plain PROVE PlainInv(r)'
    BY OthersStay DEF PlainInv, Returned, Request
  <1>a. /\ r \notin Streamed /\ PlainInv(r) /\ (caller[r] = "new" => pc[r] = "new")
        /\ answer[r] # None => pc[r] \in {"answered", "settled", "ended"}
        /\ pc[r] \in PC /\ caller[r] \in Callers
    BY <1>0, CallersAssumption DEF PlaceInv, RecordInv, TypeOK
  <1> USE DEF TypeOK, PlainInv, Returned, callerVars
  <1>1. CASE Submit(r)
    BY <1>a, <1>1 DEF Submit, Goto
  <1>2. CASE TakeTurn(r)
    BY <1>a, <1>2 DEF TakeTurn, Goto
  <1>3. CASE Begin(r)
    BY <1>a, <1>3 DEF Begin, Goto
  <1>4. CASE DirectReply(r)
    BY <1>a, <1>4 DEF DirectReply, Conclude, Goto, Silent
  <1>5. CASE Prepare(r)
    BY <1>a, <1>5 DEF Prepare, Goto, Silent
  <1>6. CASE AskModel(r)
    BY <1>a, <1>6 DEF AskModel, Goto, Silent
  <1>7. CASE Piece(r)
    BY <1>a, <1>7 DEF Piece
  <1>8. CASE ModelFails(r)
    BY <1>a, <1>8 DEF ModelFails, Conclude, Goto, Emit
  <1>9. CASE FinalAnswer(r)
    BY <1>a, <1>9 DEF FinalAnswer, Conclude, Goto, Emit, Silent
  <1>10. CASE AskForTools(r)
    BY <1>a, <1>10 DEF AskForTools, Goto, Silent
  <1>11. CASE RunTool(r)
    BY <1>a, <1>11 DEF RunTool, Goto, Silent
  <1>12. CASE OutOfSteps(r)
    BY <1>a, <1>12 DEF OutOfSteps, Conclude, Goto, Emit
  <1>13. CASE LeaveTurn(r)
    BY <1>a, <1>13 DEF LeaveTurn, Goto
  <1>14. CASE ProducerEnds(r)
    BY <1>a, <1>14 DEF ProducerEnds, Goto
  <1>15. CASE PlainReturns(r)
    BY <1>a, <1>15 DEF PlainReturns, Goto
  <1>16. CASE Take(r)
    BY <1>a, <1>16 DEF Take
  <1>17. CASE Join(r)
    BY <1>a, <1>17 DEF Join
  <1>. QED
    BY <1>1, <1>2, <1>3, <1>4, <1>5, <1>6, <1>7, <1>8, <1>9, <1>10, <1>11, <1>12, <1>13, <1>14, <1>15, <1>16, <1>17
    DEF Acts, RunTurn, Work, ReadStream

\* The stream of a caller: an item put into the queue ends it, and reading
\* moves its head.
LEMMA ReadHead ==
    ASSUME NEW S, NEW s \in Seq(S), NEW c \in Seq(S), c # <<>>
    PROVE  Append(s, Head(c)) \o Tail(c) = s \o c
  <1> DEFINE h == Head(c)
             t == Tail(c)
  <1>1. h \in S /\ t \in Seq(S) /\ Len(t) = Len(c) - 1 /\ \A i \in 1 .. Len(t) : t[i] = c[i + 1]
    BY HeadTailProperties
  <1>2. <<h>> \in Seq(S) /\ Append(s, h) = s \o <<h>>
    BY <1>1, AppendIsConcat
  <1>3. (s \o <<h>>) \o t = s \o (<<h>> \o t)
    BY <1>1, <1>2, ConcatAssociative
  <1>4. /\ <<h>> \o t \in Seq(S) /\ Len(<<h>> \o t) = Len(c)
        /\ \A i \in 1 .. Len(c) : (<<h>> \o t)[i] = IF i <= 1 THEN h ELSE t[i - 1]
    BY <1>1, <1>2, ConcatProperties
  <1>5. \A i \in 1 .. Len(c) : (<<h>> \o t)[i] = c[i]
    BY <1>1, <1>4
  <1>6. <<h>> \o t = c
    BY <1>4, <1>5, SeqEqual
  <1>. QED
    BY <1>2, <1>3, <1>6

LEMMA PutLast ==
    ASSUME NEW S, NEW s \in Seq(S), NEW c \in Seq(S), NEW x \in S
    PROVE  s \o Append(c, x) = Append(s \o c, x)
  <1>1. Append(c, x) = c \o <<x>> /\ <<x>> \in Seq(S)
    BY AppendIsConcat
  <1>2. s \o (c \o <<x>>) = (s \o c) \o <<x>>
    BY <1>1, ConcatAssociative
  <1>3. Append(s \o c, x) = (s \o c) \o <<x>>
    BY ConcatProperties, AppendIsConcat
  <1>. QED
    BY <1>1, <1>2, <1>3

LEMMA StreamPuts ==
    ASSUME QueuesOK, NEW r \in Request, NEW x \in Item, shown'[r] = shown[r],
           chunks'[r] = Append(chunks[r], x)
    PROVE  Stream(r)' = Append(Stream(r), x)
  <1>1. PICK s, c : s = shown[r] /\ c = chunks[r] /\ s \in Seq(Item) /\ c \in Seq(Item)
    BY Texts DEF QueuesOK
  <1>2. s \o Append(c, x) = Append(s \o c, x)
    <2>1. s \in Seq(Item) /\ c \in Seq(Item) /\ x \in Item
      BY <1>1
    <2>. QED
      BY <2>1, PutLast
  <1>3. Stream(r) = s \o c /\ Stream(r)' = s \o Append(c, x)
    BY <1>1 DEF Stream
  <1>. QED
    BY <1>2, <1>3
LEMMA StreamReads ==
    ASSUME QueuesOK, NEW r \in Request, chunks[r] # <<>>,
           shown'[r] = Append(shown[r], Head(chunks[r])), chunks'[r] = Tail(chunks[r])
    PROVE  Stream(r)' = Stream(r)
  <1>1. shown[r] \in Seq(Item) /\ chunks[r] \in Seq(Item)
    BY Texts DEF QueuesOK
  <1>. QED
    BY <1>1, ReadHead DEF Stream
LEMMA StreamType ==
    ASSUME QueuesOK, NEW r \in Request
    PROVE  /\ Stream(r) \in Seq(Item) /\ shown[r] \in Seq(Text) /\ chunks[r] \in Seq(Item)
           /\ Len(Stream(r)) = Len(shown[r]) + Len(chunks[r])
           /\ \A i \in 1 .. Len(shown[r]) + Len(chunks[r]) : Stream(r)[i] =
                 IF i <= Len(shown[r]) THEN shown[r][i] ELSE chunks[r][i - Len(shown[r])]
           /\ chunks[r] = <<>> => Stream(r) = shown[r]
  <1>1. shown[r] \in Seq(Item) /\ chunks[r] \in Seq(Item) /\ shown[r] \in Seq(Text)
    BY Texts DEF QueuesOK
  <1>2. /\ Stream(r) \in Seq(Item)
        /\ Len(Stream(r)) = Len(shown[r]) + Len(chunks[r])
        /\ \A i \in 1 .. Len(shown[r]) + Len(chunks[r]) : Stream(r)[i] =
              IF i <= Len(shown[r]) THEN shown[r][i] ELSE chunks[r][i - Len(shown[r])]
    BY <1>1, ConcatProperties, Zenon DEF Stream
  <1>3. chunks[r] = <<>> => Stream(r) = shown[r]
    BY <1>1, ConcatEmptySeq DEF Stream
  <1>. QED
    BY <1>1, <1>2, <1>3
\* One of the others.
LEMMA OtherStream ==
    ASSUME TypeOK, LockInv, NEW r \in Request, Acts(r), NEW q \in Streamed, q # r, StreamInv(q)
    PROVE  StreamInv(q)'
  <1>1. /\ pc'[q] = pc[q] /\ caller'[q] = caller[q] /\ answer'[q] = answer[q]
        /\ chunks'[q] = chunks[q] /\ shown'[q] = shown[q] /\ emitted'[q] = emitted[q]
        /\ streamed' => streamed \/ pc[r] = "streaming"
    BY OthersStay DEF Request
  <1>2. ~(pc[q] = "streaming" /\ pc[r] = "streaming")
    BY Alone DEF InTurn, Request
  <1>3. Stream(q)' = Stream(q)
    BY <1>1 DEF Stream
  <1>. QED
    BY <1>1, <1>2, <1>3 DEF StreamInv, Fresh, Modelled, Told

\* An item that closes the stream: after pieces, and what the answer is.
LEMMA ToldLast ==
    ASSUME NEW f \in Seq(Item), \A i \in DOMAIN f : f[i] = Fragment, NEW x \in Item, NEW r,
           answer[r] = x
    PROVE  Told(Append(f, x), Len(f) + 1, r)
  <1>1. /\ Len(f) \in Nat /\ \A i \in 1 .. Len(f) : Append(f, x)[i] = Fragment
        /\ Append(f, x)[Len(f) + 1] = x
    BY AppendProperties
  <1>. QED
    BY <1>1 DEF Told

LEMMA ProducerKeeps ==
    ASSUME TypeOK, PlaceInv, NEW r \in Streamed, StreamInv(r), ProducerEnds(r)
    PROVE  StreamInv(r)'
  <1>0. r \in Request /\ QueuesOK
    BY TypeParts DEF Request
  <1>1. /\ pc[r] = "settled" /\ pc'[r] = "ended" /\ caller' = caller /\ caller[r] = "reading"
        /\ answer' = answer /\ shown' = shown /\ chunks'[r] = chunks[r] \o LastPut(r)
    BY <1>0 DEF ProducerEnds, Goto, callerVars, PlaceInv, StreamInv, TypeOK
  <1>2. /\ emitted[r] <=> Stream(r) # <<>>
        /\ \A i \in DOMAIN Stream(r) : Stream(r)[i] # Done
        /\ answer[r] # None /\ emitted[r] => Told(Stream(r), Len(Stream(r)), r)
    BY <1>1 DEF StreamInv
  <1>3. PICK f, c, a : f = Stream(r) /\ c = chunks[r] /\ a = answer[r]
    OBVIOUS
  <1>4. f \in Seq(Item) /\ c \in Seq(Item) /\ a \in Answers \cup {None}
    BY <1>0, <1>3, StreamType DEF TypeOK
  <1>5. CASE answer[r] # None /\ ~emitted[r]
    <2>1. a \in Item /\ Done \in Item /\ a # Done
      BY <1>3, <1>4, <1>5, Texts
    <2>2. LastPut(r) = <<a, Done>> /\ f = <<>>
      BY <1>2, <1>3, <1>5 DEF LastPut
    <2>3. Len(Stream(r)) = 0
      BY <1>3, <2>2
    <2>4. shown[r] = <<>> /\ chunks[r] = <<>>
      <3>1. PICK s, i, j : s = shown[r] /\ i = Len(s) /\ j = Len(c)
        OBVIOUS
      <3>2. 0 = i + j /\ s \in Seq(Text)
        BY <1>0, <1>3, <2>3, <3>1, StreamType
      <3>3. i \in Nat /\ j \in Nat
        BY <1>4, <3>1, <3>2, LenProperties
      <3>4. i = 0 /\ j = 0
        BY <3>2, <3>3
      <3>. QED
        BY <1>3, <1>4, <3>1, <3>2, <3>4, EmptySeq
    <2>5. chunks'[r] = <<a, Done>> /\ Stream(r)' = <<a, Done>>
      BY <1>1, <2>1, <2>2, <2>4 DEF Stream
    <2>6. Told(Stream(r), 1, r)'
      BY <1>1, <1>3, <2>5 DEF Told
    <2>. QED
      BY <1>1, <2>1, <2>5, <2>6 DEF StreamInv, Fresh, Modelled
  <1>6. CASE ~(answer[r] # None /\ ~emitted[r])
    <2>1. chunks'[r] = c \o <<Done>>
      BY <1>1, <1>3, <1>6 DEF LastPut
    <2>2. chunks'[r] = Append(c, Done)
      BY <1>4, <2>1, Texts, AppendIsConcat
    <2>3. Stream(r)' = Append(Stream(r), Done)
      BY <1>0, <1>1, <1>3, <2>2, Texts, StreamPuts
    <2>4. PICK g : g = Append(f, Done)
      OBVIOUS
    <2>5. /\ Len(f) \in Nat /\ Len(g) = Len(f) + 1 /\ DOMAIN f = 1 .. Len(f)
          /\ \A i \in 1 .. Len(f) : g[i] = f[i]
          /\ g[Len(f) + 1] = Done
      BY <1>4, <2>4, Texts, AppendProperties
    <2>6. chunks'[r] # <<>>
      BY <1>4, <2>2, Texts, AppendProperties
    <2>7. \A i \in 1 .. Len(g) - 1 : g[i] # Done
      BY <1>2, <1>3, <2>5
    <2>8. answer'[r] # None => Told(g, Len(g) - 1, r)'
      <3>1. answer[r] # None => Told(f, Len(f), r)
        BY <1>2, <1>3, <1>6
      <3>. QED
        BY <1>1, <2>5, <3>1 DEF Told
    <2>9. Stream(r)' = g
      BY <1>3, <2>3, <2>4
    <2>. QED
      BY <1>1, <2>5, <2>6, <2>7, <2>8, <2>9 DEF StreamInv, Fresh, Modelled
  <1>. QED
    BY <1>5, <1>6

LEMMA TakeKeeps ==
    ASSUME TypeOK, NEW r \in Streamed, StreamInv(r), Take(r)
    PROVE  StreamInv(r)'
  <1>0. r \in Request /\ QueuesOK
    BY TypeParts DEF Request
  <1>1. /\ caller[r] = "reading" /\ chunks[r] # <<>> /\ chunks'[r] = Tail(chunks[r])
        /\ UNCHANGED <<pc, answer, emitted, streamed>>
        /\ caller \in [Request -> Callers] /\ shown \in [Request -> Seq(Text)]
    BY <1>0 DEF Take, TypeOK, turnVars, QueuesOK
  <1>2. PICK n, m, k, f, c, s :
           /\ f = Stream(r) /\ n = Len(f)
           /\ c = chunks[r] /\ k = Len(c)
           /\ s = shown[r] /\ m = Len(s)
    OBVIOUS
  <1>3. /\ f \in Seq(Item) /\ c \in Seq(Item) /\ s \in Seq(Text)
        /\ m \in Nat /\ k \in Nat \ {0} /\ n = m + k
        /\ \A i \in 1 .. m : f[i] = s[i]
        /\ \A i \in 1 .. k : f[m + i] = c[i]
    <2>1. /\ f \in Seq(Item) /\ c \in Seq(Item) /\ s \in Seq(Text) /\ n = m + k
          /\ \A i \in 1 .. m + k : f[i] = IF i <= m THEN s[i] ELSE c[i - m]
      BY <1>0, <1>2, StreamType
    <2>2. m \in Nat /\ k \in Nat \ {0}
      BY <1>1, <1>2, <2>1, LenProperties, EmptySeq
    <2>3. ASSUME NEW i \in 1 .. k PROVE f[m + i] = c[i]
      <3>1. PICK j : j = m + i /\ j \in 1 .. m + k /\ ~(j <= m) /\ j - m = i
        BY <2>2
      <3>. QED
        BY <2>1, <3>1
    <2>4. \A i \in 1 .. m : f[i] = s[i]
      BY <2>1, <2>2
    <2>. QED
      BY <2>1, <2>2, <2>3, <2>4
  <1>4. f[m + 1] = Head(c) /\ DOMAIN f = 1 .. n /\ m + 1 \in 1 .. n
    <2>1. f[m + 1] = c[1] /\ Head(c) = c[1]
      BY <1>1, <1>2, <1>3
    <2>2. DOMAIN f = 1 .. n
      BY <1>2, <1>3, LenProperties
    <2>. QED
      BY <1>3, <2>1, <2>2
  <1>5. /\ pc[r] # "ended" => \A i \in DOMAIN f : f[i] # Done
        /\ pc[r] = "ended" =>
              /\ f[n] = Done /\ \A i \in 1 .. n - 1 : f[i] # Done
              /\ answer[r] # None => Told(f, n - 1, r)
    BY <1>1, <1>2 DEF StreamInv
  <1>6. CASE Head(c) # Done
    <2>1. caller' = caller /\ shown'[r] = Append(shown[r], Head(chunks[r]))
      BY <1>0, <1>1, <1>2, <1>6 DEF Take
    <2>2. Stream(r)' = Stream(r)
      BY <1>0, <1>1, <2>1, StreamReads
    <2>3. pc[r] = "ended" => chunks'[r] # <<>>
      <3>1. pc[r] = "ended" => k # 1
        BY <1>3, <1>4, <1>5, <1>6
      <3>2. PICK t : t = Tail(c) /\ Len(t) = k - 1 /\ t \in Seq(Item)
        BY <1>1, <1>2, <1>3, HeadTailProperties
      <3>3. ASSUME t = <<>> PROVE k = 1
        <4>1. Len(t) = 0 /\ k \in Nat
          BY <1>3, <3>3, EmptySeq
        <4>. QED
          BY <3>2, <4>1
      <3>. QED
        BY <1>1, <1>2, <3>1, <3>2, <3>3
    <2>. QED
      BY <1>1, <2>1, <2>2, <2>3 DEF StreamInv, Fresh, Modelled, Told
  <1>7. CASE Head(c) = Done
    <2>1. caller'[r] = "joining" /\ shown' = shown
      BY <1>0, <1>1, <1>2, <1>7 DEF Take
    <2>2. pc[r] = "ended"
      BY <1>4, <1>5, <1>7
    <2>3. k = 1
      <3>1. \A i \in 1 .. n - 1 : f[i] # Done
        BY <1>5, <2>2
      <3>2. m + 1 \notin 1 .. n - 1
        BY <1>4, <1>7, <3>1
      <3>. QED
        BY <1>3, <3>2
    <2>4. chunks'[r] = <<>>
      <3>1. PICK t : t = Tail(c) /\ Len(t) = k - 1 /\ t \in Seq(Item)
        BY <1>1, <1>2, <1>3, HeadTailProperties
      <3>2. Len(t) = 0
        BY <2>3, <3>1
      <3>. QED
        BY <1>1, <1>2, <3>1, <3>2, EmptySeq
    <2>5. ASSUME answer'[r] # None PROVE Told(s, m, r)'
      <3>1. answer' = answer /\ Told(f, m, r)
        BY <1>1, <1>3, <1>5, <2>2, <2>3, <2>5
      <3>2. m > 0 /\ s[m] = f[m] /\ \A i \in 1 .. m - 1 : s[i] = f[i] /\ f[i] = Fragment
        BY <1>3, <3>1 DEF Told
      <3>. QED
        BY <3>1, <3>2 DEF Told
    <2>6. shown'[r] = s /\ Len(shown'[r]) = m
      BY <1>2, <2>1
    <2>. QED
      BY <1>1, <2>1, <2>2, <2>4, <2>5, <2>6 DEF StreamInv, Fresh, Modelled
  <1>. QED
    BY <1>6, <1>7

\* A step that puts nothing into the queue.
LEMMA QuietKeeps ==
    ASSUME NEW r \in Streamed, StreamInv(r), Stream(r)' = Stream(r), emitted'[r] = emitted[r],
           chunks'[r] = chunks[r], shown'[r] = shown[r], answer'[r] = answer[r],
           pc[r] # "ended", pc'[r] # "ended",
           caller'[r] \in {"new", "reading"}, caller[r] \in {"new", "reading"},
           Fresh(r)' => Fresh(r), Modelled(r)' => Modelled(r) \/ Fresh(r),
           pc'[r] = "streaming" => ~streamed' \/ (pc[r] = "streaming" /\ streamed)
    PROVE  StreamInv(r)'
  BY DEF StreamInv, Fresh, Modelled, Told

\* The model's answer or its failure, put after the pieces or not at all.
LEMMA AnswerKeeps ==
    ASSUME TypeOK, RecordInv, NEW r \in Streamed, StreamInv(r), Modelled(r) \/ Fresh(r),
           NEW text \in Answers, caller' = caller, shown' = shown, caller[r] # "new",
           \/ Emit(r, text)
           \/ Silent /\ (emitted[r] => text \in {"rendered", "notice"}),
           \/ answer' = [answer EXCEPT ![r] = text] /\ pc'[r] = "answered"
           \/ answer' = answer /\ pc'[r] = "raised"
    PROVE  StreamInv(r)'
  <1>0. r \in Request /\ QueuesOK
    BY TypeParts DEF Request
  <1>1. /\ pc[r] # "ended" /\ caller[r] = "reading" /\ answer[r] = None
        /\ \A i \in DOMAIN Stream(r) : Stream(r)[i] = Fragment
        /\ emitted[r] <=> Stream(r) # <<>>
    BY <1>0 DEF StreamInv, Modelled, Fresh, RecordInv
  <1>2. PICK f : f = Stream(r) /\ f \in Seq(Item)
    BY <1>0, StreamType
  <1>3. text \in Item /\ text # None /\ text # Done /\ Fragment # Done
    BY Texts DEF Fragment, Done
  <1>4. answer'[r] = text \/ answer'[r] = None
    BY <1>0, <1>1 DEF TypeOK
  <1>5. CASE Emit(r, text)
    <2>1. /\ chunks'[r] = Append(chunks[r], text) /\ emitted'[r]
      BY <1>0, <1>5 DEF Emit, TypeOK
    <2>2. Stream(r)' = Append(f, text)
      BY <1>0, <1>2, <1>3, <2>1, StreamPuts
    <2>3. PICK g : g = Append(f, text)
      OBVIOUS
    <2>4. /\ Len(f) \in Nat /\ g # <<>> /\ Len(g) = Len(f) + 1
          /\ DOMAIN f = 1 .. Len(f) /\ DOMAIN g = 1 .. Len(f) + 1
          /\ \A i \in 1 .. Len(f) : g[i] = f[i]
          /\ g[Len(f) + 1] = text
      BY <1>2, <1>3, <2>3, AppendProperties
    <2>5. \A i \in DOMAIN g : g[i] # Done
      BY <1>1, <1>2, <1>3, <2>4
    <2>6. answer'[r] # None => Told(g, Len(g), r)'
      BY <1>1, <1>2, <1>4, <2>4 DEF Told
    <2>7. Stream(r)' = g
      BY <2>2, <2>3
    <2>. QED
      BY <1>1, <2>1, <2>4, <2>5, <2>6, <2>7 DEF StreamInv, Fresh, Modelled
  <1>6. CASE Silent /\ (emitted[r] => text \in {"rendered", "notice"})
    <2>1. Stream(r)' = f /\ emitted' = emitted /\ chunks' = chunks
      BY <1>2, <1>6 DEF Silent, Stream
    <2>2. answer'[r] # None /\ emitted[r] => Told(f, Len(f), r)'
      BY <1>1, <1>2, <1>4, <1>6 DEF Told
    <2>3. \A i \in DOMAIN f : f[i] # Done
      BY <1>1, <1>2, <1>3
    <2>. QED
      BY <1>1, <1>2, <2>1, <2>2, <2>3 DEF StreamInv, Fresh, Modelled
  <1>. QED
    BY <1>5, <1>6

LEMMA StreamStep ==
    ASSUME TypeOK, PlaceInv, LockInv, RecordInv, NEW r \in Request, Acts(r),
           \A p \in Streamed : StreamInv(p)
    PROVE  \A p \in Streamed : StreamInv(p)'
  <1>a. SUFFICES ASSUME r \in Streamed PROVE StreamInv(r)'
    BY OtherStream
  <1>b. /\ r \notin Plain /\ StreamInv(r) /\ QueuesOK
        /\ (caller[r] = "new" => pc[r] = "new")
        /\ answer[r] # None => pc[r] \in {"answered", "settled", "ended"}
        /\ pc \in [Request -> PC] /\ caller \in [Request -> Callers]
        /\ chunks \in [Request -> Seq(Item)] /\ emitted \in [Request -> BOOLEAN]
        /\ caller[r] \in {"new", "reading", "joining", "got_answer", "got_error"}
        /\ caller[r] \in {"joining", "got_answer", "got_error"} => pc[r] = "ended"
    BY <1>a, CallersAssumption, TypeParts
    DEF PlaceInv, RecordInv, ScalarsOK, QueuesOK, StreamInv
  <1>1. CASE Submit(r)
    <2>1. UNCHANGED <<chunks, shown, emitted>> /\ answer'[r] = answer[r]
      BY <1>b, <1>1 DEF Submit, Goto, callerVars
    <2>2. Stream(r)' = Stream(r)
      BY <2>1 DEF Stream
    <2>3. /\ pc[r] # "ended" /\ pc'[r] # "ended"
          /\ caller'[r] \in {"new", "reading"} /\ caller[r] \in {"new", "reading"}
          /\ Fresh(r)' => Fresh(r)
          /\ Modelled(r)' => Modelled(r) \/ Fresh(r)
          /\ pc'[r] = "streaming" => ~streamed'
      BY <1>a, <1>b, <1>1 DEF Submit, Goto, callerVars, turnVars, Fresh, Modelled, PC
    <2>. QED
      BY <1>a, <1>b, <2>1, <2>2, <2>3, QuietKeeps
  <1>2. CASE TakeTurn(r)
    <2>1. UNCHANGED <<chunks, shown, emitted>> /\ answer'[r] = answer[r]
      BY <1>b, <1>2 DEF TakeTurn, Goto, callerVars
    <2>2. Stream(r)' = Stream(r)
      BY <2>1 DEF Stream
    <2>3. /\ pc[r] # "ended" /\ pc'[r] # "ended"
          /\ caller'[r] \in {"new", "reading"} /\ caller[r] \in {"new", "reading"}
          /\ Fresh(r)' => Fresh(r)
          /\ Modelled(r)' => Modelled(r) \/ Fresh(r)
          /\ pc'[r] = "streaming" => ~streamed'
      BY <1>a, <1>b, <1>2 DEF TakeTurn, Goto, callerVars, turnVars, Fresh, Modelled, PC
    <2>. QED
      BY <1>a, <1>b, <2>1, <2>2, <2>3, QuietKeeps
  <1>3. CASE Begin(r)
    <2>1. UNCHANGED <<chunks, shown, emitted>> /\ answer'[r] = answer[r]
      BY <1>b, <1>3 DEF Begin, Goto, callerVars
    <2>2. Stream(r)' = Stream(r)
      BY <2>1 DEF Stream
    <2>3. /\ pc[r] # "ended" /\ pc'[r] # "ended"
          /\ caller'[r] \in {"new", "reading"} /\ caller[r] \in {"new", "reading"}
          /\ Fresh(r)' => Fresh(r)
          /\ Modelled(r)' => Modelled(r) \/ Fresh(r)
          /\ pc'[r] = "streaming" => ~streamed'
      BY <1>a, <1>b, <1>3 DEF Begin, Goto, callerVars, turnVars, Fresh, Modelled, PC
    <2>. QED
      BY <1>a, <1>b, <2>1, <2>2, <2>3, QuietKeeps
  <1>4. CASE DirectReply(r)
    <2>1. PICK text : text = "direct"
      OBVIOUS
    <2>2. /\ text \in Answers /\ UNCHANGED <<caller, shown>> /\ caller[r] # "new"
          /\ Modelled(r) \/ Fresh(r)
      BY <1>b, <1>4, <2>1, Texts DEF DirectReply, callerVars, Modelled, Fresh
    <2>3. Silent /\ ~emitted[r]
      BY <1>b, <1>4, <2>1 DEF DirectReply, StreamInv, Fresh
    <2>4. \/ answer' = [answer EXCEPT ![r] = text] /\ pc'[r] = "answered"
          \/ answer' = answer /\ pc'[r] = "raised"
      BY <1>b, <1>4, <2>1 DEF DirectReply, Conclude, Goto
    <2>. QED
      BY <1>a, <1>b, <2>2, <2>3, <2>4, AnswerKeeps
  <1>5. CASE Prepare(r)
    <2>1. UNCHANGED <<chunks, shown, emitted>> /\ answer'[r] = answer[r]
      BY <1>b, <1>5 DEF Prepare, Silent, Goto, callerVars
    <2>2. Stream(r)' = Stream(r)
      BY <2>1 DEF Stream
    <2>3. /\ pc[r] # "ended" /\ pc'[r] # "ended"
          /\ caller'[r] \in {"new", "reading"} /\ caller[r] \in {"new", "reading"}
          /\ Fresh(r)' => Fresh(r)
          /\ Modelled(r)' => Modelled(r) \/ Fresh(r)
          /\ pc'[r] = "streaming" => ~streamed'
      BY <1>a, <1>b, <1>5 DEF Prepare, Silent, Goto, callerVars, turnVars, Fresh, Modelled, PC
    <2>. QED
      BY <1>a, <1>b, <2>1, <2>2, <2>3, QuietKeeps
  <1>6. CASE AskModel(r)
    <2>1. UNCHANGED <<chunks, shown, emitted>> /\ answer'[r] = answer[r]
      BY <1>b, <1>6 DEF AskModel, Silent, Goto, callerVars
    <2>2. Stream(r)' = Stream(r)
      BY <2>1 DEF Stream
    <2>3. /\ pc[r] # "ended" /\ pc'[r] # "ended"
          /\ caller'[r] \in {"new", "reading"} /\ caller[r] \in {"new", "reading"}
          /\ Fresh(r)' => Fresh(r)
          /\ Modelled(r)' => Modelled(r) \/ Fresh(r)
          /\ pc'[r] = "streaming" => ~streamed'
      BY <1>a, <1>b, <1>6 DEF AskModel, Silent, Goto, callerVars, turnVars, Fresh, Modelled, PC
    <2>. QED
      BY <1>a, <1>b, <2>1, <2>2, <2>3, QuietKeeps
  <1>7. CASE Piece(r)
    <2>1. /\ pc[r] = "streaming" /\ pc' = pc /\ UNCHANGED <<caller, shown, answer>>
          /\ chunks'[r] = Append(chunks[r], Fragment) /\ emitted'[r]
      BY <1>a, <1>b, <1>7 DEF Piece, Emit, callerVars
    <2>2. PICK f : f = Stream(r) /\ f \in Seq(Item) /\ \A i \in DOMAIN f : f[i] = Fragment
      BY <1>b, <2>1, StreamType DEF StreamInv, Modelled
    <2>3. PICK g : g = Append(f, Fragment)
      OBVIOUS
    <2>4. Stream(r)' = g
      BY <1>b, <2>1, <2>2, <2>3, Texts, StreamPuts
    <2>5. g # <<>> /\ \A i \in DOMAIN g : g[i] = Fragment
      BY <2>2, <2>3, Texts, AppendProperties
    <2>6. answer[r] = None /\ caller[r] = "reading" /\ Fragment # Done
      BY <1>b, <2>1 DEF Fragment, Done
    <2>. QED
      BY <1>b, <2>1, <2>4, <2>5, <2>6 DEF StreamInv, Fresh, Modelled
  <1>8. CASE ModelFails(r)
    <2>1. PICK text : text = "error"
      OBVIOUS
    <2>2. /\ text \in Answers /\ UNCHANGED <<caller, shown>> /\ caller[r] # "new"
          /\ Modelled(r) \/ Fresh(r)
      BY <1>b, <1>8, <2>1, Texts DEF ModelFails, callerVars, Modelled, Fresh
    <2>3. Emit(r, text)
      BY <1>b, <1>8, <2>1 DEF ModelFails
    <2>4. \/ answer' = [answer EXCEPT ![r] = text] /\ pc'[r] = "answered"
          \/ answer' = answer /\ pc'[r] = "raised"
      BY <1>b, <1>8, <2>1 DEF ModelFails, Conclude, Goto
    <2>. QED
      BY <1>a, <1>b, <2>2, <2>3, <2>4, AnswerKeeps
  <1>9. CASE FinalAnswer(r)
    <2>1. PICK text : text = Grounded
      OBVIOUS
    <2>2. /\ text \in Answers /\ UNCHANGED <<caller, shown>> /\ caller[r] # "new"
          /\ Modelled(r) \/ Fresh(r)
      BY <1>b, <1>9, <2>1, Texts DEF FinalAnswer, callerVars, Modelled, Fresh
    <2>3. Emit(r, text) \/ (Silent /\ text \in {"rendered", "notice"})
      BY <1>b, <1>9, <2>1 DEF FinalAnswer, Grounded
    <2>4. \/ answer' = [answer EXCEPT ![r] = text] /\ pc'[r] = "answered"
          \/ answer' = answer /\ pc'[r] = "raised"
      BY <1>b, <1>9, <2>1 DEF FinalAnswer, Conclude, Goto
    <2>. QED
      BY <1>a, <1>b, <2>2, <2>3, <2>4, AnswerKeeps
  <1>10. CASE AskForTools(r)
    <2>1. UNCHANGED <<chunks, shown, emitted>> /\ answer'[r] = answer[r]
      BY <1>b, <1>10 DEF AskForTools, Silent, Goto, callerVars
    <2>2. Stream(r)' = Stream(r)
      BY <2>1 DEF Stream
    <2>3. /\ pc[r] # "ended" /\ pc'[r] # "ended"
          /\ caller'[r] \in {"new", "reading"} /\ caller[r] \in {"new", "reading"}
          /\ Fresh(r)' => Fresh(r)
          /\ Modelled(r)' => Modelled(r) \/ Fresh(r)
          /\ pc'[r] = "streaming" => ~streamed'
      BY <1>a, <1>b, <1>10 DEF AskForTools, Silent, Goto, callerVars, turnVars, Fresh, Modelled, PC
    <2>. QED
      BY <1>a, <1>b, <2>1, <2>2, <2>3, QuietKeeps
  <1>11. CASE RunTool(r)
    <2>1. UNCHANGED <<chunks, shown, emitted>> /\ answer'[r] = answer[r]
      BY <1>b, <1>11 DEF RunTool, Silent, Goto, callerVars
    <2>2. Stream(r)' = Stream(r)
      BY <2>1 DEF Stream
    <2>3. /\ pc[r] # "ended" /\ pc'[r] # "ended"
          /\ caller'[r] \in {"new", "reading"} /\ caller[r] \in {"new", "reading"}
          /\ Fresh(r)' => Fresh(r)
          /\ Modelled(r)' => Modelled(r) \/ Fresh(r)
          /\ pc'[r] = "streaming" => ~streamed'
      BY <1>a, <1>b, <1>11 DEF RunTool, Silent, Goto, callerVars, turnVars, Fresh, Modelled, PC
    <2>. QED
      BY <1>a, <1>b, <2>1, <2>2, <2>3, QuietKeeps
  <1>12. CASE OutOfSteps(r)
    <2>1. PICK text : text = "fallback"
      OBVIOUS
    <2>2. /\ text \in Answers /\ UNCHANGED <<caller, shown>> /\ caller[r] # "new"
          /\ Modelled(r) \/ Fresh(r)
      BY <1>b, <1>12, <2>1, Texts DEF OutOfSteps, callerVars, Modelled, Fresh
    <2>3. Emit(r, text)
      BY <1>b, <1>12, <2>1 DEF OutOfSteps
    <2>4. \/ answer' = [answer EXCEPT ![r] = text] /\ pc'[r] = "answered"
          \/ answer' = answer /\ pc'[r] = "raised"
      BY <1>b, <1>12, <2>1 DEF OutOfSteps, Conclude, Goto
    <2>. QED
      BY <1>a, <1>b, <2>2, <2>3, <2>4, AnswerKeeps
  <1>13. CASE LeaveTurn(r)
    <2>1. UNCHANGED <<chunks, shown, emitted>> /\ answer'[r] = answer[r]
      BY <1>b, <1>13 DEF LeaveTurn, Goto, callerVars
    <2>2. Stream(r)' = Stream(r)
      BY <2>1 DEF Stream
    <2>3. /\ pc[r] # "ended" /\ pc'[r] # "ended"
          /\ caller'[r] \in {"new", "reading"} /\ caller[r] \in {"new", "reading"}
          /\ Fresh(r)' => Fresh(r)
          /\ Modelled(r)' => Modelled(r) \/ Fresh(r)
          /\ pc'[r] = "streaming" => ~streamed'
      BY <1>a, <1>b, <1>13 DEF LeaveTurn, Goto, callerVars, turnVars, Fresh, Modelled, PC
    <2>. QED
      BY <1>a, <1>b, <2>1, <2>2, <2>3, QuietKeeps
  <1>14. CASE ProducerEnds(r)
    BY <1>a, <1>b, <1>14, ProducerKeeps
  <1>15. CASE PlainReturns(r)
    BY <1>b, <1>15 DEF PlainReturns
  <1>16. CASE Take(r)
    BY <1>a, <1>b, <1>16, TakeKeeps
  <1>17. CASE Join(r)
    <2>1. /\ caller[r] = "joining" /\ pc' = pc /\ UNCHANGED <<chunks, shown, emitted, answer, streamed>>
          /\ caller'[r] = IF answer[r] # None THEN "got_answer" ELSE "got_error"
      BY <1>b, <1>17 DEF Join, turnVars
    <2>2. Stream(r)' = Stream(r)
      BY <2>1 DEF Stream
    <2>. QED
      BY <1>b, <2>1, <2>2 DEF StreamInv, Fresh, Modelled, Told
  <1>. QED
    BY <1>1, <1>2, <1>3, <1>4, <1>5, <1>6, <1>7, <1>8, <1>9, <1>10, <1>11, <1>12, <1>13, <1>14, <1>15, <1>16, <1>17
    DEF Acts, RunTurn, Work, ReadStream
-----------------------------------------------------------------------------
\* The theorems.
LEMMA AgentStep == AgentInv /\ [Next]_vars => AgentInv'
  <1> SUFFICES ASSUME AgentInv, [Next]_vars PROVE AgentInv'
    OBVIOUS
  <1>1. ASSUME NEW r \in Request, Acts(r) PROVE AgentInv'
    BY <1>1, TypeStep, LockStep, HistoryStep, RecordStep, OutcomeStep, PlainStep, StreamStep
    DEF AgentInv
  <1>2. CASE UNCHANGED vars
    <2> USE <1>2 DEF vars, callerVars, turnVars
    <2>1. TypeOK' /\ PlaceInv'
      BY DEF AgentInv, TypeOK, PlaceInv
    <2>2. LockInv'
      BY DEF AgentInv, LockInv, InTurn
    <2>3. HistoryInv'
      BY DEF AgentInv, HistoryInv, TurnsDoNotInterleave, Fresh, Modelled
    <2>4. RecordInv'
      BY DEF AgentInv, RecordInv, RecordedInBothHistories
    <2>5. OutcomeInv'
      BY DEF AgentInv, OutcomeInv, LastCall, Grounded, Unresolved
    <2>6. \A p \in Plain : PlainInv(p)'
      BY DEF AgentInv, PlainInv, Returned
    <2>7. ASSUME NEW p \in Streamed PROVE StreamInv(p)'
      <3>1. StreamInv(p)
        BY <2>7 DEF AgentInv
      <3>2. Stream(p)' = Stream(p) /\ Fresh(p)' = Fresh(p) /\ Modelled(p)' = Modelled(p)
        BY DEF Stream, Fresh, Modelled
      <3>3. \A f, n : Told(f, n, p)' <=> Told(f, n, p)
        BY DEF Told
      <3>4. /\ caller'[p] = caller[p] /\ pc'[p] = pc[p] /\ streamed' = streamed
            /\ emitted'[p] = emitted[p] /\ answer'[p] = answer[p]
            /\ chunks'[p] = chunks[p] /\ shown'[p] = shown[p]
        OBVIOUS
      <3>. QED
        BY <3>1, <3>2, <3>3, <3>4 DEF StreamInv
    <2>. QED
      BY <2>1, <2>2, <2>3, <2>4, <2>5, <2>6, <2>7 DEF AgentInv
  <1>. QED
    BY <1>1, <1>2, EveryStep

LEMMA AgentInvariant == Spec => []AgentInv
  BY AgentStart, AgentStep, PTL DEF Spec

\* Agent.ask and ask_stream, with any callers, tools and failures: the
\* messages of a turn stay in one piece, a stream that ended was read to its
\* end, and with the lock free the core is at rest.
THEOREM TurnsStayWhole == Spec => []TurnsAreWhole
  <1>1. AgentInv => TurnsAreWhole
    <2> SUFFICES ASSUME AgentInv PROVE TurnsAreWhole
      OBVIOUS
    <2>1. TypeOK /\ TurnsDoNotInterleave
      BY DEF AgentInv, HistoryInv
    <2>2. RestIsStandby
      BY <2>1, CallersAssumption DEF AgentInv, LockInv, RestIsStandby, TypeOK
    <2>3. ASSUME NEW r \in Request
          PROVE  /\ caller[r] = "got_answer" => shown[r] # <<>>
                 /\ Returned(r) => chunks[r] = <<>>
      <3>1. CASE r \in Plain
        BY <3>1 DEF AgentInv, PlainInv
      <3>2. CASE r \in Streamed
        <4>1. StreamInv(r) /\ shown[r] \in Seq(Answers \cup {Fragment})
          BY <2>1, <3>2 DEF AgentInv, TypeOK
        <4>2. caller[r] = "got_answer" => Len(shown[r]) > 0
          BY <4>1 DEF StreamInv, Told
        <4>. QED
          BY <4>1, <4>2 DEF StreamInv, Returned
      <3>. QED
        BY <3>1, <3>2 DEF Request
    <2>. QED
      BY <2>1, <2>2, <2>3 DEF TurnsAreWhole, NothingIsLeftUnread
  <1>. QED
    BY <1>1, AgentInvariant, PTL

\* _direct_reply and _finish: an answered turn is in the working history and
\* in SQLite, question before answer in both, whatever other turns failed.
THEOREM AnsweredTurnsAreRecorded == Spec => []RecordedInBothHistories
  <1>1. AgentInv => RecordedInBothHistories
    BY DEF AgentInv, RecordInv
  <1>. QED
    BY <1>1, AgentInvariant, PTL

\* ground_tool_failures and ask_stream: the recorded answer says what the
\* last calls of the tools did, and what a caller was shown ends with it or
\* consists of the raw pieces of the model's words, for any number of tools,
\* calls and pieces.
THEOREM AnswersStayTrue == Spec => []AnswersAreTrue
  <1>1. AgentInv => AnswersAreTrue
    <2> SUFFICES ASSUME AgentInv PROVE AnswersAreTrue
      OBVIOUS
    <2>1. ASSUME NEW r \in Request, pc[r] = "answered", answer[r] \in {"rendered", "notice"}
          PROVE  answer[r] = "notice" <=>
                     \E i \in DOMAIN toolResults : LastCall(i) /\ ~toolResults[i][2]
      <3>1. answer[r] = "notice" <=> Unresolved # {}
        BY <2>1 DEF AgentInv, OutcomeInv, Grounded
      <3>2. ASSUME NEW t \in Unresolved
            PROVE  \E i \in DOMAIN toolResults : LastCall(i) /\ ~toolResults[i][2]
        BY DEF AgentInv, OutcomeInv, Unresolved
      <3>3. ASSUME NEW i \in DOMAIN toolResults, LastCall(i), ~toolResults[i][2]
            PROVE  Unresolved # {}
        BY <3>3 DEF AgentInv, OutcomeInv, Unresolved
      <3>. QED
        BY <3>1, <3>2, <3>3
    <2>2. ASSUME NEW r \in Request, caller[r] = "got_answer"
          PROVE  /\ Told(shown[r], Len(shown[r]), r) /\ shown[r] # <<>>
                 /\ shown[r][Len(shown[r])] # answer[r] => r \in Streamed
      <3>1. shown[r] \in Seq(Answers \cup {Fragment})
        BY DEF AgentInv, TypeOK
      <3>2. CASE r \in Plain
        <4>1. PICK s : s = shown[r] /\ s = <<answer[r]>>
          BY <2>2, <3>2 DEF AgentInv, PlainInv
        <4>2. Len(s) = 1 /\ s[1] = answer[r] /\ s # <<>>
          BY <4>1
        <4>3. Told(s, 1, r)
          BY <4>2 DEF Told
        <4>. QED
          BY <4>1, <4>2, <4>3
      <3>3. CASE r \in Streamed
        <4>1. Told(shown[r], Len(shown[r]), r)
          BY <2>2, <3>3 DEF AgentInv, StreamInv
        <4>. QED
          BY <3>1, <3>3, <4>1 DEF Told
      <3>. QED
        BY <3>2, <3>3 DEF Request
    <2>3. RecordedAnswerIsGrounded
      BY <2>1 DEF RecordedAnswerIsGrounded
    <2>4. ShownIsRecordedOrRaw
      BY <2>2 DEF ShownIsRecordedOrRaw, Told
    <2>. QED
      BY <2>3, <2>4 DEF AnswersAreTrue
  <1>. QED
    BY <1>1, AgentInvariant, PTL

-----------------------------------------------------------------------------
\* The refinement of TurnService.
phases == [r \in Request |-> Phase(r)]

\* A step of r that takes its phase from one to another.
LEMMA PhaseMoves ==
    ASSUME TypeOK, NEW r \in Request, Acts(r)
    PROVE  /\ Phase(r)' = Phase(r) => phases' = phases
           /\ \A from, to : Phase(r) = from /\ Phase(r)' = to => Service!Move(r, from, to)
  <1>1. ASSUME NEW q \in Request, q # r PROVE Phase(q)' = Phase(q)
    BY <1>1, OthersStay DEF Phase, InTurn, Returned
  <1>2. phases' = [q \in Request |-> Phase(q)'] /\ phases = [q \in Request |-> Phase(q)]
    BY DEF phases
  <1>3. Phase(r)' = Phase(r) => phases' = phases
    BY <1>1, <1>2
  <1>4. ASSUME NEW from, NEW to, Phase(r) = from, Phase(r)' = to
        PROVE  phases[r] = from /\ phases' = [phases EXCEPT ![r] = to]
    BY <1>1, <1>2, <1>4
  <1>. QED
    BY <1>3, <1>4 DEF Service!Move, phases

LEMMA ServiceStep ==
    ASSUME AgentInv, NEW r \in Request, Acts(r)
    PROVE  Service!Next \/ phases' = phases
  <1>a. /\ TypeOK /\ LockInv /\ pc[r] \in PC /\ caller[r] \in Callers
        /\ (caller[r] = "new" => pc[r] = "new")
        /\ answer[r] # None => pc[r] \in {"answered", "settled", "ended"}
        /\ pc \in [Request -> PC] /\ caller \in [Request -> Callers]
        /\ answer \in [Request -> Answers \cup {None}]
    BY DEF AgentInv, PlaceInv, RecordInv, TypeOK
  <1>b. Returned(r) => pc[r] = "ended"
    BY DEF AgentInv, PlainInv, StreamInv, Returned, Request
  <1>c. Phase(r)' = Phase(r) => phases' = phases
    BY <1>a, PhaseMoves
  <1>d. \A from, to : Phase(r) = from /\ Phase(r)' = to => Service!Move(r, from, to)
    BY <1>a, PhaseMoves
  <1>1. CASE Submit(r)
    <2>1. Phase(r) = "new" /\ Phase(r)' = "pending"
      BY <1>a, <1>1 DEF Submit, Goto, Phase, InTurn, Returned, PC, Callers
    <2>. QED
      BY <1>d, <2>1 DEF Service!Next, Service!Ask
  <1>2. CASE TakeTurn(r)
    <2>a. /\ pc[r] = "at_lock" /\ pc'[r] = "begin"
          /\ caller[r] \notin {"got_answer", "got_error"} /\ caller' = caller
      BY <1>a, <1>b, <1>2 DEF TakeTurn, Goto, callerVars, Returned
    <2>b. Phase(r) = "pending"
      BY <2>a DEF Phase, InTurn, Returned
    <2>c. Phase(r)' = "serving"
      BY <2>a DEF Phase, InTurn, Returned
    <2>1. Phase(r) = "pending" /\ Phase(r)' = "serving"
      BY <2>b, <2>c
    <2>2. ASSUME NEW q \in Request PROVE phases[q] # "serving"
      <3>1. ~InTurn(q)
        BY <1>a, <1>2, CallersAssumption DEF TakeTurn, LockFree, LockInv
      <3>. QED
        BY <3>1 DEF phases, Phase, Returned
    <2>. QED
      BY <1>d, <2>1, <2>2 DEF Service!Next, Service!Serve, phases
  <1>3. CASE Begin(r)
    <2>1. Phase(r)' = Phase(r)
      BY <1>a, <1>b, <1>3 DEF Begin, Goto, callerVars, Phase, InTurn, Returned, PC, Callers
    <2>. QED
      BY <1>c, <2>1
  <1>4. CASE DirectReply(r)
    <2>1. Phase(r)' = Phase(r)
      BY <1>a, <1>b, <1>4 DEF DirectReply, Conclude, Goto, callerVars, Phase, InTurn, Returned, PC, Callers
    <2>. QED
      BY <1>c, <2>1
  <1>5. CASE Prepare(r)
    <2>1. Phase(r)' = Phase(r)
      BY <1>a, <1>b, <1>5 DEF Prepare, Goto, callerVars, Phase, InTurn, Returned, PC, Callers
    <2>. QED
      BY <1>c, <2>1
  <1>6. CASE AskModel(r)
    <2>1. Phase(r)' = Phase(r)
      BY <1>a, <1>b, <1>6 DEF AskModel, Goto, callerVars, Phase, InTurn, Returned, PC, Callers
    <2>. QED
      BY <1>c, <2>1
  <1>7. CASE Piece(r)
    <2>1. Phase(r)' = Phase(r)
      BY <1>a, <1>b, <1>7 DEF Piece, callerVars, Phase, InTurn, Returned, PC, Callers
    <2>. QED
      BY <1>c, <2>1
  <1>8. CASE ModelFails(r)
    <2>1. Phase(r)' = Phase(r)
      BY <1>a, <1>b, <1>8 DEF ModelFails, Conclude, Goto, callerVars, Phase, InTurn, Returned, PC, Callers
    <2>. QED
      BY <1>c, <2>1
  <1>9. CASE FinalAnswer(r)
    <2>1. Phase(r)' = Phase(r)
      BY <1>a, <1>b, <1>9 DEF FinalAnswer, Conclude, Goto, callerVars, Phase, InTurn, Returned, PC, Callers
    <2>. QED
      BY <1>c, <2>1
  <1>10. CASE AskForTools(r)
    <2>1. Phase(r)' = Phase(r)
      BY <1>a, <1>b, <1>10 DEF AskForTools, Goto, callerVars, Phase, InTurn, Returned, PC, Callers
    <2>. QED
      BY <1>c, <2>1
  <1>11. CASE RunTool(r)
    <2>1. Phase(r)' = Phase(r)
      BY <1>a, <1>b, <1>11 DEF RunTool, Goto, callerVars, Phase, InTurn, Returned, PC, Callers
    <2>. QED
      BY <1>c, <2>1
  <1>12. CASE OutOfSteps(r)
    <2>1. Phase(r)' = Phase(r)
      BY <1>a, <1>b, <1>12 DEF OutOfSteps, Conclude, Goto, callerVars, Phase, InTurn, Returned, PC, Callers
    <2>. QED
      BY <1>c, <2>1
  <1>13. CASE LeaveTurn(r)
    <2>1. Phase(r) = "serving" /\ Phase(r)' \in {"answered", "failed"}
      BY <1>a, <1>b, <1>13 DEF LeaveTurn, Goto, callerVars, Phase, InTurn, Returned, PC, Callers
    <2>. QED
      BY <1>d, <2>1 DEF Service!Next, Service!Settle
  <1>14. CASE ProducerEnds(r)
    <2>1. Phase(r)' = Phase(r)
      BY <1>a, <1>b, <1>14 DEF ProducerEnds, Goto, callerVars, Phase, InTurn, Returned, PC, Callers
    <2>. QED
      BY <1>c, <2>1
  <1>15. CASE PlainReturns(r)
    <2>1. \/ Phase(r) = "answered" /\ Phase(r)' = "got_answer"
          \/ Phase(r) = "failed" /\ Phase(r)' = "got_error"
      BY <1>a, <1>b, <1>15 DEF PlainReturns, Goto, Phase, InTurn, Returned, PC, Callers
    <2>. QED
      BY <1>d, <2>1 DEF Service!Next, Service!Return
  <1>16. CASE Take(r)
    <2>1. Phase(r)' = Phase(r)
      BY <1>a, <1>b, <1>16 DEF Take, callerVars, Phase, InTurn, Returned, PC, Callers
    <2>. QED
      BY <1>c, <2>1
  <1>17. CASE Join(r)
    <2>1. \/ Phase(r) = "answered" /\ Phase(r)' = "got_answer"
          \/ Phase(r) = "failed" /\ Phase(r)' = "got_error"
      BY <1>a, <1>b, <1>17 DEF Join, Phase, InTurn, Returned, PC, Callers
    <2>. QED
      BY <1>d, <2>1 DEF Service!Next, Service!Return
  <1>. QED
    BY <1>1, <1>2, <1>3, <1>4, <1>5, <1>6, <1>7, <1>8, <1>9, <1>10, <1>11, <1>12, <1>13, <1>14, <1>15, <1>16, <1>17
    DEF Acts, RunTurn, Work, ReadStream

\* The locking and the delivery of Agent implement the service its callers
\* count on, for any number of them: turns one at a time, each settled once,
\* and each caller told the outcome of its own turn.
THEOREM TurnsImplementTheService == Spec => Service!Init /\ [][Service!Next]_phases
  <1>1. Init => Service!Init
    <2> SUFFICES ASSUME Init PROVE Service!Init
      OBVIOUS
    <2>1. ASSUME NEW r \in Request PROVE Phase(r) = "new"
      <3>1. pc[r] = "new" /\ caller[r] = "new"
        BY DEF Init
      <3>. QED
        BY <3>1 DEF Phase, InTurn, Returned
    <2>. QED
      BY <2>1 DEF Service!Init
  <1>2. AgentInv /\ [Next]_vars => [Service!Next]_phases
    <2> SUFFICES ASSUME AgentInv, [Next]_vars PROVE Service!Next \/ phases' = phases
      OBVIOUS
    <2>1. ASSUME NEW r \in Request, Acts(r) PROVE Service!Next \/ phases' = phases
      BY <2>1, ServiceStep
    <2>2. CASE UNCHANGED vars
      BY <2>2 DEF vars, callerVars, phases, Phase, InTurn, Returned
    <2>. QED
      BY <2>1, <2>2, EveryStep
  <1>. QED
    BY <1>1, <1>2, AgentInvariant, PTL DEF Spec
=============================================================================

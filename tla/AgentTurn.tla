----------------------------- MODULE AgentTurn -----------------------------
(***************************************************************************)
(* One assistant turn, and the turns of concurrent callers.                *)
(*                                                                         *)
(* Agent.ask runs a turn on the caller's thread.  Agent.ask_stream starts  *)
(* a producer thread that runs the same guarded turn and hands the pieces  *)
(* of the answer to the caller through a queue, a `done' marker last.      *)
(* _turn_lock makes turns one at a time.  A turn records the user's        *)
(* message, may be answered at once by a control rule, else loops: ask the *)
(* model, run the tools it asks for, until it answers, the model fails or  *)
(* the steps run out.                                                      *)
(*                                                                         *)
(* Texts are abstracted to their kind: rendered (the model's answer as the *)
(* response engine renders and redacts it), notice (the sentence that      *)
(* replaces it when a tool failure is unresolved), error, fallback and     *)
(* direct.  A piece of a stream is none of them: it is passed on as the    *)
(* model said it, before anything is rendered.  No text is empty: the      *)
(* response engine puts a sentence in place of an empty one (it leaves an  *)
(* answer empty only when the model printed a bare tool prefix, which is   *)
(* left out).  What the                                                    *)
(* context window later drops from the working history is not modelled     *)
(* here; it never drops the newest messages.  Memory writes and reads go   *)
(* to SQLite and may raise.                                                *)
(*                                                                         *)
(* An operator named X_Fault is X with a seeded fault.  The specification  *)
(* never uses it: it shows that the properties notice the fault.           *)
(***************************************************************************)
EXTENDS Integers, Sequences, FiniteSets

CONSTANTS
    Plain,            (* requests made with ask                             *)
    Streamed,         (* requests made with ask_stream                      *)
    Tool,             (* tool names the model can call                      *)
    MaxSteps,         (* Agent.max_steps                                    *)
    MaxPieces,        (* non-empty pieces of one model answer, a bound      *)
    MaxRound,         (* tool calls in one model answer, a bound            *)
    ProviderStreams,  (* whether the provider has chat_stream               *)
    StorageFails,     (* whether the memory store may raise                 *)
    NoOne             (* the turn lock's value when nobody holds it         *)

Request == Plain \cup Streamed

ASSUME CallersAssumption == Plain \cap Streamed = {} /\ NoOne \notin Request
\* Agent.__init__ clamps max_steps to 1..32.
ASSUME StepsAssumption == MaxSteps \in 1 .. 32
ASSUME BoundsAssumption == MaxPieces \in Nat /\ MaxRound \in Nat \ {0}
ASSUME FlagsAssumption == ProviderStreams \in BOOLEAN /\ StorageFails \in BOOLEAN

VARIABLES
    turnLock,    (* Agent._turn_lock: its holder, or NoOne                  *)
    pc,          (* where the thread that runs each turn stands             *)
    caller,      (* where each request's caller stands                      *)
    state,       (* StateMachine.state                                      *)
    step,        (* model calls of the turn in progress                     *)
    round,       (* tool calls left in the round in progress                *)
    toolOutcome, (* tool_outcomes: TRUE where the tool's last call was ok    *)
    toolResults, (* turn_trace.tool_results: <<tool, success>> of each call  *)
    streamed,    (* whether the model's answer in progress had a piece       *)
    emitted,     (* whether the producer put anything in the queue           *)
    chunks,      (* the queue between the producer and its caller            *)
    shown,       (* what each caller was given                               *)
    answer,      (* the text each turn returned, or None                     *)
    history,     (* the working history: <<role, request>>                   *)
    durable,     (* the messages SQLite holds: <<role, request>>             *)
    specialist,  (* turns whose agent.started has no agent.finished or error *)
    trace        (* the status each finished request trace was given         *)

turnVars == <<step, round, toolOutcome, toolResults, streamed>>
callerVars == <<caller, shown>>
vars == <<turnLock, pc, callerVars, state, turnVars, emitted, chunks, answer,
          history, durable, specialist, trace>>

None == "none"
Done == "done"
Fragment == "piece"
Answers == {"rendered", "notice", "error", "fallback", "direct"}
States == {"standby", "listening", "thinking", "analyzing", "speaking"}
PC == {"new", "at_lock", "begin", "routed", "asking_model", "streaming",
       "tools", "answered", "raised", "settled", "ended"}
Callers == {"new", "waiting", "reading", "joining", "got_answer", "got_error"}

NoOutcome == [t \in {} |-> TRUE]

Init ==
    /\ turnLock = NoOne
    /\ pc = [r \in Request |-> "new"]
    /\ caller = [r \in Request |-> "new"]
    /\ state = "standby"
    /\ step = 0
    /\ round = 0
    /\ toolOutcome = NoOutcome
    /\ toolResults = <<>>
    /\ streamed = FALSE
    /\ emitted = [r \in Request |-> FALSE]
    /\ chunks = [r \in Request |-> <<>>]
    /\ shown = [r \in Request |-> <<>>]
    /\ answer = [r \in Request |-> None]
    /\ history = <<>>
    /\ durable = <<>>
    /\ specialist = {}
    /\ trace = [r \in Request |-> None]

Goto(r, label) == pc' = [pc EXCEPT ![r] = label]
Says(role, r) == <<role, r>>

\* chunk_callback: only a streamed turn has one.
Emit(r, text) ==
    IF r \in Streamed
    THEN /\ chunks' = [chunks EXCEPT ![r] = Append(@, text)]
         /\ emitted' = [emitted EXCEPT ![r] = TRUE]
    ELSE UNCHANGED <<chunks, emitted>>

Silent == UNCHANGED <<chunks, emitted>>

-----------------------------------------------------------------------------
(* Starting a turn.                                                        *)

\* ask waits for the lock itself; ask_stream starts its producer and reads.
Submit(r) ==
    /\ caller[r] = "new"
    /\ caller' = [caller EXCEPT ![r] = IF r \in Streamed THEN "reading" ELSE "waiting"]
    /\ Goto(r, "at_lock")
    /\ UNCHANGED <<turnLock, state, turnVars, emitted, chunks, shown, answer,
                   history, durable, specialist, trace>>

LockFree_Fault == TRUE
LockFree == turnLock = NoOne
TakeTurn(r) ==
    /\ pc[r] = "at_lock"
    /\ LockFree
    /\ turnLock' = r
    /\ Goto(r, "begin")
    /\ UNCHANGED <<callerVars, state, turnVars, emitted, chunks, answer,
                   history, durable, specialist, trace>>

\* LISTENING, then the user's message is written to memory, then the intent
\* is routed; the supervisor may hand the turn to one specialist.
Begin(r) ==
    /\ pc[r] = "begin"
    /\ state' = "listening"
    /\ \/ /\ durable' = Append(durable, Says("user", r))
          /\ Goto(r, "routed")
          /\ specialist' \in {specialist, specialist \cup {r}}
       \/ /\ StorageFails
          /\ Goto(r, "raised")
          /\ UNCHANGED <<durable, specialist>>
    /\ UNCHANGED <<turnLock, callerVars, turnVars, emitted, chunks, answer,
                   history, trace>>

-----------------------------------------------------------------------------
(* Ending a turn.                                                          *)

\* The answer is appended to the working history, then written to memory; if
\* memory raises, the turn raises with the history already extended, and in
\* the state the way out had set before.
Conclude(r, text, extended, stateBefore, status) ==
    /\ history' = Append(extended, Says("assistant", r))
    /\ \/ /\ durable' = Append(durable, Says("assistant", r))
          /\ answer' = [answer EXCEPT ![r] = text]
          /\ trace' = [trace EXCEPT ![r] = status]
          /\ state' = "standby"
          /\ Goto(r, "answered")
       \/ /\ StorageFails
          /\ state' = stateBefore
          /\ Goto(r, "raised")
          /\ UNCHANGED <<durable, answer, trace>>

\* _direct_reply: a control turn.  The user's message joins the history
\* unless the history already ends with one.
WithUser_Fault(r) == history
WithUser(r) ==
    IF history # <<>> /\ history[Len(history)][1] = "user"
    THEN history
    ELSE Append(history, Says("user", r))
DirectReply(r) ==
    /\ pc[r] = "routed"
    /\ Conclude(r, "direct", WithUser(r), state, "ok")
    /\ Silent
    /\ UNCHANGED <<turnLock, callerVars, turnVars, specialist>>

\* The context of a model turn is assembled; reading the facts for it (which
\* also marks them used) may raise.  Then the user's message joins it.
Prepare(r) ==
    /\ pc[r] = "routed"
    /\ \/ /\ history' = Append(history, Says("user", r))
          /\ step' = 0
          /\ round' = 0
          /\ toolOutcome' = NoOutcome
          /\ toolResults' = <<>>
          /\ streamed' = FALSE
          /\ Goto(r, "asking_model")
       \/ /\ StorageFails
          /\ Goto(r, "raised")
          /\ UNCHANGED <<history, turnVars>>
    /\ Silent
    /\ UNCHANGED <<turnLock, callerVars, state, answer, durable, specialist, trace>>

\* One pass of the loop begins: THINKING, and the model is called.
StepsLeft_Fault == TRUE
StepsLeft == step < MaxSteps
AskModel(r) ==
    /\ pc[r] = "asking_model"
    /\ StepsLeft
    /\ step' = step + 1
    /\ streamed' = FALSE
    /\ state' = "thinking"
    /\ Goto(r, "streaming")
    /\ Silent
    /\ UNCHANGED <<turnLock, callerVars, round, toolOutcome, toolResults, answer, history,
                   durable, specialist, trace>>

\* A raw piece of the model's answer, passed on as it arrives.
Piece(r) ==
    /\ pc[r] = "streaming"
    /\ r \in Streamed /\ ProviderStreams
    /\ Len(SelectSeq(chunks[r] \o shown[r], LAMBDA x : x = Fragment)) < MaxPieces
    /\ streamed' = TRUE
    /\ Emit(r, Fragment)
    /\ UNCHANGED <<turnLock, pc, callerVars, state, step, round, toolOutcome, toolResults,
                   answer, history, durable, specialist, trace>>

\* The model call raised: the error is answered like an answer.
ModelFails(r) ==
    /\ pc[r] = "streaming"
    /\ Emit(r, "error")
    /\ Conclude(r, "error", history, state, "error")
    /\ UNCHANGED <<turnLock, callerVars, turnVars, specialist>>

\* ground_tool_failures: a failure that no later call of the same tool
\* repaired is authoritative over the model's words, which are rendered.
Unresolved == {t \in DOMAIN toolOutcome : ~toolOutcome[t]}
Grounded == IF Unresolved = {} THEN "rendered" ELSE "notice"

\* The model answered without asking for a tool: its words are rendered and
\* that text is recorded.  When they were streamed raw, it is not sent.
FinalAnswer(r) ==
    /\ pc[r] = "streaming"
    /\ IF streamed THEN Silent ELSE Emit(r, Grounded)
    /\ Conclude(r, Grounded, history, state, "ok")
    /\ UNCHANGED <<turnLock, callerVars, turnVars, specialist>>

\* The model asked for tools: its message joins the history.
AskForTools(r) ==
    /\ pc[r] = "streaming"
    /\ round' \in 1 .. MaxRound
    /\ history' = Append(history, Says("call", r))
    /\ state' = "analyzing"
    /\ Goto(r, "tools")
    /\ Silent
    /\ UNCHANGED <<turnLock, callerVars, step, toolOutcome, toolResults, streamed, answer,
                   durable, specialist, trace>>

\* One tool call: dispatch never raises, its result replaces an earlier one
\* of the same tool.
Learned_Fault(t, ok) ==
    [u \in DOMAIN toolOutcome \cup {t} |->
        IF u \in DOMAIN toolOutcome THEN toolOutcome[u] ELSE ok]
Learned(t, ok) ==
    [u \in DOMAIN toolOutcome \cup {t} |-> IF u = t THEN ok ELSE toolOutcome[u]]
RunTool(r) ==
    /\ pc[r] = "tools"
    /\ \E t \in Tool, ok \in BOOLEAN :
        /\ toolOutcome' = Learned(t, ok)
        /\ toolResults' = Append(toolResults, <<t, ok>>)
    /\ round' = round - 1
    /\ history' = Append(history, Says("tool", r))
    /\ Goto(r, IF round = 1 THEN "asking_model" ELSE "tools")
    /\ Silent
    /\ UNCHANGED <<turnLock, callerVars, state, step, streamed, answer, durable,
                   specialist, trace>>

\* Safety valve: the steps are used up.
OutOfSteps(r) ==
    /\ pc[r] = "asking_model"
    /\ step = MaxSteps
    /\ Emit(r, "fallback")
    /\ Conclude(r, "fallback", history, "standby", "incomplete")
    /\ UNCHANGED <<turnLock, callerVars, turnVars, specialist>>

\* _execute_turn's way out, normal or by exception: the specialist's end is
\* published, a state that is not STANDBY is recovered, the lock released.  The
\* turn's locals are gone.
SpecialistsLeft_Fault(r) == IF pc[r] = "raised" THEN specialist ELSE specialist \ {r}
SpecialistsLeft(r) == specialist \ {r}
LeaveTurn(r) ==
    /\ pc[r] \in {"answered", "raised"}
    /\ specialist' = SpecialistsLeft(r)
    /\ state' = "standby"
    /\ turnLock' = NoOne
    /\ step' = 0 /\ round' = 0 /\ streamed' = FALSE
    /\ toolOutcome' = NoOutcome /\ toolResults' = <<>>
    /\ Goto(r, "settled")
    /\ UNCHANGED <<callerVars, emitted, chunks, answer, history,
                   durable, trace>>

-----------------------------------------------------------------------------
(* Delivery.                                                               *)

\* The producer's last puts: an answer nothing of which was emitted, then
\* the marker.  A plain call has no producer.
LastPut_Fault(r) == IF answer[r] = None THEN <<>> ELSE <<Done>>
LastPutTwice_Fault(r) == IF answer[r] # None THEN <<answer[r], Done>> ELSE <<Done>>
LastPut(r) ==
    IF answer[r] # None /\ ~emitted[r] THEN <<answer[r], Done>> ELSE <<Done>>
ProducerEnds(r) ==
    /\ r \in Streamed
    /\ pc[r] = "settled"
    /\ chunks' = [chunks EXCEPT ![r] = @ \o LastPut(r)]
    /\ Goto(r, "ended")
    /\ UNCHANGED <<turnLock, callerVars, state, turnVars, emitted, answer,
                   history, durable, specialist, trace>>

\* ask returns the answer or raises.
PlainReturns(r) ==
    /\ r \in Plain
    /\ pc[r] = "settled"
    /\ Goto(r, "ended")
    /\ IF answer[r] # None
       THEN /\ shown' = [shown EXCEPT ![r] = <<answer[r]>>]
            /\ caller' = [caller EXCEPT ![r] = "got_answer"]
       ELSE /\ caller' = [caller EXCEPT ![r] = "got_error"]
            /\ UNCHANGED shown
    /\ UNCHANGED <<turnLock, state, turnVars, emitted, chunks, answer, history,
                   durable, specialist, trace>>

\* The caller takes the next item; the marker ends the reading.
Take(r) ==
    /\ caller[r] = "reading"
    /\ chunks[r] # <<>>
    /\ chunks' = [chunks EXCEPT ![r] = Tail(@)]
    /\ IF Head(chunks[r]) = Done
       THEN /\ caller' = [caller EXCEPT ![r] = "joining"]
            /\ UNCHANGED shown
       ELSE /\ shown' = [shown EXCEPT ![r] = Append(@, Head(chunks[r]))]
            /\ UNCHANGED caller
    /\ UNCHANGED <<turnLock, pc, state, turnVars, emitted, answer, history,
                   durable, specialist, trace>>

\* producer.join() returns, and an error of the producer is raised here.
Join(r) ==
    /\ caller[r] = "joining"
    /\ pc[r] = "ended"
    /\ caller' = [caller EXCEPT ![r] =
                    IF answer[r] # None THEN "got_answer" ELSE "got_error"]
    /\ UNCHANGED <<turnLock, pc, state, turnVars, emitted, chunks, shown,
                   answer, history, durable, specialist, trace>>

-----------------------------------------------------------------------------
Work(r) ==
    \/ Begin(r) \/ DirectReply(r) \/ Prepare(r) \/ AskModel(r) \/ Piece(r)
    \/ ModelFails(r) \/ FinalAnswer(r) \/ AskForTools(r) \/ RunTool(r)
    \/ OutOfSteps(r) \/ LeaveTurn(r)

\* The thread that runs the turn, and the caller that reads its stream.
RunTurn(r) == TakeTurn(r) \/ Work(r) \/ ProducerEnds(r) \/ PlainReturns(r)
ReadStream(r) == Take(r) \/ Join(r)

Returned(r) == caller[r] \in {"got_answer", "got_error"}
AllReturned == \A r \in Request : Returned(r)
Idle == AllReturned /\ UNCHANGED vars

Next == (\E r \in Request : Submit(r) \/ RunTurn(r) \/ ReadStream(r)) \/ Idle

\* Both threads keep running: model calls time out, the lock is released on
\* every way out, tools return.  Nothing forces a request to be made.
Spec ==
    /\ Init
    /\ [][Next]_vars
    /\ \A r \in Request : WF_vars(RunTurn(r)) /\ WF_vars(ReadStream(r))

-----------------------------------------------------------------------------
(* Properties.                                                             *)

InTurn(r) == pc[r] \in {"begin", "routed", "asking_model", "streaming",
                        "tools", "answered", "raised"}

\* Every variable keeps its type; a turn never exceeds its steps.
TypeOK ==
    /\ turnLock \in Request \cup {NoOne}
    /\ pc \in [Request -> PC]
    /\ caller \in [Request -> Callers]
    /\ state \in States
    /\ step \in 0 .. MaxSteps
    /\ round \in 0 .. MaxRound
    /\ DOMAIN toolOutcome \subseteq Tool /\ toolOutcome \in [DOMAIN toolOutcome -> BOOLEAN]
    /\ toolResults \in Seq(Tool \X BOOLEAN)
    /\ streamed \in BOOLEAN
    /\ emitted \in [Request -> BOOLEAN]
    /\ chunks \in [Request -> Seq(Answers \cup {Fragment, Done})]
    /\ shown \in [Request -> Seq(Answers \cup {Fragment})]
    /\ answer \in [Request -> Answers \cup {None}]
    /\ history \in Seq({"user", "call", "tool", "assistant"} \X Request)
    /\ durable \in Seq({"user", "assistant"} \X Request)
    /\ specialist \subseteq Request
    /\ trace \in [Request -> {None, "ok", "error", "incomplete"}]

\* "Ayni Agent uzerinde eszamanli iki tur konusma gecmisini ic ice
\* gecirebiliyordu": the messages of one turn are contiguous in the working
\* history, an answer comes after its own question, and nothing answers
\* twice, with any number of callers and any failure.
TurnsDoNotInterleave ==
    /\ \A i, k \in DOMAIN history :
        history[i][2] = history[k][2] =>
            \A j \in i .. k : history[j][2] = history[k][2]
    /\ \A j \in DOMAIN history :
        history[j][1] = "assistant" =>
            /\ \E i \in 1 .. j - 1 : history[i] = Says("user", history[j][2])
            /\ \A i \in 1 .. j - 1 : history[i] # history[j]

\* _direct_reply's "keep the two histories symmetrical", for every way a turn
\* can be answered: an answered turn is in the working history and in SQLite,
\* question before answer in both.
RecordedInBothHistories ==
    \A r \in Request : answer[r] # None =>
        \A h \in {history, durable} :
            \E i, j \in DOMAIN h :
                i < j /\ h[i] = Says("user", r) /\ h[j] = Says("assistant", r)

\* "Tur hangi beklenmeyen istisnayla biterse bitsin merkezi state STANDBY
\* durumuna geri alinir": when no turn holds the lock the core is in STANDBY
\* and no specialist is left started without an end.
RestIsStandby ==
    turnLock = NoOne => state = "standby" /\ specialist = {}

\* ground_tool_failures: the answer that is RECORDED never claims success
\* over a tool failure that no later call of that tool in the turn repaired,
\* and never reports a failure that a retry repaired.
LastCall(i) == \A j \in i + 1 .. Len(toolResults) : toolResults[j][1] # toolResults[i][1]
RecordedAnswerIsGrounded ==
    \A r \in Request : pc[r] = "answered" /\ answer[r] \in {"rendered", "notice"} =>
        (answer[r] = "notice" <=>
            \E i \in DOMAIN toolResults : LastCall(i) /\ ~toolResults[i][2])

\* A caller that was given an answer was shown something, and nothing that
\* came after the marker is lost: a stream that ended is empty.
NothingIsLeftUnread ==
    \A r \in Request :
        /\ caller[r] = "got_answer" => shown[r] # <<>>
        /\ Returned(r) => chunks[r] = <<>>

\* ask_stream's promise to its caller.  Every caller that got an answer was
\* shown the text that is recorded, once and last, after any raw pieces that
\* came before it.  The one exception is the model's own last words when they
\* were streamed: then the caller saw their raw pieces and nothing else, be
\* the record their rendering or the notice that overrides them.  An error, a
\* fallback and a direct answer are shown whatever was streamed before.
ShownIsRecordedOrRaw ==
    \A r \in Request : caller[r] = "got_answer" =>
        LET last == shown[r][Len(shown[r])]
        IN  /\ shown[r] # <<>>
            /\ \A i \in 1 .. Len(shown[r]) - 1 : shown[r][i] = Fragment
            /\ last # answer[r] =>
                  last = Fragment /\ r \in Streamed /\ answer[r] \in {"rendered", "notice"}

\* ground_tool_failures' "authoritative over model prose", for the caller:
\* when the recorded answer is the failure notice, the caller saw the notice.
NoticeReachesTheCaller ==
    \A r \in Request :
        caller[r] = "got_answer" /\ answer[r] = "notice" =>
            \E i \in DOMAIN shown[r] : shown[r][i] = "notice"

\* The turn as its callers see it.
Phase(r) ==
    CASE pc[r] = "new" -> "new"
      [] pc[r] = "at_lock" -> "pending"
      [] InTurn(r) -> "serving"
      [] Returned(r) -> caller[r]
      [] OTHER -> IF answer[r] # None THEN "answered" ELSE "failed"
Service == INSTANCE TurnService WITH phase <- [r \in Request |-> Phase(r)]

\* The detailed turn implements TurnService: one turn at a time, settled
\* once, always settled, and each caller learns the outcome of its own turn.
ImplementsService == Service!Spec

\* What is left of a turn, whatever failed in it: its messages in one piece,
\* a stream read to its end, and the core at rest.
TurnsAreWhole ==
    /\ TypeOK
    /\ TurnsDoNotInterleave
    /\ NothingIsLeftUnread
    /\ RestIsStandby

\* What is recorded is true of the tools, and what is shown is what is
\* recorded or the raw pieces of it.
AnswersAreTrue == RecordedAnswerIsGrounded /\ ShownIsRecordedOrRaw
=============================================================================

-------------------------- MODULE ModelPathProofs ---------------------------
(***************************************************************************)
(* Theorems about the way from a sentence to a spoken answer: the router   *)
(* to the models for any retry budget and any cooldown, the client's       *)
(* streams, the window of the conversation, the routing of a turn, the     *)
(* long-term memory and the speech output.                                 *)
(*                                                                         *)
(* FallbackProvider first. That one source gives an answer is inductive    *)
(* with what has been received in each phase, the budget with the number   *)
(* of requests, the breaker with the age of the failure it remembers.      *)
(***************************************************************************)
EXTENDS FallbackProvider, ModelStream, ContextWindow, TurnRouting,
        FactMemory, SpeechOutput, ListFacts, SequenceTheorems, TLAPS

AllFrom(source) == \A i \in DOMAIN received : received[i] = source
SourceInv ==
    /\ phase \in {"primary", "deciding"} => received = <<>>
    /\ phase = "requested" => AllFrom(attempt) /\ (~emitted => received = <<>>)
    /\ phase = "fallback" => AllFrom(Fallback)
    /\ OneSource
BudgetInv ==
    /\ phase = "primary" => requests = attempt
    /\ phase \in {"requested", "deciding"} => requests = attempt + 1
    /\ phase \in {"primary", "requested", "deciding"} => ~fallbackUsed
    /\ phase = "deciding" =>
        lastError \notin ServerDown /\ (lastError \in Retryable => attempt = MaxRetries)
    /\ FallbackIsLastResort
BreakerInv ==
    /\ phase \in {"primary", "requested"} => circuit = Closed
    /\ circuit = Closed => deadFor = Cooldown
    /\ circuit # Closed => circuit = deadFor
\* TypeOK in two parts: the flags, and all the rest.
Flags == streaming \in BOOLEAN /\ emitted \in BOOLEAN /\ fallbackUsed \in BOOLEAN
Counters ==
    /\ circuit \in Ages /\ phase \in Phases
    /\ attempt \in 0 .. MaxRetries /\ lastError \in ErrorType \cup {None}
    /\ retryCount \in 0 .. MaxRetries /\ requests \in 0 .. MaxRetries + 1
    /\ deadFor \in 0 .. Cooldown /\ received \in Seq(Sources)
RouterInv == Flags /\ Counters /\ SourceInv /\ BudgetInv /\ BreakerInv

LEMMA AppendFrom ==
    ASSUME NEW S, NEW q \in Seq(S), NEW x, NEW i \in DOMAIN Append(q, x)
    PROVE  (i \in DOMAIN q /\ Append(q, x)[i] = q[i]) \/ Append(q, x)[i] = x
  OBVIOUS

LEMMA RouterInit == Init => RouterInv
  <1> SUFFICES ASSUME Init PROVE RouterInv
    OBVIOUS
  <1> USE RetriesAssumption, CooldownAssumption DEF Init
  <1>1. Flags
    BY DEF Flags
  <1>2. Counters
    BY DEF Counters, Ages, Phases, None
  <1>3. SourceInv
    BY DEF SourceInv, OneSource
  <1>4. BudgetInv /\ BreakerInv
    BY DEF BudgetInv, FallbackIsLastResort, BreakerInv, Closed
  <1>. QED
    BY <1>1, <1>2, <1>3, <1>4 DEF RouterInv

LEMMA FlagsStep == Flags /\ [Next]_vars => Flags'
  <1> SUFFICES ASSUME Flags, [Next]_vars PROVE Flags'
    OBVIOUS
  <1> USE DEF Flags
  <1>1. CASE Tick \/ FallbackFails \/ OtherError
    BY <1>1 DEF Tick, FallbackFails, OtherError, callVars
  <1>2. CASE Call
    BY <1>2 DEF Call, Forgotten
  <1>3. CASE Request
    BY <1>3 DEF Request
  <1>4. CASE Piece
    BY <1>4 DEF Piece
  <1>5. CASE PrimaryAnswers \/ FallbackAnswers
    BY <1>5 DEF PrimaryAnswers, FallbackAnswers
  <1>6. ASSUME NEW kind \in ErrorType, PrimaryFails(kind) PROVE Flags'
    BY <1>6 DEF PrimaryFails
  <1>7. CASE GiveUpPrimary
    BY <1>7 DEF GiveUpPrimary, MayFallBack
  <1>8. CASE UNCHANGED vars
    BY <1>8 DEF vars
  <1>. QED
    BY <1>1, <1>2, <1>3, <1>4, <1>5, <1>6, <1>7, <1>8 DEF Next, Respond

LEMMA RouterStep == RouterInv /\ [Next]_vars => RouterInv'
  <1> SUFFICES ASSUME RouterInv, [Next]_vars
               PROVE  Counters' /\ SourceInv' /\ BudgetInv' /\ BreakerInv'
    BY FlagsStep DEF RouterInv
  <1> USE RetriesAssumption, CooldownAssumption
      DEF RouterInv, Counters, SourceInv, OneSource, AllFrom, BudgetInv,
          FallbackIsLastResort, BreakerInv, Phases, None,
          ErrorType, Retryable, FallbackAllowed, ServerDown
  <1> DEFINE Goal == Counters' /\ SourceInv' /\ BudgetInv' /\ BreakerInv'
  <1>1. CASE Tick
    <2>1. /\ deadFor' \in 0 .. Cooldown
          /\ circuit = Closed => circuit' = Closed /\ deadFor' = Cooldown
          /\ circuit # Closed => circuit' \in 0 .. Cooldown /\ circuit' = deadFor'
      BY <1>1 DEF Tick, Older, Ages
    <2>2. circuit' \in Ages
      BY <2>1 DEF Ages
    <2>3. UNCHANGED <<phase, callVars>>
      BY <1>1 DEF Tick
    <2>4. BreakerInv'
      BY <2>1, <2>3 DEF Closed
    <2>5. SourceInv'
      BY <2>3 DEF callVars
    <2>6. BudgetInv'
      BY <2>3 DEF callVars
    <2>7. Counters'
      BY <2>1, <2>2, <2>3 DEF callVars
    <2>. QED
      BY <2>4, <2>5, <2>6, <2>7
  <1>2. CASE Call
    <2>1. BreakerInv'
      BY <1>2 DEF Call, CircuitOpen, Closed, Ages
    <2>2. SourceInv' /\ BudgetInv'
      BY <1>2 DEF Call, Forgotten
    <2>3. circuit' \in Ages /\ received' \in Seq(Sources)
      BY <1>2 DEF Call, Ages
    <2>. QED
      BY <1>2, <2>1, <2>2, <2>3 DEF Call
  <1>3. CASE Request
    <2>1. requests' = attempt + 1 /\ requests' \in 0 .. MaxRetries + 1
      BY <1>3 DEF Request
    <2>2. SourceInv'
      BY <1>3 DEF Request
    <2>. QED
      BY <1>3, <2>1, <2>2 DEF Request
  <1>4. CASE Piece
    <2>1. Source \in Sources /\ AllFrom(Source)
      BY <1>4 DEF Piece, Source, Sources, Fallback
    <2>2. received' = Append(received, Source) /\ phase' = phase /\ attempt' = attempt
      BY <1>4 DEF Piece
    <2>3. received' \in Seq(Sources)
      BY <2>1, <2>2
    <2>4. \A i \in DOMAIN received' : received'[i] = Source
      BY <2>1, <2>2, AppendFrom
    <2>5. emitted' = (phase = "requested" \/ emitted) /\ phase \in {"requested", "fallback"}
      BY <1>4 DEF Piece
    <2>6. SourceInv'
      BY <2>2, <2>4, <2>5 DEF Source
    <2>. QED
      BY <1>4, <2>2, <2>3, <2>6 DEF Piece
  <1>5. CASE PrimaryAnswers \/ FallbackAnswers
    <2>1. Source \in Sources /\ AllFrom(Source)
      BY <1>5 DEF PrimaryAnswers, FallbackAnswers, Source, Sources, Fallback
    <2>2. Delivered \in Seq(Sources)
          /\ \A i \in DOMAIN Delivered : Delivered[i] = Source
      BY <2>1 DEF Delivered
    <2>3. received' = Delivered /\ phase' = "answered"
      BY <1>5 DEF PrimaryAnswers, FallbackAnswers
    <2>4. SourceInv'
      BY <2>2, <2>3
    <2>. QED
      BY <1>5, <2>2, <2>3, <2>4 DEF PrimaryAnswers, FallbackAnswers
  <1>6. ASSUME NEW kind \in ErrorType, PrimaryFails(kind) PROVE Goal
    <2>1. received' = received /\ emitted' = emitted /\ requests' = requests
          /\ fallbackUsed' = fallbackUsed /\ retryCount' = retryCount
          /\ phase = "requested"
      BY <1>6 DEF PrimaryFails
    <2>2. CASE emitted
      BY <1>6, <2>1, <2>2 DEF PrimaryFails, Surfaces
    <2>3. CASE ~emitted
      <3>1. /\ lastError' = kind /\ circuit' = Opened(kind) /\ circuit = Closed
            /\ deadFor' = IF kind \in ServerDown THEN 0 ELSE deadFor
            /\ received = <<>>
        BY <1>6, <2>1, <2>3 DEF PrimaryFails, Surfaces
      <3>2. CASE kind \in ServerDown /\ phase' = "failed" /\ UNCHANGED attempt
        BY <2>1, <3>1, <3>2 DEF Opened, Ages, Closed
      <3>3. CASE TriesAgain(kind) /\ phase' = "primary" /\ attempt' = attempt + 1
        BY <2>1, <3>1, <3>3 DEF TriesAgain, Opened
      <3>4. CASE /\ kind \notin ServerDown /\ ~TriesAgain(kind)
                 /\ phase' = "deciding" /\ UNCHANGED attempt
        BY <2>1, <3>1, <3>4 DEF TriesAgain, Opened
      <3>. QED
        BY <1>6, <2>3, <3>2, <3>3, <3>4 DEF PrimaryFails, Surfaces, NextAttempt
    <2>. QED
      BY <2>2, <2>3
  <1>7. CASE GiveUpPrimary
    <2>1. /\ phase = "deciding" /\ circuit' = circuit /\ deadFor' = deadFor
          /\ attempt' = attempt /\ lastError' = lastError /\ requests' = requests
          /\ received' = received /\ retryCount' \in 0 .. MaxRetries
          /\ phase' = IF MayFallBack THEN "fallback" ELSE "failed"
          /\ fallbackUsed' = MayFallBack
      BY <1>7 DEF GiveUpPrimary
    <2>2. Counters' /\ BreakerInv'
      BY <2>1
    <2>3. SourceInv'
      BY <2>1
    <2>4. BudgetInv'
      BY <2>1 DEF MayFallBack
    <2>. QED
      BY <2>2, <2>3, <2>4
  <1>8. CASE FallbackFails \/ OtherError
    <2>1. /\ phase' = "failed" /\ circuit' = circuit /\ deadFor' = deadFor
          /\ attempt' = attempt /\ lastError' = lastError
          /\ retryCount' = retryCount /\ requests' = requests
          /\ received' = received
      BY <1>8 DEF FallbackFails, OtherError, callVars
    <2>2. fallbackUsed' = fallbackUsed
      BY <1>8 DEF FallbackFails, OtherError, callVars
    <2>3. Counters' /\ SourceInv' /\ BreakerInv'
      BY <2>1
    <2>4. BudgetInv'
      BY <2>1, <2>2
    <2>. QED
      BY <2>3, <2>4
  <1>9. CASE UNCHANGED vars
    BY <1>9 DEF vars
  <1>. QED
    BY <1>1, <1>2, <1>3, <1>4, <1>5, <1>6, <1>7, <1>8, <1>9 DEF Next, Respond

LEMMA RouterInvariant == Spec => []RouterInv
  BY RouterInit, RouterStep, PTL DEF Spec

\* TypeOK, for any budget: among others, the retry budget is never exceeded.
THEOREM RouterTypeCorrect == Spec => []TypeOK
  <1>1. RouterInv => TypeOK
    BY DEF RouterInv, Flags, Counters, TypeOK
  <1>. QED
    BY <1>1, RouterInvariant, PTL

\* chat_stream never mixes two attempts or two models in one answer.
THEOREM AnswersHaveOneSource == Spec => []OneSource
  <1>1. RouterInv => OneSource
    BY DEF RouterInv, SourceInv
  <1>. QED
    BY <1>1, RouterInvariant, PTL

\* chat and chat_stream reach the fallback only by an error that allows it
\* and with the retries spent.
THEOREM FallbackComesLast == Spec => []FallbackIsLastResort
  <1>1. RouterInv => FallbackIsLastResort
    BY DEF RouterInv, BudgetInv
  <1>. QED
    BY <1>1, RouterInvariant, PTL

\* circuit_open: no request is sent to the primary within the cooldown of
\* its server being found dead.
THEOREM BreakerHolds == Spec => DeadServerIsLeftAlone
  <1>1. RouterInv /\ [Next]_vars => [requests' > requests => deadFor = Cooldown]_vars
    <2> SUFFICES ASSUME RouterInv, Next, requests' > requests PROVE deadFor = Cooldown
      BY DEF vars
    <2>1. requests \in Nat
      BY RetriesAssumption DEF RouterInv, Counters
    <2>2. phase = "primary"
      BY <2>1 DEF Next, Tick, Call, Request, Piece, Respond, PrimaryAnswers,
                  OtherError, PrimaryFails, GiveUpPrimary, FallbackAnswers,
                  FallbackFails, callVars
    <2>. QED
      BY <2>2 DEF RouterInv, BreakerInv
  <1>. QED
    BY <1>1, RouterInvariant, PTL DEF Spec, DeadServerIsLeftAlone

\* What the trace reads after a call: the fallback's pieces are told from an
\* attempt's, and an answer's attempt is the number of its retries.
ReportInv ==
    /\ phase = "fallback" => fallbackUsed
    /\ ReportedSource

LEMMA ReportStep == RouterInv /\ ReportInv /\ [Next]_vars => ReportInv'
  <1> SUFFICES ASSUME RouterInv, ReportInv, [Next]_vars PROVE ReportInv'
    OBVIOUS
  <1> USE RetriesAssumption DEF ReportInv, ReportedSource
  <1>1. CASE Tick \/ UNCHANGED vars
    BY <1>1 DEF Tick, vars, callVars
  <1>2. CASE Call \/ Request
    BY <1>2 DEF Call, Request
  <1>3. CASE Piece
    BY <1>3 DEF Piece
  <1>4. ASSUME PrimaryAnswers \/ FallbackAnswers PROVE ReportInv'
    <2>1. Source \in Sources /\ AllFrom(Source)
      BY <1>4 DEF PrimaryAnswers, FallbackAnswers, Source, Sources, Fallback, RouterInv,
                  Counters, SourceInv, AllFrom
    <2>2. \A i \in DOMAIN received' : received'[i] = Source
      BY <1>4, <2>1 DEF PrimaryAnswers, FallbackAnswers, Delivered, AllFrom
    <2>3. CASE PrimaryAnswers
      <3>1. /\ ~fallbackUsed' /\ Source = attempt /\ attempt \in 0 .. MaxRetries
            /\ retryCount' = attempt /\ requests' = attempt + 1 /\ phase' = "answered"
        BY <2>3 DEF PrimaryAnswers, Source, RouterInv, BudgetInv, Counters
      <3>. QED
        BY <2>2, <3>1 DEF Fallback
    <2>4. CASE FallbackAnswers
      BY <2>2, <2>4 DEF FallbackAnswers, Source
    <2>. QED
      BY <1>4, <2>3, <2>4
  <1>5. CASE FallbackFails \/ OtherError
    BY <1>5 DEF FallbackFails, OtherError, callVars
  <1>6. ASSUME NEW kind \in ErrorType, PrimaryFails(kind) PROVE ReportInv'
    BY <1>6 DEF PrimaryFails
  <1>7. CASE GiveUpPrimary
    BY <1>7 DEF GiveUpPrimary, MayFallBack
  <1>. QED
    BY <1>1, <1>2, <1>3, <1>4, <1>5, <1>6, <1>7 DEF Next, Respond

\* chat and chat_stream as a whole: one model answers, the one that the
\* policy allows, and fallback_used and retry_count tell which it was.
THEOREM AnswersAreSoundAndReported == Spec => []AnswersAreSound
  <1>1. Init => ReportInv
    BY DEF Init, ReportInv, ReportedSource
  <1>2. RouterInv /\ ReportInv /\ [Next]_vars => ReportInv'
    BY ReportStep
  <1>3. ReportInv => ReportedSource
    BY DEF ReportInv
  <1>4. AnswersAreSound <=> TypeOK /\ OneSource /\ FallbackIsLastResort /\ ReportedSource
    BY DEF AnswersAreSound
  <1>. QED
    BY <1>1, <1>2, <1>3, <1>4, RouterInvariant, RouterTypeCorrect, AnswersHaveOneSource,
       FallbackComesLast, PTL DEF Spec

-----------------------------------------------------------------------------
(***************************************************************************)
(* ModelStream. StreamsAreTheirOwn is inductive with the state of a stream *)
(* under way: the caller has the text that was read, and the result and    *)
(* the failure of the stream before are gone.                              *)
(***************************************************************************)

CallNumbers == Seq(1 .. MaxCalls)
Failures == {"timeout", "server_unavailable", "model_missing", "model_oom",
             "invalid_argument", "provider_failure"}

StreamTypes ==
    /\ level \in {0, 1, 4}
    /\ link \in {"idle", "plain", "stream"}
    /\ calls \in 0 .. MaxCalls /\ lines \in 0 .. MaxLines /\ usage \in 0 .. MaxCalls
    /\ text \in CallNumbers /\ tools \in CallNumbers /\ yielded \in CallNumbers
    /\ result \in [text : CallNumbers, tools : CallNumbers]
    /\ raised \in {NoFailure, "untyped", "dropped"} \cup {e.kind : e \in ProviderErrors}

SwitchTypes == baseThink \in BOOLEAN /\ think \in BOOLEAN /\ sentThink \in BOOLEAN

\* While a stream is read, the caller has the text that was read and the
\* result of the stream before is gone.
NothingLeftWhileReading ==
    /\ link # "idle" => calls >= 1
    /\ link = "stream" => result = EmptyResult /\ text = yielded /\ raised = NoFailure

StreamInv ==
    /\ StreamTypes /\ SwitchTypes
    /\ think => baseThink
    /\ sentThink => baseThink
    /\ NothingLeftWhileReading

LEMMA ErrorKinds == \A e \in ProviderErrors : e.kind \in Failures
  BY DEF ProviderErrors, HttpErrors, HttpError, ConnectionError, Failures

LEMMA StreamInitInv == StreamInit => StreamInv
  <1>. SUFFICES ASSUME StreamInit PROVE StreamInv
    OBVIOUS
  <1>1. <<>> \in CallNumbers
    BY DEF CallNumbers
  <1>2. SwitchTypes /\ (think => baseThink) /\ (sentThink => baseThink)
    BY Zenon DEF StreamInit, SwitchTypes
  <1>3. StreamTypes
    BY <1>1, StreamAssumption DEF StreamInit, StreamTypes, EmptyResult, NoUsage
  <1>. QED
    BY <1>2, <1>3 DEF StreamInit, StreamInv, NothingLeftWhileReading

LEMMA SwitchStep ==
    ASSUME SwitchTypes, think => baseThink, sentThink => baseThink,
           UNCHANGED baseThink,
           UNCHANGED <<think, sentThink>>
             \/ (\E l \in {0, 1, 4} : ApplyReasoning(l))
             \/ (sentThink' = think /\ UNCHANGED think)
    PROVE  /\ SwitchTypes' /\ (think => baseThink)' /\ (sentThink => baseThink)'
  <1>1. CASE UNCHANGED <<think, sentThink>>
    BY <1>1, Zenon DEF SwitchTypes
  <1>2. CASE sentThink' = think /\ UNCHANGED think
    BY <1>2, Zenon DEF SwitchTypes
  <1>3. ASSUME NEW l \in {0, 1, 4}, ApplyReasoning(l)
        PROVE  /\ SwitchTypes' /\ (think => baseThink)' /\ (sentThink => baseThink)'
    <2>1. think' = Thinking(l) /\ UNCHANGED sentThink
      BY <1>3, Zenon DEF ApplyReasoning
    <2>2. ProfileThinks(l) \in BOOLEAN
      BY DEF ProfileThinks
    <2>3. think' \in {baseThink, baseThink /\ ProfileThinks(l)}
      BY <2>1 DEF Thinking
    <2>4. think' \in BOOLEAN /\ (think' => baseThink)
      BY <2>2, <2>3, Zenon DEF SwitchTypes
    <2>. QED
      BY <2>1, <2>4, Zenon DEF SwitchTypes
  <1>. QED
    BY <1>1, <1>2, <1>3

\* What a step leaves of the types, and of what is read.
Read == StreamTypes /\ NothingLeftWhileReading

LEMMA StreamStepInv == StreamInv /\ [StreamNext]_streamVars => StreamInv'
  <1>. SUFFICES ASSUME StreamInv, [StreamNext]_streamVars PROVE StreamInv'
    OBVIOUS
  <1>t. Read /\ StreamTypes /\ NothingLeftWhileReading
    BY DEF StreamInv, Read
  <1>s. MaxCalls \in Nat /\ MaxLines \in Nat
    BY StreamAssumption
  <1>1. ASSUME NEW l \in {0, 1, 4}, ApplyReasoning(l) PROVE Read'
    <2>. UNCHANGED <<baseThink, link, sentThink, calls, answerVars, result, usage, raised>> /\ level' = l
      BY <1>1, Zenon DEF ApplyReasoning
    <2>. QED
      BY <1>t DEF Read, StreamTypes, NothingLeftWhileReading, answerVars
  <1>2. ASSUME NEW streamed \in BOOLEAN, Ask(streamed) PROVE Read'
    <2>1. /\ calls' = calls + 1 /\ calls < MaxCalls /\ lines' = 0
          /\ text' = <<>> /\ tools' = <<>> /\ yielded' = <<>> /\ raised' = NoFailure
          /\ UNCHANGED settings
      BY <1>2 DEF Ask
    <2>2. /\ link' \in {"plain", "stream"} /\ (link' = "stream" => streamed)
          /\ result' \in {EmptyResult, result} /\ usage' \in {NoUsage, usage}
          /\ streamed => result' = EmptyResult
      BY <1>2 DEF Ask, Forgets
    <2>3. <<>> \in CallNumbers
      BY DEF CallNumbers
    <2>4. EmptyResult \in [text : CallNumbers, tools : CallNumbers]
      BY <2>3 DEF EmptyResult
    <2>5. StreamTypes'
      BY <1>t, <1>s, <2>1, <2>2, <2>3, <2>4 DEF StreamTypes, settings, NoUsage
    <2>6. NothingLeftWhileReading'
      BY <1>t, <1>s, <2>1, <2>2 DEF StreamTypes, NothingLeftWhileReading
    <2>. QED
      BY <2>5, <2>6 DEF Read
  <1>3. ASSUME NEW line \in StreamLines, Line(line) PROVE Read'
    <2>. UNCHANGED <<settings, link, sentThink, calls, result, usage, raised>>
      BY <1>3 DEF Line
    <2>1. /\ link = "stream" /\ lines' = lines + 1 /\ lines < MaxLines
          /\ text' \in {text, Append(text, calls)} /\ tools' \in {tools, Append(tools, calls)}
          /\ yielded' = IF HasPiece(line) THEN Append(yielded, calls) ELSE yielded
          /\ text' = IF HasPiece(line) THEN Append(text, calls) ELSE text
      BY <1>3 DEF Line
    <2>2. calls \in 1 .. MaxCalls
      BY <1>t, <1>s, <2>1 DEF StreamTypes, NothingLeftWhileReading
    <2>3. text' \in CallNumbers /\ tools' \in CallNumbers /\ yielded' \in CallNumbers
      <3>1. text \in CallNumbers /\ tools \in CallNumbers /\ yielded \in CallNumbers
        BY <1>t DEF StreamTypes
      <3>2. \A s \in CallNumbers : Append(s, calls) \in CallNumbers
        BY <2>2 DEF CallNumbers
      <3>. QED
        BY <2>1, <3>1, <3>2
    <2>4. StreamTypes'
      BY <1>t, <1>s, <2>1, <2>3 DEF StreamTypes, settings
    <2>5. NothingLeftWhileReading'
      BY <1>t, <2>1 DEF NothingLeftWhileReading
    <2>. QED
      BY <2>4, <2>5 DEF Read
  <1>4. ASSUME Done PROVE Read'
    <2>. /\ UNCHANGED <<settings, link, sentThink, calls, answerVars, result, raised>>
         /\ usage' = calls /\ link = "stream"
      BY <1>4 DEF Done
    <2>. QED
      BY <1>t, <1>s DEF Read, StreamTypes, NothingLeftWhileReading, settings, answerVars
  <1>5. ASSUME EndOfStream PROVE Read'
    <2>. UNCHANGED <<settings, sentThink, calls, answerVars, usage, raised>>
      BY <1>5 DEF EndOfStream
    <2>1. link' = "idle" /\ result' = [text |-> text, tools |-> tools]
      BY <1>5 DEF EndOfStream
    <2>. QED
      BY <1>t, <2>1 DEF Read, StreamTypes, NothingLeftWhileReading, settings, answerVars
  <1>6. ASSUME NEW hasCall \in BOOLEAN, PlainAnswer(hasCall) PROVE Read'
    <2>. UNCHANGED <<settings, sentThink, calls, lines, yielded, result, raised>>
      BY <1>6 DEF PlainAnswer
    <2>1. /\ link = "plain" /\ link' = "idle" /\ text' = <<calls>> /\ tools' \in {<<calls>>, <<>>}
          /\ usage' = calls
      BY <1>6 DEF PlainAnswer
    <2>2. calls \in 1 .. MaxCalls
      BY <1>t, <1>s, <2>1 DEF StreamTypes, NothingLeftWhileReading
    <2>3. <<calls>> \in CallNumbers /\ <<>> \in CallNumbers
      BY <2>2 DEF CallNumbers
    <2>4. text' \in CallNumbers /\ tools' \in CallNumbers
      BY <2>1, <2>3
    <2>. QED
      BY <1>t, <2>1, <2>4 DEF Read, StreamTypes, NothingLeftWhileReading, settings
  <1>7. ASSUME NEW error \in ProviderErrors, Fails(error) PROVE Read'
    <2>. UNCHANGED <<settings, sentThink, calls, answerVars, result, usage>>
      BY <1>7 DEF Fails
    <2>1. link' = "idle" /\ raised' = error.kind
      BY <1>7 DEF Fails
    <2>. QED
      BY <1>t, <2>1 DEF Read, StreamTypes, NothingLeftWhileReading, settings, answerVars
  <1>8. ASSUME Breaks \/ Dropped PROVE Read'
    <2>. UNCHANGED <<settings, sentThink, calls, answerVars, result, usage>>
      BY <1>8 DEF Breaks, Dropped
    <2>1. link' = "idle" /\ raised' \in {"untyped", "dropped"}
      BY <1>8 DEF Breaks, Dropped
    <2>. QED
      BY <1>t, <2>1 DEF Read, StreamTypes, NothingLeftWhileReading, settings, answerVars
  <1>9. ASSUME UNCHANGED streamVars PROVE Read'
    BY <1>t, <1>9 DEF Read, StreamTypes, NothingLeftWhileReading, streamVars
  <1>10. Read'
    BY <1>1, <1>2, <1>3, <1>4, <1>5, <1>6, <1>7, <1>8, <1>9 DEF StreamNext
  <1>11. /\ UNCHANGED baseThink
         /\ \/ UNCHANGED <<think, sentThink>>
            \/ \E l \in {0, 1, 4} : ApplyReasoning(l)
            \/ sentThink' = think /\ UNCHANGED think
    BY Zenon DEF StreamNext, streamVars, ApplyReasoning, Ask, Line, Done, EndOfStream, PlainAnswer,
                 Fails, Breaks, Dropped, settings
  <1>12. SwitchTypes' /\ (think => baseThink)' /\ (sentThink => baseThink)'
    BY <1>11, SwitchStep DEF StreamInv
  <1>. QED
    BY <1>10, <1>12 DEF Read, StreamInv

LEMMA StreamStepLeavesNothing ==
    ASSUME StreamInv, [StreamNext]_streamVars, link = "stream", link' = "idle"
    PROVE  result' = IF raised' = NoFailure THEN [text |-> yielded, tools |-> tools]
                     ELSE EmptyResult
  <1>t. result = EmptyResult /\ text = yielded /\ raised = NoFailure
    BY DEF StreamInv, NothingLeftWhileReading
  <1>1. CASE EndOfStream
    BY <1>t, <1>1 DEF EndOfStream
  <1>2. ASSUME NEW error \in ProviderErrors, Fails(error)
        PROVE  raised' # NoFailure /\ result' = result
    <2>1. error.kind \in Failures
      BY ErrorKinds
    <2>. QED
      BY <1>2, <2>1 DEF Fails, Failures, NoFailure
  <1>3. CASE Breaks \/ Dropped
    BY <1>t, <1>3 DEF Breaks, Dropped, NoFailure
  <1>4. EndOfStream \/ Breaks \/ Dropped \/ \E error \in ProviderErrors : Fails(error)
    <2>1. ~(UNCHANGED link) /\ link # "plain" /\ link' # "stream" /\ link' # "plain"
      OBVIOUS
    <2>2. ~UNCHANGED streamVars
      BY <2>1, Zenon DEF streamVars
    <2>3. \A l \in {0, 1, 4} : ~ApplyReasoning(l)
      BY <2>1, Zenon DEF ApplyReasoning
    <2>4. \A streamed \in BOOLEAN : ~Ask(streamed)
      BY DEF Ask
    <2>5. /\ \A line \in StreamLines : ~Line(line)
          /\ ~Done /\ \A hasCall \in BOOLEAN : ~PlainAnswer(hasCall)
      BY <2>1, Zenon DEF Line, Done, PlainAnswer
    <2>. QED
      BY <2>2, <2>3, <2>4, <2>5, Zenon DEF StreamNext
  <1>. QED
    BY <1>t, <1>1, <1>2, <1>3, <1>4

LEMMA StreamInvTypes == StreamInv => StreamTypeOK /\ ThinkingIsTheOperators
  <1>. SUFFICES ASSUME StreamInv PROVE StreamTypeOK /\ ThinkingIsTheOperators
    OBVIOUS
  <1>1. {baseThink, think, sentThink} \subseteq BOOLEAN
    BY Zenon DEF StreamInv, SwitchTypes
  <1>2. {text, tools, yielded, result.text, result.tools} \subseteq Seq(1 .. MaxCalls)
    BY DEF StreamInv, StreamTypes, CallNumbers
  <1>. QED
    BY <1>1, <1>2 DEF StreamInv, StreamTypes, StreamTypeOK, ThinkingIsTheOperators

\* What is read after a stream is of that stream, and nothing when it failed
\* or was dropped; no request thinks that the operator did not allow: for any
\* number of calls and lines (ollama_provider.py).
THEOREM StreamsStayTheirOwn == StreamSpec => StreamsAreTheirOwn
  <1>1. StreamSpec => []StreamInv
    BY StreamInitInv, StreamStepInv, PTL DEF StreamSpec
  <1>2. StreamInv /\ [StreamNext]_streamVars
          => [link = "stream" /\ link' = "idle" =>
                 result' = IF raised' = NoFailure THEN [text |-> yielded, tools |-> tools]
                           ELSE EmptyResult]_streamVars
    BY StreamStepLeavesNothing
  <1>3. StreamSpec => NoLeftOverCalls
    BY <1>1, <1>2, PTL DEF StreamSpec, NoLeftOverCalls
  <1>. QED
    BY <1>1, <1>3, StreamInvTypes, PTL DEF StreamsAreTheirOwn

-----------------------------------------------------------------------------
(***************************************************************************)
(* ContextWindow. WindowIsFaithful is inductive with the history: the      *)
(* system message has its identity first and no other block twice; every   *)
(* sentence that was said is in the window or has its line, unless the     *)
(* summary is full; the question the owner answers is in the window. A     *)
(* full summary stays full, and a window that was made to fit stays so     *)
(* until the model is asked.                                               *)
(***************************************************************************)

Block == {"kimlik", "niyet", "hafiza", "ilk_tur", "durum"}
Role == {"user", "assistant", "tool"}
Message == [role : Role, text : Text \cup {NoText}, size : Nat, no : Nat]

\* The identity first, no other block twice.
Clean(s) ==
    /\ s \in Seq(Block) /\ 1 \in DOMAIN s /\ s[1] = "kimlik"
    /\ \A i, j \in DOMAIN s : i < j /\ s[i] = s[j] => s[i] = "ilk_tur"

\* The question the owner answers is in the window.
Asking(q, c) == \E x \in InSeq(c) : x.role = "assistant" /\ x.text = q

\* A history c with its summary lines: the numbers sp of what was said are
\* those of messages of the user and of the assistant only, so that a message
\* of theirs leaves a line when it drops out.
History(c, sums, n, sp, q) ==
    /\ c \in Seq(Message) /\ \A x \in InSeq(c) : x.no \in 1 .. n
    /\ sums \in Seq(Nat) /\ Len(sums) <= OZET_SATIR
    /\ \A x \in InSeq(c) : x.no \in sp => Said(x)
    /\ \A i \in sp : i \in Numbers(c) \cup InSeq(sums) \/ Len(sums) = OZET_SATIR
    /\ q # NoText => Asking(q, c) \/ q \in BlockLike

Fit(b, u) == \/ Len(u) <= EN_AZ_TUR + 1
             \/ /\ Length(u, Positions(u)) <= Room(b)
                /\ MaxKept = 0 \/ Len(u) <= MaxKept

WindowInv ==
    /\ pending \in Asks \cup {NoText} /\ turnAt \in {"idle", "model"}
    /\ no \in Nat /\ spoken \subseteq 1 .. no
    /\ Clean(sistem)
    /\ History(conv, summary, no, spoken, pending)
    /\ turnAt = "model" => Fit(sistem, conv)

-----------------------------------------------------------------------------
(* The length of messages.                                                 *)

SumStep(c, S, f, n) ==
    IF n = 0 THEN 0 ELSE IF n \in S THEN f[n - 1] + c[n].size ELSE f[n - 1]
SumUpTo(c, S) == CHOOSE f : f = [n \in 0 .. Len(c) |-> SumStep(c, S, f, n)]

LEMMA LengthAtEnd == ASSUME NEW c, NEW S PROVE Length(c, S) = SumUpTo(c, S)[Len(c)]
  BY DEF Length, SumUpTo, SumStep

LEMMA SumExists ==
    ASSUME NEW c, NEW S, NEW m \in Nat
    PROVE  \E f : f = [n \in 0 .. m |-> SumStep(c, S, f, n)]
  <1>. DEFINE T == {k \in Nat : \E f : f = [n \in 0 .. k |-> SumStep(c, S, f, n)]}
  <1>1. 0 \in T
    <2>1. [n \in 0 .. 0 |-> 0] = [n \in 0 .. 0 |-> SumStep(c, S, [j \in 0 .. 0 |-> 0], n)]
      BY DEF SumStep
    <2>. QED
      BY <2>1
  <1>2. ASSUME NEW k \in 0 .. m - 1, k \in T PROVE k + 1 \in T
    <2>1. PICK f : f = [n \in 0 .. k |-> SumStep(c, S, f, n)]
      BY <1>2
    <2>. DEFINE g == [n \in 0 .. k + 1 |-> IF n = k + 1 THEN SumStep(c, S, f, n) ELSE f[n]]
    <2>2. \A n \in 0 .. k : g[n] = f[n] /\ f[n] = SumStep(c, S, f, n)
      BY <2>1
    <2>3. g[k + 1] = SumStep(c, S, f, k + 1) /\ DOMAIN g = 0 .. k + 1
      BY <1>2
    <2>. HIDE DEF g
    <2>4. ASSUME NEW n \in 0 .. k + 1 PROVE g[n] = SumStep(c, S, g, n)
      <3>1. SumStep(c, S, f, n) = SumStep(c, S, g, n)
        BY <1>2, <2>2 DEF SumStep
      <3>. QED
        BY <1>2, <2>2, <2>3, <3>1
    <2>5. g = [n \in 0 .. k + 1 |-> g[n]]
      BY DEF g
    <2>6. g = [n \in 0 .. k + 1 |-> SumStep(c, S, g, n)]
      BY <2>4, <2>5
    <2>. QED
      BY <1>2, <2>6
  <1>. HIDE DEF T
  <1>3. m \in T
    BY <1>1, <1>2, Induction
  <1>. QED
    BY <1>3 DEF T

LEMMA SumEquations ==
    ASSUME NEW c, NEW S, Len(c) \in Nat
    PROVE  /\ SumUpTo(c, S)[0] = 0
           /\ \A n \in 1 .. Len(c) :
                SumUpTo(c, S)[n] = IF n \in S THEN SumUpTo(c, S)[n - 1] + c[n].size
                                   ELSE SumUpTo(c, S)[n - 1]
  <1>. DEFINE f == SumUpTo(c, S)
  <1>1. f = [n \in 0 .. Len(c) |-> SumStep(c, S, f, n)]
    BY SumExists, Zenon DEF SumUpTo
  <1>. HIDE DEF f
  <1>2. \A n \in 0 .. Len(c) : f[n] = SumStep(c, S, f, n)
    BY <1>1
  <1>. QED
    BY <1>2 DEF f, SumStep

\* Fewer messages are no longer, and one more adds its own length.
LEMMA MoreIsLonger ==
    ASSUME NEW c \in Seq(Message), NEW S, NEW R, NEW i \in Positions(c),
           S \subseteq R \cup {i}, i \notin R
    PROVE  Length(c, S) \in Nat /\ Length(c, S) <= Length(c, R) + c[i].size
  <1>. DEFINE f == SumUpTo(c, S)
              g == SumUpTo(c, R)
              G == {n \in 0 .. Len(c) : /\ f[n] \in Nat /\ g[n] \in Nat
                                        /\ n < i => f[n] <= g[n]
                                        /\ f[n] <= g[n] + c[i].size}
  <1>0. /\ Len(c) \in Nat /\ i \in 1 .. Len(c) /\ c[i].size \in Nat
        /\ \A n \in 1 .. Len(c) : c[n].size \in Nat
    <2>1. \A n \in 1 .. Len(c) : c[n] \in Message
      OBVIOUS
    <2>2. Len(c) \in Nat /\ i \in 1 .. Len(c)
      BY DEF Positions
    <2>. QED
      BY <2>1, <2>2 DEF Message
  <1>. HIDE DEF f, g
  <1>1. 0 \in G
    <2>1. f[0] = 0 /\ g[0] = 0
      BY <1>0, SumEquations DEF f, g
    <2>. QED
      BY <1>0, <2>1
  <1>2. ASSUME NEW n \in 0 .. Len(c) - 1, n \in G PROVE n + 1 \in G
    <2>1. PICK m \in 1 .. Len(c) : m = n + 1 /\ m - 1 = n
      BY <1>0, <1>2
    <2>2. /\ f[m] = IF m \in S THEN f[n] + c[m].size ELSE f[n]
          /\ g[m] = IF m \in R THEN g[n] + c[m].size ELSE g[n]
      BY <1>0, <2>1, SumEquations DEF f, g
    <2>3. f[n] \in Nat /\ g[n] \in Nat /\ (n < i => f[n] <= g[n]) /\ f[n] <= g[n] + c[i].size
          /\ c[m].size \in Nat
      BY <1>0, <1>2, <2>1
    <2>4. m \in S => m \in R \/ m = i
      OBVIOUS
    <2>. DEFINE Bounded(k) == /\ f[k] \in Nat /\ g[k] \in Nat
                              /\ k < i => f[k] <= g[k]
                              /\ f[k] <= g[k] + c[i].size
    <2>5. CASE m = i
      <3>1. g[m] = g[n] /\ n < i /\ ~(m < i)
        BY <1>0, <2>1, <2>2, <2>5
      <3>2. f[m] = f[n] + c[i].size \/ f[m] = f[n]
        BY <2>2, <2>5
      <3>3. Bounded(m)
        BY <1>0, <2>3, <3>1, <3>2
      <3>. QED
        BY <2>1, <3>3
    <2>6. CASE m # i
      <3>1. m < i => n < i
        BY <1>0, <2>1
      <3>2. Bounded(m)
        <4>1. CASE m \in S
          <5>1. f[m] = f[n] + c[m].size /\ g[m] = g[n] + c[m].size
            BY <2>2, <2>4, <2>6, <4>1
          <5>2. c[i].size \in Nat /\ c[m].size \in Nat
            BY <1>0
          <5>3. f[m] \in Nat /\ g[m] \in Nat
            BY <2>3, <5>1
          <5>4. f[m] <= g[m] + c[i].size
            BY <2>3, <5>1, <5>2
          <5>5. m < i => f[m] <= g[m]
            BY <2>3, <3>1, <5>1, <5>2
          <5>. QED
            BY <5>3, <5>4, <5>5
        <4>2. CASE m \notin S
          <5>1. f[m] = f[n] /\ (g[m] = g[n] + c[m].size \/ g[m] = g[n])
            BY <2>2, <4>2
          <5>. QED
            BY <1>0, <2>3, <3>1, <5>1
        <4>. QED
          BY <4>1, <4>2
      <3>. QED
        BY <2>1, <3>2
    <2>. QED
      BY <2>5, <2>6
  <1>. HIDE DEF G
  <1>3. Len(c) \in G
    <2>1. \A n \in 0 .. Len(c) - 1 : n \in G => n + 1 \in G
      BY <1>2
    <2>2. \A n \in 0 .. Len(c) : n \in G
      BY <1>0, <1>1, <2>1, Induction
    <2>. QED
      BY <1>0, <2>2
  <1>. QED
    BY <1>3, LengthAtEnd DEF f, g, G

\* The messages kept are as long as they were in the whole.
LEMMA LengthOfKept ==
    ASSUME NEW c \in Seq(Message), NEW S
    PROVE  LET e == ElementsAt(c, S) IN Length(e, Positions(e)) = Length(c, S)
  <1>. DEFINE a == AtUpTo(c, S)
              f == SumUpTo(c, S)
              Same(n) == a[n] \in Seq(Message) /\ Length(a[n], Positions(a[n])) = f[n]
              G == {n \in 0 .. Len(c) : Same(n)}
  <1>0. Len(c) \in Nat
    OBVIOUS
  <1>. HIDE DEF a, f
  <1>1. 0 \in G
    <2>1. a[0] = <<>> /\ f[0] = 0
      BY <1>0, AtEquations, SumEquations DEF a, f
    <2>2. Len(<<>>) = 0 /\ <<>> \in Seq(Message)
      OBVIOUS
    <2>3. Length(<<>>, Positions(<<>>)) = 0
      BY <2>2, LengthAtEnd, SumEquations
    <2>4. Same(0)
      BY <2>1, <2>2, <2>3, Zenon
    <2>. QED
      BY <1>0, <2>4
  <1>2. ASSUME NEW n \in 0 .. Len(c) - 1, n \in G PROVE n + 1 \in G
    <2>1. PICK m \in 1 .. Len(c) : m = n + 1 /\ m - 1 = n
      BY <1>0, <1>2
    <2>2. /\ a[m] = IF m \in S THEN Append(a[n], c[m]) ELSE a[n]
          /\ f[m] = IF m \in S THEN f[n] + c[m].size ELSE f[n]
      BY <1>0, <2>1, AtEquations, SumEquations DEF a, f
    <2>3. a[n] \in Seq(Message) /\ Length(a[n], Positions(a[n])) = f[n] /\ c[m] \in Message
      BY <1>2, <2>1
    <2>4. ASSUME NEW s \in Seq(Message), NEW x \in Message
          PROVE  Length(Append(s, x), Positions(Append(s, x))) = Length(s, Positions(s)) + x.size
      <3>. DEFINE t == Append(s, x)
                  p == SumUpTo(s, Positions(s))
                  q == SumUpTo(t, Positions(t))
                  H == {k \in 0 .. Len(s) : q[k] = p[k]}
      <3>1. /\ t \in Seq(Message) /\ Len(s) \in Nat /\ Len(t) = Len(s) + 1 /\ t[Len(s) + 1] = x
            /\ \A k \in 1 .. Len(s) : t[k] = s[k]
        OBVIOUS
      <3>. HIDE DEF t
      <3>2. /\ p[0] = 0 /\ q[0] = 0
            /\ \A k \in 1 .. Len(s) : p[k] = p[k - 1] + s[k].size
            /\ \A k \in 1 .. Len(s) + 1 : q[k] = q[k - 1] + t[k].size
        BY <3>1, SumEquations DEF Positions
      <3>. HIDE DEF p, q
      <3>3. 0 \in H
        BY <3>1, <3>2
      <3>4. ASSUME NEW k \in 0 .. Len(s) - 1, k \in H PROVE k + 1 \in H
        <4>1. PICK j \in 1 .. Len(s) : j = k + 1 /\ j - 1 = k
          BY <3>1, <3>4
        <4>2. q[k] = p[k] /\ t[j] = s[j] /\ j \in 1 .. Len(s) + 1
          BY <3>1, <3>4, <4>1
        <4>3. p[j] = p[k] + s[j].size /\ q[j] = q[k] + s[j].size
          BY <3>2, <4>1, <4>2
        <4>4. q[j] = p[j]
          BY <4>2, <4>3
        <4>. QED
          BY <3>1, <4>1, <4>4
      <3>. HIDE DEF H
      <3>5. Len(s) \in H
        <4>1. \A k \in 0 .. Len(s) - 1 : k \in H => k + 1 \in H
          BY <3>4
        <4>2. \A k \in 0 .. Len(s) : k \in H
          BY <3>1, <3>3, <4>1, Induction
        <4>. QED
          BY <3>1, <4>2
      <3>6. q[Len(s) + 1] = p[Len(s)] + x.size
        <4>1. PICK j \in 1 .. Len(s) + 1 : j = Len(s) + 1 /\ j - 1 = Len(s)
          BY <3>1
        <4>. QED
          BY <3>1, <3>2, <3>5, <4>1 DEF H
      <3>. QED
        BY <3>1, <3>6, LengthAtEnd DEF p, q, t
    <2>5. Append(a[n], c[m]) \in Seq(Message)
      BY <2>3
    <2>6. Same(m)
      BY <2>2, <2>3, <2>4, <2>5
    <2>. QED
      BY <2>1, <2>6
  <1>. HIDE DEF G, Same
  <1>3. Len(c) \in G
    <2>1. \A n \in 0 .. Len(c) - 1 : n \in G => n + 1 \in G
      BY <1>2
    <2>2. \A n \in 0 .. Len(c) : n \in G
      BY <1>0, <1>1, <2>1, Induction
    <2>. QED
      BY <1>0, <2>2
  <1>4. Same(Len(c))
    BY <1>3 DEF G
  <1>. QED
    BY <1>4, LengthAtEnd, ElementsAtEnd DEF Same, a, f

-----------------------------------------------------------------------------
(* What is kept.                                                           *)

LEMMA MaxOfIndices ==
    ASSUME NEW n \in Nat, NEW T, T \subseteq 1 .. n, T # {}
    PROVE  Max(T) \in T /\ \A y \in T : y <= Max(T)
  <1>1. \E x \in T : \A y \in T : x >= y
    <2>1. PICK x \in T : \A y \in T : y <= x
      BY GreatestIndex
    <2>2. \A y \in T : x >= y
      BY <2>1
    <2>. QED
      BY <2>2
  <1>2. Max(T) \in T /\ \A y \in T : Max(T) >= y
    BY <1>1, Zenon DEF Max
  <1>. QED
    BY <1>2

LEMMA MaxOfTwo ==
    ASSUME NEW a \in Int, NEW b \in Int
    PROVE  Max({a, b}) \in {a, b} /\ Max({a, b}) >= a /\ Max({a, b}) >= b
  <1>1. \E x \in {a, b} : \A y \in {a, b} : x >= y
    OBVIOUS
  <1>2. Max({a, b}) \in {a, b} /\ \A y \in {a, b} : Max({a, b}) >= y
    BY <1>1, Zenon DEF Max
  <1>. QED
    BY <1>2

LEMMA RoomType == ASSUME NEW b \in Seq(Block) PROVE Room(b) \in Nat
  <1>1. PICK d \in Int : d = Budget - Len(b)
    BY WindowBounds
  <1>2. PICK z \in Int : z = 0
    OBVIOUS
  <1>3. Max({z, d}) >= z /\ Max({z, d}) \in {z, d}
    BY MaxOfTwo
  <1>4. Room(b) = Max({z, d})
    BY <1>1, <1>2, Zenon DEF Room
  <1>. QED
    BY <1>2, <1>3, <1>4

\* At least the newest messages and the question, and hardly more than these.
LEMMA SureIsSmall ==
    ASSUME NEW c \in Seq(Message), NEW q
    PROVE  /\ Newest(c) \cup Question(c, q) \subseteq Positions(c)
           /\ IsFiniteSet(Newest(c) \cup Question(c, q))
           /\ Cardinality(Newest(c) \cup Question(c, q)) <= EN_AZ_TUR + 1
           /\ AskedAt(c, q) # {} => \E i \in Question(c, q) : i \in AskedAt(c, q)
  <1>. DEFINE N == Newest(c)
              Q == Question(c, q)
              I == Len(c) - EN_AZ_TUR + 1 .. Len(c)
  <1>0. Len(c) \in Nat /\ EN_AZ_TUR \in Nat /\ AskedAt(c, q) \subseteq 1 .. Len(c)
    BY WindowBounds DEF AskedAt, Positions
  <1>1. AskedAt(c, q) # {} => Max(AskedAt(c, q)) \in AskedAt(c, q)
    BY <1>0, MaxOfIndices
  <1>2. N \in SUBSET I /\ N \subseteq Positions(c)
    BY <1>0 DEF Newest, Positions
  <1>3. IsFiniteSet(I) /\ Cardinality(I) = EN_AZ_TUR
    <2>0. Len(c) - EN_AZ_TUR + 1 \in Int /\ Len(c) \in Int
      BY <1>0
    <2>1. /\ IsFiniteSet(I)
          /\ Cardinality(I) = IF Len(c) - EN_AZ_TUR + 1 > Len(c) THEN 0
                              ELSE Len(c) - (Len(c) - EN_AZ_TUR + 1) + 1
      BY <2>0, FS_Interval
    <2>. QED
      BY <1>0, <2>1
  <1>. HIDE DEF I, N
  <1>4. IsFiniteSet(N) /\ Cardinality(N) <= EN_AZ_TUR
    BY <1>2, <1>3, FS_Subset
  <1>5. Cardinality(N) \in Nat
    BY <1>4, FS_CardinalityType
  <1>6. CASE AskedAt(c, q) = {}
    <2>1. Q = {} /\ N \cup Q = N
      BY <1>6 DEF Question
    <2>. QED
      BY <1>0, <1>2, <1>4, <1>5, <1>6, <2>1 DEF N
  <1>7. CASE AskedAt(c, q) # {}
    <2>. DEFINE m == Max(AskedAt(c, q))
    <2>1. Q = {m} /\ m \in AskedAt(c, q) /\ m \in Positions(c)
      BY <1>0, <1>1, <1>7 DEF Question, Positions
    <2>. HIDE DEF m
    <2>2. /\ IsFiniteSet(N \cup {m})
          /\ Cardinality(N \cup {m}) = IF m \in N THEN Cardinality(N) ELSE Cardinality(N) + 1
      BY <1>4, FS_AddElement
    <2>3. Cardinality(N \cup {m}) <= EN_AZ_TUR + 1
      BY <1>0, <1>4, <1>5, <2>2
    <2>. QED
      BY <1>2, <2>1, <2>2, <2>3 DEF N
  <1>. QED
    BY <1>6, <1>7

LEMMA WindowFits ==
    ASSUME NEW c \in Seq(Message), NEW q, NEW room \in Nat
    PROVE  LET e == ElementsAt(c, Windowed(c, q, room)) IN
           /\ Windowed(c, q, room) \subseteq Positions(c)
           /\ \/ Len(e) <= EN_AZ_TUR + 1
              \/ /\ Length(e, Positions(e)) <= room
                 /\ MaxKept = 0 \/ Len(e) <= MaxKept
  <1>. DEFINE sure == Newest(c) \cup Question(c, q)
              W == Windowed(c, q, room)
              e == ElementsAt(c, W)
  <1>0. /\ Len(c) \in Nat /\ DOMAIN c = 1 .. Len(c) /\ Positions(c) = 1 .. Len(c)
        /\ EN_AZ_TUR \in Nat /\ MaxKept \in Nat
    BY WindowBounds DEF Positions
  <1>1. sure \subseteq Positions(c) /\ IsFiniteSet(sure) /\ Cardinality(sure) <= EN_AZ_TUR + 1
    BY SureIsSmall
  <1>2. W = sure \cup {i \in Positions(c) : \A j \in (i .. Len(c)) \ sure : Fits(c, sure, j, room)}
    BY DEF Windowed
  <1>. HIDE DEF sure
  <1>3. W \subseteq 1 .. Len(c) /\ sure \subseteq W
    BY <1>0, <1>1, <1>2
  <1>. HIDE DEF W
  <1>4. IsFiniteSet(W) /\ Len(e) = Cardinality(W) /\ Length(e, Positions(e)) = Length(c, W)
    BY <1>0, <1>3, ElementsCount, LengthOfKept
  <1>5. CASE W = sure
    BY <1>0, <1>1, <1>3, <1>4, <1>5 DEF W
  <1>6. CASE W # sure
    <2>1. PICK i \in W \ sure : \A j \in W \ sure : i <= j
      <3>1. W \ sure # {}
        BY <1>3, <1>6, Zenon
      <3>2. W \ sure \subseteq Nat
        BY <1>0, <1>3
      <3>. QED
        BY <3>1, <3>2, LeastNat
    <2>2. i \in 1 .. Len(c) /\ i \in (i .. Len(c)) \ sure
      BY <1>0, <1>3, <2>1
    <2>3. Fits(c, sure, i, room)
      BY <1>2, <2>1, <2>2
    <2>. DEFINE S == sure \cup {j \in Positions(c) : j > i}
    <2>4. i \notin S /\ W \subseteq S \cup {i} /\ S \subseteq 1 .. Len(c)
      <3>1. i \notin sure /\ ~(i > i)
        BY <2>1, <2>2
      <3>2. ASSUME NEW k \in W, k # i PROVE k \in S
        <4>1. CASE k \in sure
          BY <4>1
        <4>2. CASE k \notin sure
          <5>1. i <= k /\ k \in 1 .. Len(c)
            BY <1>3, <2>1, <4>2
          <5>. QED
            BY <1>0, <2>2, <3>2, <5>1
        <4>. QED
          BY <4>1, <4>2
      <3>3. S \subseteq 1 .. Len(c)
        BY <1>0, <1>1
      <3>. QED
        BY <3>1, <3>2, <3>3
    <2>5. (MaxKept = 0 \/ Cardinality(S) < MaxKept) /\ Length(c, S) + c[i].size <= room
      BY <2>3 DEF Fits
    <2>. HIDE DEF S
    <2>6. Length(c, W) <= room
      <3>1. c[i] \in Message
        BY <1>0, <2>2
      <3>2. Length(c, W) \in Nat /\ Length(c, W) <= Length(c, S) + c[i].size
        BY <1>0, <2>2, <2>4, MoreIsLonger
      <3>3. Length(c, S) \in Nat
        <4>1. S \subseteq S \cup {i}
          OBVIOUS
        <4>. QED
          BY <1>0, <2>2, <2>4, <4>1, MoreIsLonger
      <3>. QED
        BY <2>5, <3>1, <3>2, <3>3 DEF Message
    <2>7. MaxKept = 0 \/ Cardinality(W) <= MaxKept
      <3>1. IsFiniteSet(S)
        BY <1>0, <2>4, ElementsCount
      <3>2. IsFiniteSet(S \cup {i}) /\ Cardinality(S \cup {i}) = Cardinality(S) + 1
        BY <2>4, <3>1, FS_AddElement
      <3>3. Cardinality(W) <= Cardinality(S \cup {i})
        <4>1. W \in SUBSET (S \cup {i})
          BY <2>4
        <4>. QED
          BY <3>2, <4>1, FS_Subset
      <3>4. Cardinality(W) \in Nat /\ Cardinality(S) \in Nat
        BY <1>4, <3>1, FS_CardinalityType
      <3>. QED
        BY <1>0, <2>5, <3>2, <3>3, <3>4
    <2>. QED
      BY <1>0, <1>3, <1>4, <2>6, <2>7 DEF W
  <1>. QED
    BY <1>5, <1>6

-----------------------------------------------------------------------------
(* What drops out leaves a line.                                           *)

LEMMA LinesKept ==
    ASSUME NEW s \in Seq(Nat)
    PROVE  /\ LastLines(s) \in Seq(Nat) /\ Len(LastLines(s)) <= OZET_SATIR
           /\ Len(LastLines(s)) = OZET_SATIR \/ LastLines(s) = s
  <1>0. Len(s) \in Nat /\ OZET_SATIR \in Nat
    BY WindowBounds
  <1>1. PICK d \in Int : d = Len(s) - OZET_SATIR + 1
    <2>1. Len(s) - OZET_SATIR + 1 \in Int
      BY <1>0
    <2>. QED
      BY <2>1
  <1>2. PICK z \in Int : z = 1
    OBVIOUS
  <1>. DEFINE m == Max({z, d})
  <1>3. m >= z /\ m >= d /\ m \in {z, d}
    BY MaxOfTwo
  <1>4. LastLines(s) = SubSeq(s, m, Len(s))
    BY <1>1, <1>2, Zenon DEF LastLines
  <1>. HIDE DEF m
  <1>5. m \in Int /\ m >= 1 /\ (m = 1 \/ m = Len(s) - OZET_SATIR + 1) /\ m >= Len(s) - OZET_SATIR + 1
    BY <1>1, <1>2, <1>3
  <1>6. \A i \in m .. Len(s) : s[i] \in Nat
    BY <1>0, <1>5
  <1>7. /\ SubSeq(s, m, Len(s)) \in Seq(Nat)
        /\ Len(SubSeq(s, m, Len(s))) = IF m <= Len(s) THEN Len(s) - m + 1 ELSE 0
    BY <1>0, <1>5, <1>6, SubSeqProperties
  <1>8. m = 1 => SubSeq(s, m, Len(s)) = s
    BY <1>0
  <1>9. Len(SubSeq(s, m, Len(s))) <= OZET_SATIR
    BY <1>0, <1>5, <1>7
  <1>10. m # 1 => Len(SubSeq(s, m, Len(s))) = OZET_SATIR
    BY <1>0, <1>5, <1>7
  <1>. QED
    BY <1>4, <1>7, <1>8, <1>9, <1>10

LEMMA LinesOf ==
    ASSUME NEW c \in Seq(Message)
    PROVE  /\ SummaryLines(c) \in Seq(Nat)
           /\ \A i \in SaidAt(c) : c[i].no \in InSeq(SummaryLines(c))
  <1>. DEFINE spoke == ElementsAt(c, SaidAt(c))
  <1>1. spoke \in Seq(Message) /\ InSeq(spoke) = {c[i] : i \in SaidAt(c) \cap DOMAIN c}
    BY ElementsOf
  <1>2. SaidAt(c) \subseteq DOMAIN c
    BY DEF SaidAt, Positions
  <1>3. SummaryLines(c) = [i \in 1 .. Len(spoke) |-> spoke[i].no]
    BY DEF SummaryLines, Positions
  <1>. HIDE DEF spoke
  <1>4. Len(spoke) \in Nat /\ DOMAIN spoke = 1 .. Len(spoke) /\ \A i \in 1 .. Len(spoke) : spoke[i].no \in Nat
    <2>1. \A i \in 1 .. Len(spoke) : spoke[i] \in Message
      BY <1>1
    <2>2. Len(spoke) \in Nat /\ DOMAIN spoke = 1 .. Len(spoke)
      BY <1>1
    <2>. QED
      BY <2>1, <2>2 DEF Message
  <1>5. SummaryLines(c) \in Seq(Nat)
    BY <1>3, <1>4
  <1>6. ASSUME NEW i \in SaidAt(c) PROVE c[i].no \in InSeq(SummaryLines(c))
    <2>1. c[i] \in InSeq(spoke)
      BY <1>1, <1>2
    <2>2. PICK j \in DOMAIN spoke : spoke[j] = c[i]
      BY <2>1 DEF InSeq
    <2>3. j \in DOMAIN SummaryLines(c) /\ SummaryLines(c)[j] = c[i].no
      BY <1>3, <1>4, <2>2
    <2>. QED
      BY <2>3 DEF InSeq
  <1>. QED
    BY <1>5, <1>6

\* What _baglami_daralt makes of a history and a summary.
NarrowTo(b, c, q, sums, u, v) ==
    LET kept == Windowed(c, q, Room(b))
        dropped == ElementsAt(c, Positions(c) \ kept)
    IN  /\ u = ElementsAt(c, kept)
        /\ v = IF dropped = <<>> THEN sums ELSE Summarised(sums, dropped)

Traced(n, u, v) == n \in Numbers(u) \cup InSeq(v) \/ Len(v) = OZET_SATIR

LEMMA Narrowed ==
    ASSUME NEW b \in Seq(Block), NEW c \in Seq(Message), NEW q,
           NEW sums \in Seq(Nat), Len(sums) <= OZET_SATIR, NEW u, NEW v,
           NarrowTo(b, c, q, sums, u, v)
    PROVE  /\ u \in Seq(Message) /\ InSeq(u) \subseteq InSeq(c)
           /\ v \in Seq(Nat) /\ Len(v) <= OZET_SATIR
           /\ Fit(b, u)
           /\ \A n : n \in InSeq(sums) \/ Len(sums) = OZET_SATIR => Traced(n, u, v)
           /\ \A i \in SaidAt(c) : Traced(c[i].no, u, v)
           /\ q # NoText /\ Asking(q, c) => Asking(q, u)
  <1>. DEFINE W == Windowed(c, q, Room(b))
              D == Positions(c) \ W
              d == ElementsAt(c, D)
              AllTraced ==
                /\ v \in Seq(Nat) /\ Len(v) <= OZET_SATIR
                /\ \A n : n \in InSeq(sums) \/ Len(sums) = OZET_SATIR => Traced(n, u, v)
                /\ \A i \in SaidAt(c) : Traced(c[i].no, u, v)
  <1>0. /\ Room(b) \in Nat /\ OZET_SATIR \in Nat /\ Len(sums) \in Nat
        /\ DOMAIN c = 1 .. Len(c) /\ Positions(c) = 1 .. Len(c)
    BY RoomType, WindowBounds DEF Positions
  <1>1. u = ElementsAt(c, W) /\ v = IF d = <<>> THEN sums ELSE Summarised(sums, d)
    BY DEF NarrowTo
  <1>2. Fit(b, u) /\ W \subseteq Positions(c)
    BY <1>0, <1>1, WindowFits DEF Fit
  <1>3. u \in Seq(Message) /\ InSeq(u) = {c[i] : i \in W}
    <2>1. u \in Seq(Message) /\ InSeq(u) = {c[i] : i \in W \cap DOMAIN c}
      BY <1>1, ElementsOf
    <2>2. W \cap DOMAIN c = W
      BY <1>0, <1>2
    <2>. QED
      BY <2>1, <2>2
  <1>4. d \in Seq(Message) /\ InSeq(d) = {c[i] : i \in D}
    <2>1. d \in Seq(Message) /\ InSeq(d) = {c[i] : i \in D \cap DOMAIN c}
      BY ElementsOf
    <2>2. D \cap DOMAIN c = D
      BY <1>0
    <2>. QED
      BY <2>1, <2>2
  <1>5. Newest(c) \cup Question(c, q) \subseteq W
    BY DEF Windowed
  <1>. HIDE DEF W, d
  <1>6. InSeq(u) \subseteq InSeq(c)
    BY <1>0, <1>2, <1>3 DEF InSeq
  <1>7. Numbers(u) = {x.no : x \in InSeq(u)}
    BY <1>3 DEF Numbers, InSeq, Positions
  <1>8. ASSUME d = <<>> PROVE AllTraced
    <2>1. v = sums
      BY <1>1, <1>8
    <2>2. D = {}
      <3>1. InSeq(<<>>) = {}
        BY DEF InSeq
      <3>. QED
        BY <1>4, <1>8, <3>1
    <2>3. \A i \in SaidAt(c) : c[i].no \in Numbers(u)
      BY <1>0, <1>3, <1>7, <2>2 DEF SaidAt
    <2>. QED
      BY <1>1, <1>0, <2>1, <2>3 DEF Traced
  <1>9. ASSUME d # <<>> PROVE AllTraced
    <2>. DEFINE new == SummaryLines(d)
                all == sums \o new
    <2>1. v = LastLines(all) /\ new \in Seq(Nat) /\ \A i \in SaidAt(d) : d[i].no \in InSeq(new)
      BY <1>1, <1>4, <1>9, LinesOf DEF Summarised
    <2>. HIDE DEF new
    <2>2. all \in Seq(Nat) /\ InSeq(sums) \subseteq InSeq(all) /\ InSeq(new) \subseteq InSeq(all)
      <3>1. /\ all \in Seq(Nat) /\ Len(all) = Len(sums) + Len(new)
            /\ \A i \in 1 .. Len(sums) : all[i] = sums[i]
            /\ \A i \in 1 .. Len(new) : all[i + Len(sums)] = new[i]
            /\ Len(new) \in Nat
        BY <2>1
      <3>. HIDE DEF all
      <3>2. InSeq(sums) \subseteq InSeq(all)
        <4>. SUFFICES ASSUME NEW x \in InSeq(sums) PROVE x \in InSeq(all)
          OBVIOUS
        <4>1. PICK i \in 1 .. Len(sums) : x = sums[i]
          BY DEF InSeq
        <4>2. i \in DOMAIN all /\ all[i] = x
          BY <1>0, <3>1, <4>1
        <4>. QED
          BY <4>2 DEF InSeq
      <3>3. ASSUME NEW x \in InSeq(new) PROVE x \in InSeq(all)
        <4>1. PICK i \in 1 .. Len(new) : x = new[i]
          BY <2>1 DEF InSeq
        <4>2. i + Len(sums) \in DOMAIN all /\ all[i + Len(sums)] = x
          BY <1>0, <3>1, <4>1
        <4>. QED
          BY <4>2 DEF InSeq
      <3>. QED
        BY <3>1, <3>2, <3>3
    <2>3. v \in Seq(Nat) /\ Len(v) <= OZET_SATIR /\ (Len(v) = OZET_SATIR \/ v = all)
      BY <2>1, <2>2, LinesKept
    <2>4. ASSUME Len(sums) = OZET_SATIR PROVE Len(v) = OZET_SATIR
      <3>1. Len(all) = Len(sums) + Len(new) /\ Len(new) \in Nat
        BY <2>1
      <3>. HIDE DEF all
      <3>. QED
        BY <1>0, <2>3, <2>4, <3>1
    <2>. HIDE DEF all
    <2>5. \A n : n \in InSeq(sums) \/ Len(sums) = OZET_SATIR => Traced(n, u, v)
      BY <2>2, <2>3, <2>4 DEF Traced
    <2>6. ASSUME NEW i \in SaidAt(c) PROVE Traced(c[i].no, u, v)
      <3>1. i \in Positions(c) /\ Said(c[i])
        BY DEF SaidAt
      <3>2. CASE i \in W
        BY <1>3, <1>7, <3>2 DEF Traced
      <3>3. CASE i \notin W
        <4>1. c[i] \in InSeq(d)
          BY <1>4, <3>1, <3>3
        <4>2. PICK j \in DOMAIN d : d[j] = c[i]
          BY <4>1 DEF InSeq
        <4>3. j \in SaidAt(d)
          BY <1>4, <3>1, <4>2 DEF SaidAt, Positions
        <4>. QED
          BY <2>1, <2>2, <2>3, <4>2, <4>3 DEF Traced
      <3>. QED
        BY <3>2, <3>3
    <2>. QED
      BY <2>3, <2>5, <2>6
  <1>10. ASSUME q # NoText, Asking(q, c) PROVE Asking(q, u)
    <2>1. AskedAt(c, q) # {}
      BY <1>0, <1>10 DEF Asking, AskedAt, InSeq
    <2>2. PICK i \in Question(c, q) : i \in AskedAt(c, q)
      BY <2>1, SureIsSmall
    <2>3. c[i] \in InSeq(u) /\ c[i].role = "assistant" /\ c[i].text = q
      BY <1>3, <1>5, <2>2 DEF AskedAt
    <2>. QED
      BY <2>3 DEF Asking
  <1>. QED
    BY <1>2, <1>3, <1>6, <1>8, <1>9, <1>10

-----------------------------------------------------------------------------
(* The system blocks.                                                      *)

LEMMA CleanWithout ==
    ASSUME NEW s, Clean(s), NEW b \in Block \ {"kimlik"}
    PROVE  Clean(Without(s, b)) /\ b \notin InSeq(Without(s, b))
  <1>. DEFINE S == InSeq(s) \ {b}
              P == PlacesIn(s, S)
              t == Without(s, b)
  <1>1. s \in Seq(Block) /\ 1 \in DOMAIN s /\ s[1] = "kimlik" /\ t = ElementsAt(s, P)
    BY DEF Clean, Without, KeepOnly
  <1>2. t \in Seq(Block) /\ InSeq(t) = InSeq(s) \cap S
    BY <1>1, KeepElements DEF Without
  <1>3. P \subseteq DOMAIN s /\ 1 \in P
    BY <1>1 DEF PlacesIn, InSeq
  <1>. HIDE DEF t, P
  <1>4. /\ \A i, j \in DOMAIN t : i < j =>
             \E k, l \in P \cap DOMAIN s : k < l /\ t[i] = s[k] /\ t[j] = s[l]
        /\ 1 \in P \cap DOMAIN s => 1 \in DOMAIN t /\ t[1] = s[1]
    <2>1. /\ \A i, j \in DOMAIN ElementsAt(s, P) : i < j =>
               \E k, l \in P \cap DOMAIN s :
                   k < l /\ ElementsAt(s, P)[i] = s[k] /\ ElementsAt(s, P)[j] = s[l]
          /\ 1 \in P \cap DOMAIN s => /\ 1 \in DOMAIN ElementsAt(s, P)
                                      /\ ElementsAt(s, P)[1] = s[1]
      BY <1>1, ElementsInOrder
    <2>. QED
      BY <1>1, <2>1
  <1>5. \A i, j \in DOMAIN t : i < j /\ t[i] = t[j] => t[i] = "ilk_tur"
    BY <1>3, <1>4 DEF Clean
  <1>6. 1 \in DOMAIN t /\ t[1] = "kimlik"
    BY <1>1, <1>3, <1>4
  <1>. QED
    BY <1>2, <1>5, <1>6 DEF Clean, t

LEMMA CleanAppend ==
    ASSUME NEW s, Clean(s)
    PROVE  Clean(Append(s, "ilk_tur"))
  <1>. DEFINE t == Append(s, "ilk_tur")
  <1>1. s \in Seq(Block) /\ Len(s) \in Nat /\ 1 \in 1 .. Len(s) /\ DOMAIN s = 1 .. Len(s)
    BY DEF Clean
  <1>2. /\ t \in Seq(Block) /\ DOMAIN t = 1 .. Len(s) + 1 /\ t[Len(s) + 1] = "ilk_tur"
        /\ \A i \in 1 .. Len(s) : t[i] = s[i]
    BY <1>1 DEF Block
  <1>. HIDE DEF t
  <1>3. ASSUME NEW i \in DOMAIN t, NEW j \in DOMAIN t, i < j, t[i] = t[j]
        PROVE  t[i] = "ilk_tur"
    <2>1. CASE j = Len(s) + 1
      BY <1>2, <1>3, <2>1
    <2>2. CASE j # Len(s) + 1
      <3>1. i \in 1 .. Len(s) /\ j \in 1 .. Len(s)
        BY <1>1, <1>2, <1>3, <2>2
      <3>. QED
        BY <1>1, <1>2, <1>3, <3>1 DEF Clean
    <2>. QED
      BY <2>1, <2>2
  <1>4. 1 \in DOMAIN t /\ t[1] = "kimlik"
    BY <1>1, <1>2 DEF Clean
  <1>. QED
    BY <1>2, <1>3, <1>4 DEF Clean, t

\* A block behind the identity.
LEMMA CleanInsert ==
    ASSUME NEW s, Clean(s), NEW b \in Block \ {"kimlik"}, b \notin InSeq(s)
    PROVE  Clean(<<Head(s), b>> \o Tail(s))
  <1>. DEFINE h == <<Head(s), b>>
              r == Tail(s)
              t == h \o r
  <1>1. s \in Seq(Block) /\ Len(s) \in Nat /\ 1 \in 1 .. Len(s) /\ DOMAIN s = 1 .. Len(s)
        /\ s[1] = "kimlik" /\ s # <<>> /\ \A i \in 1 .. Len(s) : s[i] # b
    BY DEF Clean, InSeq
  <1>2. h \in Seq(Block) /\ Len(h) = 2 /\ h[1] = "kimlik" /\ h[2] = b
    BY <1>1 DEF Block
  <1>3. r \in Seq(Block) /\ Len(r) = Len(s) - 1 /\ \A i \in 1 .. Len(r) : r[i] = s[i + 1]
    BY <1>1, HeadTailProperties
  <1>. HIDE DEF h, r
  <1>4. /\ t \in Seq(Block) /\ DOMAIN t = 1 .. Len(s) + 1
        /\ \A i \in 1 .. Len(s) + 1 : t[i] = IF i <= 2 THEN h[i] ELSE r[i - 2]
    <2>1. /\ t \in Seq(Block) /\ Len(t) = Len(h) + Len(r)
          /\ \A i \in 1 .. Len(h) + Len(r) : t[i] = IF i <= Len(h) THEN h[i] ELSE r[i - Len(h)]
      BY <1>2, <1>3, ConcatProperties
    <2>2. Len(h) + Len(r) = Len(s) + 1
      BY <1>1, <1>2, <1>3
    <2>. QED
      BY <1>2, <2>1, <2>2
  <1>. HIDE DEF t
  <1>5. t[1] = "kimlik" /\ t[2] = b /\ \A i \in 3 .. Len(s) + 1 : t[i] = s[i - 1]
    <2>1. t[1] = "kimlik" /\ t[2] = b
      BY <1>1, <1>2, <1>4
    <2>2. ASSUME NEW i \in 3 .. Len(s) + 1 PROVE t[i] = s[i - 1]
      <3>1. t[i] = r[i - 2] /\ i - 2 \in 1 .. Len(r) /\ (i - 2) + 1 = i - 1
        BY <1>1, <1>3, <1>4
      <3>. QED
        BY <1>3, <3>1
    <2>. QED
      BY <2>1, <2>2
  <1>6. ASSUME NEW i \in DOMAIN t, NEW j \in DOMAIN t, i < j, t[i] = t[j]
        PROVE  t[i] = "ilk_tur"
    <2>1. CASE j = 2
      <3>1. i = 1
        BY <1>4, <1>6, <2>1
      <3>. QED
        BY <1>5, <1>6, <2>1, <3>1
    <2>2. CASE j # 2
      <3>1. j \in 3 .. Len(s) + 1 /\ j - 1 \in 1 .. Len(s) /\ t[j] = s[j - 1] /\ 1 < j - 1
        BY <1>1, <1>4, <1>5, <1>6, <2>2
      <3>2. CASE i = 1
        BY <1>1, <1>5, <1>6, <3>1, <3>2 DEF Clean
      <3>3. CASE i = 2
        BY <1>1, <1>5, <1>6, <3>1, <3>3
      <3>4. CASE i # 1 /\ i # 2
        <4>1. i \in 3 .. Len(s) + 1 /\ i - 1 \in 1 .. Len(s) /\ t[i] = s[i - 1] /\ i - 1 < j - 1
          BY <1>1, <1>4, <1>5, <1>6, <3>1, <3>4
        <4>. QED
          BY <1>1, <1>6, <3>1, <4>1 DEF Clean
      <3>. QED
        BY <3>2, <3>3, <3>4
    <2>. QED
      BY <2>1, <2>2
  <1>7. 1 \in DOMAIN t
    BY <1>1, <1>4
  <1>. QED
    BY <1>4, <1>5, <1>6, <1>7 DEF Clean, t, h, r

LEMMA CleanWithBlock ==
    ASSUME NEW s, Clean(s), NEW b \in Block \ {"kimlik"}, NEW p
    PROVE  Clean(WithBlock(s, b, p))
  BY CleanWithout, CleanInsert DEF WithBlock

-----------------------------------------------------------------------------
(* What a step makes of the history.                                       *)

LEMMA NumbersOf == ASSUME NEW c PROVE Numbers(c) = {x.no : x \in {c[i] : i \in Positions(c)}}
  BY DEF Numbers

LEMMA HistoryNarrowed ==
    ASSUME NEW b \in Seq(Block), NEW c, NEW sums, NEW n \in Nat, NEW sp, NEW q,
           History(c, sums, n, sp, q), NEW u, NEW v, NarrowTo(b, c, q, sums, u, v)
    PROVE  History(u, v, n, sp, q) /\ Fit(b, u)
  <1>1. /\ c \in Seq(Message) /\ sums \in Seq(Nat) /\ Len(sums) <= OZET_SATIR
        /\ \A x \in InSeq(c) : x.no \in 1 .. n /\ (x.no \in sp => Said(x))
        /\ \A i \in sp : i \in Numbers(c) \cup InSeq(sums) \/ Len(sums) = OZET_SATIR
        /\ q # NoText => Asking(q, c) \/ q \in BlockLike
    BY DEF History
  <1>2. /\ u \in Seq(Message) /\ InSeq(u) \subseteq InSeq(c)
        /\ v \in Seq(Nat) /\ Len(v) <= OZET_SATIR
        /\ Fit(b, u)
        /\ \A m : m \in InSeq(sums) \/ Len(sums) = OZET_SATIR => Traced(m, u, v)
        /\ \A i \in SaidAt(c) : Traced(c[i].no, u, v)
        /\ q # NoText /\ Asking(q, c) => Asking(q, u)
    BY <1>1, Narrowed
  <1>3. ASSUME NEW i \in sp PROVE Traced(i, u, v)
    <2>1. CASE i \in Numbers(c)
      <3>1. PICK p \in Positions(c) : c[p].no = i
        BY <2>1 DEF Numbers
      <3>2. c[p] \in InSeq(c)
        BY <1>1 DEF InSeq, Positions
      <3>3. p \in SaidAt(c)
        BY <1>1, <3>1, <3>2 DEF SaidAt
      <3>. QED
        BY <1>2, <3>1, <3>3
    <2>2. CASE i \notin Numbers(c)
      BY <1>1, <1>2, <2>2
    <2>. QED
      BY <2>1, <2>2
  <1>4. \A x \in InSeq(u) : x.no \in 1 .. n /\ (x.no \in sp => Said(x))
    BY <1>1, <1>2
  <1>5. q # NoText => Asking(q, u) \/ q \in BlockLike
    BY <1>1, <1>2
  <1>. QED
    BY <1>2, <1>3, <1>4, <1>5 DEF History, Traced

\* A message more; that it is said, and that it asks, is optional.
LEMMA HistoryGrown ==
    ASSUME NEW c, NEW sums, NEW n \in Nat, NEW sp, sp \subseteq 1 .. n, NEW q,
           History(c, sums, n, sp, q), NEW x \in Message, x.no = n + 1,
           NEW sp2, sp2 = sp \/ (sp2 = sp \cup {n + 1} /\ Said(x)),
           NEW q2, q2 \in {q, NoText} \/ (x.role = "assistant" /\ x.text = q2)
    PROVE  History(Append(c, x), sums, n + 1, sp2, q2) /\ sp2 \subseteq 1 .. n + 1
  <1>. DEFINE t == Append(c, x)
  <1>1. /\ c \in Seq(Message) /\ sums \in Seq(Nat) /\ Len(sums) <= OZET_SATIR
        /\ \A y \in InSeq(c) : y.no \in 1 .. n /\ (y.no \in sp => Said(y))
        /\ \A i \in sp : i \in Numbers(c) \cup InSeq(sums) \/ Len(sums) = OZET_SATIR
        /\ q # NoText => Asking(q, c) \/ q \in BlockLike
    BY DEF History
  <1>2. t \in Seq(Message) /\ InSeq(t) = InSeq(c) \cup {x} /\ DOMAIN c = Positions(c) /\ DOMAIN t = Positions(t)
    BY <1>1, InAppended DEF Positions
  <1>. HIDE DEF t
  <1>3. Numbers(c) = {y.no : y \in InSeq(c)} /\ Numbers(t) = {y.no : y \in InSeq(t)}
    BY <1>2, NumbersOf, Zenon DEF InSeq
  <1>4. Numbers(t) = Numbers(c) \cup {n + 1}
    BY <1>2, <1>3
  <1>5. \A y \in InSeq(t) : y.no \in 1 .. n + 1 /\ (y.no \in sp2 => Said(y))
    <2>. SUFFICES ASSUME NEW y \in InSeq(t)
                  PROVE  y.no \in 1 .. n + 1 /\ (y.no \in sp2 => Said(y))
      OBVIOUS
    <2>1. CASE y = x
      BY <2>1
    <2>2. CASE y # x
      <3>1. y \in InSeq(c) /\ y.no \in 1 .. n
        BY <1>1, <1>2, <2>2
      <3>. QED
        BY <1>1, <3>1
    <2>. QED
      BY <2>1, <2>2
  <1>6. \A i \in sp2 : i \in Numbers(t) \cup InSeq(sums) \/ Len(sums) = OZET_SATIR
    BY <1>1, <1>4
  <1>7. q2 # NoText => Asking(q2, t) \/ q2 \in BlockLike
    BY <1>1, <1>2 DEF Asking
  <1>8. sp2 \subseteq 1 .. n + 1
    <2>1. \A i \in 1 .. n : i \in 1 .. n + 1
      OBVIOUS
    <2>2. n + 1 \in 1 .. n + 1
      OBVIOUS
    <2>. QED
      BY <2>1, <2>2
  <1>. QED
    BY <1>1, <1>2, <1>5, <1>6, <1>7, <1>8 DEF History, t

\* Messages of tools, none of them said.
LEMMA HistoryOfResults ==
    ASSUME NEW c, NEW sums, NEW n \in Nat, NEW sp, sp \subseteq 1 .. n, NEW q,
           History(c, sums, n, sp, q), NEW m \in Nat, n <= m,
           NEW r \in Seq(Message), \A i \in DOMAIN r : r[i].no \in n + 1 .. m
    PROVE  History(c \o r, sums, m, sp, q)
  <1>. DEFINE t == c \o r
  <1>1. /\ c \in Seq(Message) /\ sums \in Seq(Nat) /\ Len(sums) <= OZET_SATIR
        /\ \A y \in InSeq(c) : y.no \in 1 .. n /\ (y.no \in sp => Said(y))
        /\ \A i \in sp : i \in Numbers(c) \cup InSeq(sums) \/ Len(sums) = OZET_SATIR
        /\ q # NoText => Asking(q, c) \/ q \in BlockLike
    BY DEF History
  <1>2. /\ t \in Seq(Message) /\ Len(t) = Len(c) + Len(r) /\ Len(c) \in Nat /\ Len(r) \in Nat
        /\ \A i \in 1 .. Len(c) + Len(r) : t[i] = IF i <= Len(c) THEN c[i] ELSE r[i - Len(c)]
        /\ DOMAIN c = 1 .. Len(c) /\ DOMAIN t = 1 .. Len(t) /\ DOMAIN r = 1 .. Len(r)
    BY <1>1, ConcatProperties
  <1>. HIDE DEF t
  <1>3. \A y \in InSeq(t) : y \in InSeq(c) \/ y.no \in n + 1 .. m
    <2>. SUFFICES ASSUME NEW y \in InSeq(t) PROVE y \in InSeq(c) \/ y.no \in n + 1 .. m
      OBVIOUS
    <2>1. PICK i \in 1 .. Len(t) : y = t[i]
      BY <1>2 DEF InSeq
    <2>2. CASE i <= Len(c)
      <3>1. i \in DOMAIN c /\ y = c[i]
        BY <1>2, <2>1, <2>2
      <3>. QED
        BY <3>1 DEF InSeq
    <2>3. CASE i > Len(c)
      <3>1. i - Len(c) \in DOMAIN r /\ y = r[i - Len(c)]
        BY <1>2, <2>1, <2>3
      <3>. QED
        BY <3>1
    <2>. QED
      BY <1>2, <2>2, <2>3
  <1>4. InSeq(c) \subseteq InSeq(t)
    <2>. SUFFICES ASSUME NEW y \in InSeq(c) PROVE y \in InSeq(t)
      OBVIOUS
    <2>1. PICK i \in 1 .. Len(c) : y = c[i]
      BY <1>2 DEF InSeq
    <2>2. i \in DOMAIN t /\ y = t[i]
      BY <1>2, <2>1
    <2>. QED
      BY <2>2 DEF InSeq
  <1>5. \A y \in InSeq(t) : y.no \in 1 .. m /\ (y.no \in sp => Said(y))
    <2>. SUFFICES ASSUME NEW y \in InSeq(t)
                  PROVE  y.no \in 1 .. m /\ (y.no \in sp => Said(y))
      OBVIOUS
    <2>1. CASE y \in InSeq(c)
      <3>1. y.no \in 1 .. n /\ (y.no \in sp => Said(y))
        BY <1>1, <2>1
      <3>. QED
        BY <3>1
    <2>2. CASE y.no \in n + 1 .. m
      BY <2>2
    <2>. QED
      BY <1>3, <2>1, <2>2
  <1>6. Numbers(c) = {y.no : y \in InSeq(c)} /\ Numbers(t) = {y.no : y \in InSeq(t)}
    BY <1>2, NumbersOf, Zenon DEF InSeq, Positions
  <1>7. Numbers(c) \subseteq Numbers(t)
    BY <1>4, <1>6
  <1>. QED
    BY <1>1, <1>2, <1>4, <1>5, <1>7 DEF History, Asking, t

\* The history without what is taken for a block.
LEMMA HistoryNotTaken ==
    ASSUME NEW c, NEW sums, NEW n, NEW sp, NEW q, History(c, sums, n, sp, q)
    PROVE  History(NotTaken(c), sums, n, sp \ {c[i].no : i \in BlocksAt(c)}, q)
  <1>. DEFINE P == Positions(c) \ BlocksAt(c)
              t == NotTaken(c)
              sp2 == sp \ {c[i].no : i \in BlocksAt(c)}
  <1>1. /\ c \in Seq(Message) /\ sums \in Seq(Nat) /\ Len(sums) <= OZET_SATIR
        /\ \A y \in InSeq(c) : y.no \in 1 .. n /\ (y.no \in sp => Said(y))
        /\ \A i \in sp : i \in Numbers(c) \cup InSeq(sums) \/ Len(sums) = OZET_SATIR
        /\ q # NoText => Asking(q, c) \/ q \in BlockLike
    BY DEF History
  <1>2. t \in Seq(Message) /\ InSeq(t) = {c[i] : i \in P} /\ Positions(c) = DOMAIN c
    <2>1. P \cap DOMAIN c = P /\ Positions(c) = DOMAIN c
      BY <1>1 DEF Positions
    <2>. QED
      BY <1>1, <2>1, ElementsOf DEF NotTaken
  <1>3. Numbers(t) = {y.no : y \in InSeq(t)}
    <2>1. DOMAIN t = Positions(t)
      BY <1>2 DEF Positions
    <2>. QED
      BY <2>1, NumbersOf, Zenon DEF InSeq
  <1>. HIDE DEF t
  <1>4. \A y \in InSeq(t) : y \in InSeq(c)
    BY <1>2 DEF InSeq
  <1>5. \A i \in sp2 : i \in Numbers(t) \cup InSeq(sums) \/ Len(sums) = OZET_SATIR
    <2>. SUFFICES ASSUME NEW i \in sp2, i \in Numbers(c) PROVE i \in Numbers(t)
      BY <1>1
    <2>1. PICK p \in Positions(c) : c[p].no = i
      BY DEF Numbers
    <2>2. p \in P
      BY <2>1
    <2>. QED
      BY <1>2, <1>3, <2>1, <2>2
  <1>6. q # NoText => Asking(q, t) \/ q \in BlockLike
    <2>. SUFFICES ASSUME q # NoText, q \notin BlockLike PROVE Asking(q, t)
      OBVIOUS
    <2>1. PICK y \in InSeq(c) : y.role = "assistant" /\ y.text = q
      BY <1>1 DEF Asking
    <2>2. PICK i \in Positions(c) : y = c[i]
      BY <1>2 DEF InSeq
    <2>3. i \in P
      BY <2>1, <2>2 DEF BlocksAt
    <2>. QED
      BY <1>2, <2>1, <2>2, <2>3 DEF Asking
  <1>. HIDE DEF sp2
  <1>7. \A y \in InSeq(t) : y.no \in sp2 => Said(y)
    BY <1>1, <1>4 DEF sp2
  <1>. QED
    BY <1>1, <1>2, <1>4, <1>5, <1>6, <1>7 DEF History, t, sp2

-----------------------------------------------------------------------------
(* The steps.                                                              *)

LEMMA MsgType ==
    ASSUME NEW role \in Role, NEW t \in Text \cup {NoText}, NEW size \in Nat, NEW n \in Nat
    PROVE  /\ Msg(role, t, size, n) \in Message /\ Msg(role, t, size, n).no = n
           /\ Msg(role, t, size, n).role = role /\ Msg(role, t, size, n).text = t
  BY DEF Msg, Message

LEMMA SentenceIsSaid ==
    ASSUME NEW role \in {"user", "assistant"}, NEW t \in Text, NEW size, NEW n
    PROVE  Said(Msg(role, t, size, n))
  BY TextAssumption DEF Said, Msg

LEMMA WindowInitInv == WindowInit => WindowInv
  <1>. SUFFICES ASSUME WindowInit PROVE WindowInv
    OBVIOUS
  <1>1. Clean(sistem)
    BY DEF WindowInit, Clean, Block
  <1>2. History(conv, summary, no, spoken, pending)
    <2>1. <<>> \in Seq(Message) /\ <<>> \in Seq(Nat) /\ Len(<<>>) <= OZET_SATIR /\ InSeq(<<>>) = {}
      BY WindowBounds DEF InSeq
    <2>. QED
      BY <2>1 DEF WindowInit, History
  <1>. QED
    BY <1>1, <1>2 DEF WindowInit, WindowInv

LEMMA AskTurnInv ==
    ASSUME WindowInv, NEW t \in Text \ Asks, NEW facts \in BOOLEAN, AskTurn(t, facts)
    PROVE  WindowInv'
  <1>. DEFINE first == ~\E i \in Positions(conv) : conv[i].role = "user"
              s0 == IF first THEN sistem ELSE Without(sistem, "ilk_tur")
              s1 == WithBlock(WithBlock(s0, "niyet", TRUE), "hafiza", facts)
              s2 == IF first THEN Append(s1, "ilk_tur") ELSE s1
              s3 == WithBlock(s2, "durum", PendingAfter(t) # NoText \/ summary # <<>>)
              x == Msg("user", t, Size[t], no + 1)
              c == Append(NotTaken(conv), x)
              sp == spoken \ {conv[i].no : i \in BlocksAt(conv)}
              q == PendingAfter(t)
  <1>1. /\ sistem' = s3 /\ pending' = q /\ Narrow(s3, c, q) /\ spoken' = sp \cup {no + 1}
        /\ no' = no + 1 /\ turnAt' = "model"
    BY DEF AskTurn
  <1>2. /\ pending \in Asks \cup {NoText} /\ no \in Nat /\ spoken \subseteq 1 .. no /\ Clean(sistem)
        /\ History(conv, summary, no, spoken, pending)
    BY DEF WindowInv
  <1>3. Clean(s3)
    <2>1. Clean(s0)
      BY <1>2, CleanWithout DEF Block
    <2>2. Clean(WithBlock(s0, "niyet", TRUE))
      BY <2>1, CleanWithBlock DEF Block
    <2>3. Clean(s1)
      BY <2>2, CleanWithBlock DEF Block
    <2>4. Clean(s2)
      BY <2>3, CleanAppend
    <2>. HIDE DEF s2
    <2>. QED
      BY <2>4, CleanWithBlock DEF Block
  <1>4. q \in {pending, NoText} /\ q \in Asks \cup {NoText}
    BY <1>2 DEF PendingAfter
  <1>5. x \in Message /\ x.no = no + 1 /\ Said(x)
    <2>1. "user" \in Role /\ t \in Text \cup {NoText} /\ Size[t] \in Nat /\ no + 1 \in Nat
      BY <1>2, TextAssumption DEF Role
    <2>. QED
      BY <2>1, MsgType, SentenceIsSaid
  <1>. HIDE DEF s3, x, q
  <1>6. History(NotTaken(conv), summary, no, sp, pending) /\ sp \subseteq 1 .. no
    BY <1>2, HistoryNotTaken
  <1>. HIDE DEF sp
  <1>7. History(c, summary, no + 1, sp \cup {no + 1}, q) /\ sp \cup {no + 1} \subseteq 1 .. no + 1
    BY <1>2, <1>4, <1>5, <1>6, HistoryGrown
  <1>8. NarrowTo(s3, c, q, summary, conv', summary')
    BY <1>1, Zenon DEF Narrow, NarrowTo
  <1>. HIDE DEF c
  <1>9. s3 \in Seq(Block) /\ no + 1 \in Nat
    BY <1>2, <1>3 DEF Clean
  <1>10. History(conv', summary', no + 1, sp \cup {no + 1}, q) /\ Fit(s3, conv')
    BY <1>7, <1>8, <1>9, HistoryNarrowed
  <1>11. (Clean(sistem))' = Clean(s3)
    BY <1>1, Zenon DEF Clean
  <1>12. (History(conv, summary, no, spoken, pending))'
           = History(conv', summary', no + 1, sp \cup {no + 1}, q)
    BY <1>1, Zenon DEF History, Asking, InSeq, Numbers, Positions
  <1>13. (Fit(sistem, conv))' = Fit(s3, conv')
    BY <1>1, Zenon DEF Fit, Length, Room, Positions
  <1>. QED
    BY <1>1, <1>3, <1>4, <1>7, <1>9, <1>10, <1>11, <1>12, <1>13 DEF WindowInv

LEMMA ToolRoundInv ==
    ASSUME WindowInv, NEW t \in (Text \ BoundReply) \cup {NoText}, NEW n \in 1 .. MaxResults,
           NEW size \in ResultSize, ToolRound(t, n, size)
    PROVE  WindowInv'
  <1>. DEFINE call == Msg("assistant", t, SizeOf(t), no + 1)
              results == [i \in 1 .. n |-> Msg("tool", NoText, size, no + 1 + i)]
              c1 == Append(conv, call)
              c == c1 \o results
              sp == IF t = NoText THEN spoken ELSE spoken \cup {no + 1}
  <1>1. /\ Narrow(sistem, c, pending) /\ turnAt = "model" /\ no' = no + 1 + n
        /\ spoken' = sp /\ UNCHANGED <<sistem, pending, turnAt>>
    BY DEF ToolRound
  <1>2. /\ pending \in Asks \cup {NoText} /\ no \in Nat /\ spoken \subseteq 1 .. no /\ Clean(sistem)
        /\ History(conv, summary, no, spoken, pending)
    BY DEF WindowInv
  <1>3. n \in Nat /\ size \in Nat /\ no + 1 \in Nat /\ no + 1 + n \in Nat
    BY <1>2, WindowBounds, TextAssumption
  <1>4. call \in Message /\ call.no = no + 1 /\ (t # NoText => Said(call))
    <2>1. "assistant" \in Role /\ t \in Text \cup {NoText} /\ SizeOf(t) \in Nat
      BY TextAssumption DEF Role, SizeOf
    <2>2. call \in Message /\ call.no = no + 1 /\ call.role = "assistant" /\ call.text = t
      BY <1>3, <2>1, MsgType
    <2>. HIDE DEF call
    <2>. QED
      BY <2>2 DEF Said
  <1>5. results \in Seq(Message) /\ \A i \in DOMAIN results : results[i].no \in (no + 1) + 1 .. no + 1 + n
    <2>1. ASSUME NEW i \in 1 .. n
          PROVE  /\ Msg("tool", NoText, size, no + 1 + i) \in Message
                 /\ Msg("tool", NoText, size, no + 1 + i).no \in (no + 1) + 1 .. no + 1 + n
      <3>1. PICK k \in Nat : k = no + 1 + i /\ k \in (no + 1) + 1 .. no + 1 + n
        BY <1>2, <1>3
      <3>2. "tool" \in Role /\ NoText \in Text \cup {NoText}
        BY DEF Role
      <3>. QED
        BY <1>3, <3>1, <3>2 DEF Msg, Message
    <2>2. DOMAIN results = 1 .. n /\ results \in [1 .. n -> Message]
      BY <2>1
    <2>. QED
      BY <1>3, <2>1, <2>2
  <1>. HIDE DEF call, results
  <1>6. History(c1, summary, no + 1, sp, pending) /\ sp \subseteq 1 .. no + 1
    <2>1. sp = spoken \/ (sp = spoken \cup {no + 1} /\ Said(call))
      BY <1>4
    <2>. HIDE DEF sp
    <2>. QED
      BY <1>2, <1>4, <2>1, HistoryGrown
  <1>. HIDE DEF c1, sp
  <1>7. History(c, summary, no + 1 + n, sp, pending)
    <2>1. no + 1 <= no + 1 + n
      BY <1>2, <1>3
    <2>. QED
      BY <1>3, <1>5, <1>6, <2>1, HistoryOfResults
  <1>8. NarrowTo(sistem, c, pending, summary, conv', summary')
    BY <1>1, Zenon DEF Narrow, NarrowTo
  <1>. HIDE DEF c
  <1>9. sistem \in Seq(Block)
    BY <1>2 DEF Clean
  <1>10. History(conv', summary', no + 1 + n, sp, pending) /\ Fit(sistem, conv')
    BY <1>3, <1>7, <1>8, <1>9, HistoryNarrowed
  <1>11. (Clean(sistem))' = Clean(sistem)
    BY <1>1, Zenon DEF Clean
  <1>12. (History(conv, summary, no, spoken, pending))'
           = History(conv', summary', no + 1 + n, sp, pending)
    BY <1>1, Zenon DEF History, Asking, InSeq, Numbers, Positions
  <1>13. (Fit(sistem, conv))' = Fit(sistem, conv')
    BY <1>1, Zenon DEF Fit, Length, Room, Positions
  <1>14. sp \subseteq 1 .. no + 1 + n
    BY <1>2, <1>3, <1>6
  <1>. QED
    BY <1>1, <1>2, <1>3, <1>10, <1>11, <1>12, <1>13, <1>14 DEF WindowInv

LEMMA AnswerInv ==
    ASSUME WindowInv, NEW t \in Text \ BoundReply, Answer(t)
    PROVE  WindowInv'
  <1>. DEFINE x == Msg("assistant", t, Size[t], no + 1)
              c == Append(conv, x)
              q == Caught(t)
  <1>1. /\ Narrow(sistem, c, q) \/ (conv' = c /\ summary' = summary)
        /\ pending' = q /\ turnAt' = "idle" /\ no' = no + 1 /\ spoken' = spoken \cup {no + 1}
        /\ sistem' = sistem
    BY DEF Answer
  <1>2. /\ no \in Nat /\ spoken \subseteq 1 .. no /\ Clean(sistem)
        /\ History(conv, summary, no, spoken, pending)
    BY DEF WindowInv
  <1>3. x \in Message /\ x.no = no + 1 /\ x.role = "assistant" /\ x.text = t /\ Said(x)
    <2>1. "assistant" \in Role /\ t \in Text \cup {NoText} /\ Size[t] \in Nat /\ no + 1 \in Nat
      BY <1>2, TextAssumption DEF Role
    <2>. QED
      BY <2>1, MsgType, SentenceIsSaid
  <1>4. q \in Asks \cup {NoText} /\ (q = NoText \/ q = t)
    BY DEF Caught
  <1>. HIDE DEF x, q
  <1>5. History(c, summary, no + 1, spoken \cup {no + 1}, q) /\ spoken \cup {no + 1} \subseteq 1 .. no + 1
    BY <1>2, <1>3, <1>4, HistoryGrown
  <1>. HIDE DEF c
  <1>6. sistem \in Seq(Block) /\ no + 1 \in Nat
    BY <1>2 DEF Clean
  <1>7. History(conv', summary', no + 1, spoken \cup {no + 1}, q)
    <2>1. CASE Narrow(sistem, c, q)
      <3>1. NarrowTo(sistem, c, q, summary, conv', summary')
        BY <2>1, Zenon DEF Narrow, NarrowTo
      <3>. QED
        BY <1>5, <1>6, <3>1, HistoryNarrowed
    <2>2. CASE conv' = c /\ summary' = summary
      BY <1>5, <2>2
    <2>. QED
      BY <1>1, <2>1, <2>2
  <1>8. (Clean(sistem))' = Clean(sistem)
    BY <1>1, Zenon DEF Clean
  <1>9. (History(conv, summary, no, spoken, pending))'
          = History(conv', summary', no + 1, spoken \cup {no + 1}, q)
    BY <1>1, Zenon DEF History, Asking, InSeq, Numbers, Positions
  <1>. QED
    BY <1>1, <1>2, <1>4, <1>5, <1>6, <1>7, <1>8, <1>9 DEF WindowInv

LEMMA DirectReplyInv ==
    ASSUME WindowInv, NEW t \in Text, NEW reply \in Text, DirectReply(t, reply)
    PROVE  WindowInv'
  <1>. DEFINE x == Msg("user", t, Size[t], no + 1)
              y == Msg("assistant", reply, Size[reply], no + 2)
              c1 == Append(conv, x)
              c == Append(c1, y)
              s == IF \E i \in Positions(conv) : conv[i].role = "user"
                   THEN Without(sistem, "ilk_tur") ELSE sistem
  <1>1. /\ sistem' = s /\ Narrow(sistem', conv \o <<x, y>>, pending)
        /\ turnAt = "idle" /\ no' = no + 2 /\ spoken' = spoken \cup {no + 1, no + 2}
        /\ UNCHANGED <<pending, turnAt>>
    BY DEF DirectReply
  <1>2. /\ no \in Nat /\ spoken \subseteq 1 .. no /\ Clean(sistem) /\ pending \in Asks \cup {NoText}
        /\ History(conv, summary, no, spoken, pending)
    BY DEF WindowInv
  <1>3. /\ x \in Message /\ x.no = no + 1 /\ Said(x)
        /\ y \in Message /\ y.no = no + 2 /\ Said(y)
    <2>1. /\ {"user", "assistant"} \subseteq Role /\ {t, reply} \subseteq Text \cup {NoText}
          /\ Size[t] \in Nat /\ Size[reply] \in Nat /\ no + 1 \in Nat /\ no + 2 \in Nat
      BY <1>2, TextAssumption DEF Role
    <2>. QED
      BY <2>1, MsgType, SentenceIsSaid
  <1>. HIDE DEF x, y
  <1>4. Clean(s)
    BY <1>2, CleanWithout DEF Block
  <1>5. conv \o <<x, y>> = c
    <2>1. conv \in Seq(Message)
      BY <1>2 DEF History
    <2>. QED
      BY <1>3, <2>1
  <1>. HIDE DEF s
  <1>6. History(c1, summary, no + 1, spoken \cup {no + 1}, pending)
        /\ spoken \cup {no + 1} \subseteq 1 .. no + 1
    BY <1>2, <1>3, HistoryGrown
  <1>. HIDE DEF c1
  <1>7. History(c, summary, no + 2, spoken \cup {no + 1, no + 2}, pending)
        /\ spoken \cup {no + 1, no + 2} \subseteq 1 .. no + 2
    <2>1. PICK m \in Nat : m = no + 1 /\ m + 1 = no + 2
      BY <1>2
    <2>2. PICK sp : sp = spoken \cup {no + 1}
      OBVIOUS
    <2>3. History(c1, summary, m, sp, pending) /\ sp \subseteq 1 .. m /\ y.no = m + 1
      BY <1>3, <1>6, <2>1, <2>2
    <2>4. History(c, summary, m + 1, sp \cup {m + 1}, pending) /\ sp \cup {m + 1} \subseteq 1 .. m + 1
      BY <1>3, <2>3, HistoryGrown
    <2>5. sp \cup {m + 1} = spoken \cup {no + 1, no + 2}
      BY <2>1, <2>2
    <2>. QED
      BY <2>1, <2>4, <2>5
  <1>8. NarrowTo(s, c, pending, summary, conv', summary')
    BY <1>1, <1>5, Zenon DEF Narrow, NarrowTo
  <1>. HIDE DEF c
  <1>9. s \in Seq(Block) /\ no + 2 \in Nat
    BY <1>2, <1>4 DEF Clean
  <1>10. History(conv', summary', no + 2, spoken \cup {no + 1, no + 2}, pending)
    BY <1>7, <1>8, <1>9, HistoryNarrowed
  <1>11. (Clean(sistem))' = Clean(s)
    BY <1>1, Zenon DEF Clean
  <1>12. (History(conv, summary, no, spoken, pending))'
           = History(conv', summary', no + 2, spoken \cup {no + 1, no + 2}, pending)
    BY <1>1, Zenon DEF History, Asking, InSeq, Numbers, Positions
  <1>. QED
    BY <1>1, <1>2, <1>4, <1>7, <1>9, <1>10, <1>11, <1>12 DEF WindowInv

LEMMA WindowStepInv == WindowInv /\ [WindowNext]_windowVars => WindowInv'
  <1>. SUFFICES ASSUME WindowInv, [WindowNext]_windowVars PROVE WindowInv'
    OBVIOUS
  <1>1. ASSUME NEW t \in Text \ Asks, NEW facts \in BOOLEAN, AskTurn(t, facts) PROVE WindowInv'
    BY <1>1, AskTurnInv
  <1>2. ASSUME NEW t \in (Text \ BoundReply) \cup {NoText}, NEW n \in 1 .. MaxResults,
               NEW size \in ResultSize, ToolRound(t, n, size)
        PROVE  WindowInv'
    BY <1>2, ToolRoundInv
  <1>3. ASSUME NEW t \in Text \ BoundReply, Answer(t) PROVE WindowInv'
    BY <1>3, AnswerInv
  <1>4. ASSUME NEW t \in Text \ (Asks \cup BoundReply), DirectReply(t, t) PROVE WindowInv'
    BY <1>4, DirectReplyInv
  <1>5. CASE UNCHANGED windowVars
    <2>. UNCHANGED <<sistem, conv, pending, summary, turnAt, no, spoken>>
      BY <1>5 DEF windowVars
    <2>. QED
      BY DEF WindowInv, Clean, History, Asking, InSeq, Numbers, Positions, Fit, Length, Room
  <1>. QED
    BY <1>1, <1>2, <1>3, <1>4, <1>5, Zenon DEF WindowNext

LEMMA WindowInvSays == WindowInv => WindowIsFaithful
  <1>. SUFFICES ASSUME WindowInv PROVE WindowIsFaithful
    OBVIOUS
  <1>1. /\ pending \in Asks \cup {NoText} /\ turnAt \in {"idle", "model"}
        /\ no \in Nat /\ spoken \subseteq 1 .. no /\ Clean(sistem)
        /\ turnAt = "model" => Fit(sistem, conv)
    BY DEF WindowInv
  <1>2. /\ conv \in Seq(Message) /\ \A x \in InSeq(conv) : x.no \in 1 .. no
        /\ Len(summary) <= OZET_SATIR
        /\ \A i \in spoken : i \in Numbers(conv) \cup InSeq(summary) \/ Len(summary) = OZET_SATIR
        /\ pending # NoText => Asking(pending, conv) \/ pending \in BlockLike
    BY DEF WindowInv, History
  <1>3. DOMAIN conv = Positions(conv) /\ \A i \in Positions(conv) : conv[i] \in Message /\ conv[i] \in InSeq(conv)
    BY <1>2 DEF Positions, InSeq
  <1>4. sistem \in Seq(Block) /\ DOMAIN sistem = Positions(sistem)
    BY <1>1 DEF Clean, Positions
  <1>5. WindowTypeOK
    <2>1. \A i \in Positions(sistem) : sistem[i] \in Block
      BY <1>4 DEF Positions
    <2>2. \A i \in Positions(conv) : /\ conv[i].role \in Role /\ conv[i].text \in Text \cup {NoText}
                                     /\ conv[i].no \in 1 .. no
      BY <1>2, <1>3 DEF Message
    <2>. QED
      BY <1>1, <1>2, <2>1, <2>2 DEF WindowTypeOK, Block, Role
  <1>6. IdentityFirstBlocksOnce
    <2>1. \A i, j \in Positions(sistem) : i \in Int /\ j \in Int
      BY DEF Positions
    <2>2. \A i, j \in Positions(sistem) : i < j /\ sistem[i] = sistem[j] => sistem[i] = "ilk_tur"
      BY <1>1, <1>4 DEF Clean
    <2>3. ASSUME NEW i \in Positions(sistem), NEW j \in Positions(sistem), sistem[i] = sistem[j], i # j
          PROVE  sistem[i] = "ilk_tur"
      <3>1. i < j \/ j < i
        BY <2>1, <2>3
      <3>. QED
        BY <2>2, <2>3, <3>1
    <2>. QED
      BY <1>1, <2>3 DEF IdentityFirstBlocksOnce, Clean
  <1>7. SentFits
    BY <1>1 DEF SentFits, Fit
  <1>8. NothingFadesUnseen
    BY <1>2 DEF NothingFadesUnseen, InSeq
  <1>9. PendingIsKept
    <2>. SUFFICES ASSUME pending # NoText, pending \notin BlockLike
                  PROVE  \E i \in Positions(conv) : conv[i].role = "assistant" /\ conv[i].text = pending
      BY DEF PendingIsKept
    <2>1. PICK x \in InSeq(conv) : x.role = "assistant" /\ x.text = pending
      BY <1>2 DEF Asking
    <2>. QED
      BY <1>3, <2>1 DEF InSeq
  <1>. QED
    BY <1>5, <1>6, <1>7, <1>8, <1>9 DEF WindowIsFaithful

\* What the model is sent: the identity first and no block beside its
\* successor, beyond the newest messages and the question no more than the
\* budget and the count, no sentence gone before the summary has its line or
\* is full, and the question the owner is answering, for every set of texts,
\* every budget and every length of the window and of the summary.
THEOREM WindowStaysFaithful == WindowSpec => []WindowIsFaithful
  BY WindowInitInv, WindowStepInv, WindowInvSays, PTL DEF WindowSpec

-----------------------------------------------------------------------------
(***************************************************************************)
(* TurnRouting. RoutingIsClean is inductive with the types of the trace    *)
(* alone; what its steps need is what the rules of the intent and the      *)
(* choice of the schemas return.                                           *)
(***************************************************************************)

RuleTools == {"recall_facts", "forget_fact", "remember_fact", "bilgi_ara", "web_ara",
              "uygulama_ac", "run_terminal_command"}

RoutingTypes ==
  /\ last_intent.tool \in RuleTools \cup {NoRoute} /\ last_intent.level \in 0 .. 4
  /\ son_kategoriler \in BOOLEAN /\ training_active \in BOOLEAN
  /\ debug_mode \in BOOLEAN /\ kb_empty \in BOOLEAN
  /\ son_arac_adlari \in Seq(Toolset)
  /\ active_role \in {NoRoute, "coder", "system", "researcher"}

RoutingInv == RoutingTypes /\ NoTopicLeaks

-----------------------------------------------------------------------------
(* The rules and the registry.                                             *)

LEMMA RegistryType == Registry \in Seq(Toolset)
  <1>1. Registry = [i \in 1 .. 44 |-> Registry[i]] /\ DOMAIN Registry = 1 .. 44
    BY DEF Registry
  <1>2. \A i \in 1 .. 44 : Registry[i] \in Toolset
    BY <1>1 DEF Toolset, InSeq
  <1>. QED
    BY <1>1, <1>2

LEMMA RuleToolsAreTools == RuleTools \subseteq Toolset
  <1>1. 1 .. 44 = DOMAIN Registry
    BY DEF Registry
  <1>2. /\ Registry[15] = "recall_facts" /\ Registry[16] = "forget_fact"
        /\ Registry[14] = "remember_fact" /\ Registry[37] = "bilgi_ara"
        /\ Registry[39] = "web_ara" /\ Registry[43] = "uygulama_ac"
        /\ Registry[24] = "run_terminal_command"
    BY DEF Registry
  <1>3. \A i \in 1 .. 44 : Registry[i] \in Toolset
    BY <1>1 DEF Toolset, InSeq
  <1>. QED
    BY <1>2, <1>3 DEF RuleTools

LEMMA RulesType == DOMAIN Rules = 1 .. 21 /\ \A i \in 1 .. 21 : Rules[i][4] \in RuleTools \cup {NoRoute}
  BY DEF Rules, RuleTools, NoRoute

\* The rule of a sentence is the first that its cues hit.
LEMMA RuleOfSentence ==
    ASSUME NEW s \in Sentence
    PROVE  RuleOf[s.cues] = LET hit == {i \in DOMAIN Rules : Rules[i][1] \in s.cues}
                            IN IF hit = {} THEN <<"", "CHAT", NoRoute, NoRoute>>
                               ELSE Rules[CHOOSE i \in hit : \A j \in hit : i <= j]
  <1>1. Rules[15][1] = "web" /\ 15 \in DOMAIN Rules
    BY DEF Rules
  <1>2. "web" \in Cue
    BY <1>1, Zenon DEF Cue
  <1>3. s.cues \in Cues \cup {{}, {"web"}}
    BY DEF Sentence
  <1>4. s.cues \in Cues
    BY <1>2, <1>3, Zenon DEF Cues
  <1>. QED
    BY <1>4, Zenon DEF RuleOf

LEMMA RouteOfType ==
    ASSUME NEW s \in Sentence
    PROVE  RouteOf(s).tool \in RuleTools \cup {NoRoute} /\ RouteOf(s).level \in 0 .. 4
  <1>. DEFINE hit == {i \in DOMAIN Rules : Rules[i][1] \in s.cues}
              rule == IF hit = {} THEN <<"", "CHAT", NoRoute, NoRoute>>
                      ELSE Rules[CHOOSE i \in hit : \A j \in hit : i <= j]
  <1>1. RouteOf(s) = [intent |-> rule[2], subtype |-> rule[3], tool |-> rule[4],
                      level |-> IF s.form = "wake" THEN 0 ELSE Level(rule[2])]
    BY RuleOfSentence, Zenon DEF RouteOf
  <1>2. rule[4] \in RuleTools \cup {NoRoute}
    <2>1. CASE hit = {}
      BY <2>1
    <2>2. CASE hit # {}
      <3>1. hit \subseteq Nat /\ hit \subseteq 1 .. 21
        BY RulesType
      <3>2. \E i \in hit : \A j \in hit : i <= j
        BY <2>2, <3>1, LeastNat
      <3>3. (CHOOSE i \in hit : \A j \in hit : i <= j) \in hit
        BY <3>2, Zenon
      <3>. QED
        BY <2>2, <3>1, <3>3, RulesType
    <2>. QED
      BY <2>1, <2>2
  <1>3. \A intent : Level(intent) \in 0 .. 4
    BY DEF Level
  <1>. HIDE DEF rule
  <1>. QED
    BY <1>1, <1>2, <1>3

-----------------------------------------------------------------------------
(* The schemas of a turn.                                                  *)

LEMMA CandidatesType == ASSUME NEW empty PROVE Candidates(empty) \subseteq Toolset
  BY DEF Candidates, Toolset

LEMMA SelectType ==
    ASSUME NEW candidates, NEW d, NEW s
    PROVE  /\ Select(candidates, d, s) \in Seq(Toolset)
           /\ InSeq(Select(candidates, d, s)) \subseteq NamesFor(d, s)
  <1>. DEFINE chosen == KeepOnly(Registry, candidates \cap NamesFor(d, s))
  <1>1. chosen \in Seq(Toolset) /\ InSeq(chosen) \subseteq NamesFor(d, s)
    BY RegistryType, KeepElements
  <1>2. Select(candidates, d, s) = IF Limit > 0 /\ Len(chosen) > Limit THEN SubSeq(chosen, 1, Limit)
                                   ELSE chosen
    BY DEF Select
  <1>. HIDE DEF chosen
  <1>3. ASSUME Limit > 0, Len(chosen) > Limit
        PROVE  /\ SubSeq(chosen, 1, Limit) \in Seq(Toolset)
               /\ InSeq(SubSeq(chosen, 1, Limit)) \subseteq InSeq(chosen)
    <2>1. /\ Limit \in Nat /\ Len(chosen) \in Nat /\ DOMAIN chosen = 1 .. Len(chosen)
          /\ \A i \in 1 .. Len(chosen) : chosen[i] \in Toolset /\ chosen[i] \in InSeq(chosen)
      BY <1>1, RoutingAssumption DEF InSeq
    <2>2. \A i \in 1 .. Limit : i \in 1 .. Len(chosen)
      BY <1>3, <2>1
    <2>3. /\ SubSeq(chosen, 1, Limit) \in Seq(Toolset)
      BY <2>1, <2>2, SubSeqProperties
    <2>4. SubSeq(chosen, 1, Limit) \in Seq(InSeq(chosen))
      BY <2>1, <2>2, SubSeqProperties
    <2>. QED
      BY <2>3, <2>4, InSeqType
  <1>. QED
    BY <1>1, <1>2, <1>3

LEMMA SchemasType ==
    ASSUME NEW candidates, NEW d, NEW s, son_arac_adlari \in Seq(Toolset)
    PROVE  /\ Schemas(candidates, d, s) \in Seq(Toolset)
           /\ ~Sticky(s) => InSeq(Schemas(candidates, d, s)) \subseteq NamesFor(d, s)
  BY SelectType, KeepElements DEF Schemas

\* What a sentence may call is among what a sentence with every cue may.
LEMMA AllCuesWiden ==
    ASSUME NEW d, NEW s \in Sentence
    PROVE  NamesFor(d, s) \subseteq NamesFor(d, [cues |-> Cue])
  <1>1. {t \in {"write_file"} : "yaz" \in s.cues} \subseteq {t \in {"write_file"} : "yaz" \in [cues |-> Cue].cues}
    BY DEF Cue
  <1>2. {t \in {"run_terminal_command"} : "testleri calistir" \in s.cues}
          \subseteq {t \in {"run_terminal_command"} : "testleri calistir" \in [cues |-> Cue].cues}
    BY DEF Cue
  <1>. QED
    BY <1>1, <1>2 DEF NamesFor

-----------------------------------------------------------------------------
LEMMA RoutingInitInv == RoutingInit => RoutingInv
  <1>. SUFFICES ASSUME RoutingInit PROVE RoutingInv
    OBVIOUS
  <1>1. RoutingTypes
    <2>1. <<>> \in Seq(Toolset)
      OBVIOUS
    <2>2. /\ son_kategoriler \in BOOLEAN /\ training_active \in BOOLEAN
          /\ debug_mode \in BOOLEAN /\ kb_empty \in BOOLEAN
      BY Zenon DEF RoutingInit
    <2>3. last_intent.tool \in RuleTools \cup {NoRoute} /\ last_intent.level \in 0 .. 4
      BY DEF RoutingInit, NothingSaid
    <2>. QED
      BY <2>1, <2>2, <2>3 DEF RoutingInit, RoutingTypes
  <1>2. NoTopicLeaks
    BY DEF RoutingInit, NoTopicLeaks, ToModel, NoRoute
  <1>. QED
    BY <1>1, <1>2 DEF RoutingInv

LEMMA RoutingStepInv == RoutingInv /\ [RoutingNext]_routingVars => RoutingInv'
  <1>. SUFFICES ASSUME RoutingInv, [RoutingNext]_routingVars PROVE RoutingInv'
    OBVIOUS
  <1>t. RoutingTypes
    BY DEF RoutingInv
  <1>d. ASSUME NEW s \in Sentence
        PROVE  /\ Decided(s).tool \in RuleTools \cup {NoRoute} /\ Decided(s).level \in 0 .. 4
               /\ Topic(s) \in BOOLEAN
    <2>1. Decided(s).tool \in RuleTools \cup {NoRoute} /\ Decided(s).level \in 0 .. 4
      BY <1>t, RouteOfType DEF Decided, RoutingTypes
    <2>2. s.topic \in BOOLEAN
      BY DEF Sentence
    <2>3. Topic(s) \in BOOLEAN
      BY <1>t, <2>2, Zenon DEF Topic, RoutingTypes
    <2>. QED
      BY <2>1, <2>3
  <1>1. ASSUME NEW s \in Sentence, AnswerDirectly(s) PROVE RoutingInv'
    <2>. UNCHANGED <<son_arac_adlari, kb_empty>>
      BY <1>1 DEF AnswerDirectly
    <2>1. /\ last_intent' = Decided(s) /\ son_kategoriler' = Topic(s)
          /\ active_role' = NoRoute /\ turn'.reply = "direct"
      BY <1>1 DEF AnswerDirectly
    <2>2. debug_mode' \in {debug_mode \/ Developer, FALSE, debug_mode}
      BY <1>1 DEF AnswerDirectly
    <2>3. training_active' \in {TRUE, FALSE, training_active}
      BY <1>1 DEF AnswerDirectly
    <2>4. debug_mode' \in BOOLEAN /\ training_active' \in BOOLEAN
      BY <1>t, <2>2, <2>3, Zenon DEF RoutingTypes
    <2>5. RoutingTypes'
      BY <1>t, <1>d, <2>1, <2>4 DEF RoutingTypes
    <2>6. NoTopicLeaks'
      BY <2>1 DEF NoTopicLeaks, ToModel
    <2>. QED
      BY <2>5, <2>6 DEF RoutingInv
  <1>2. ASSUME NEW s \in Sentence, AskModel(s) PROVE RoutingInv'
    <2>. UNCHANGED <<training_active, debug_mode, kb_empty>>
      BY <1>2 DEF AskModel
    <2>. DEFINE d == Taught(Decided(s))
                offered == Schemas(Candidates(kb_empty), d, s)
    <2>1. /\ last_intent' = d /\ son_kategoriler' = Topic(s)
          /\ son_arac_adlari' = IF Sticky(s) THEN son_arac_adlari ELSE offered
          /\ active_role' = RoleOf(Decided(s).intent)
          /\ turn' = [marker |-> s.form = "marker", reply |-> "model", offered |-> offered]
      BY <1>2 DEF AskModel
    <2>2. d.tool \in RuleTools \cup {NoRoute} /\ d.level \in 0 .. 4
      BY <1>d DEF Taught, TrainingData, RuleTools
    <2>3. training_active => d.intent # "CHAT"
      BY DEF Taught, TrainingData
    <2>4. /\ offered \in Seq(Toolset)
          /\ ~Sticky(s) => InSeq(offered) \subseteq NamesFor(d, s)
      BY <1>t, CandidatesType, SchemasType DEF RoutingTypes
    <2>. HIDE DEF d, offered
    <2>5. active_role' \in {NoRoute, "coder", "system", "researcher"}
      BY <2>1 DEF RoleOf
    <2>6. RoutingTypes'
      BY <1>t, <1>d, <2>1, <2>2, <2>4, <2>5 DEF RoutingTypes
    <2>7. NoTopicLeaks'
      <3>. SUFFICES ASSUME ToModel' PROVE Offered' \subseteq NamesFor(last_intent', [cues |-> Cue])
                                          /\ (training_active' => last_intent'.intent # "CHAT")
        BY DEF NoTopicLeaks, NamesFor
      <3>1. s.form # "marker" /\ turn'.offered = offered
        BY <2>1 DEF ToModel
      <3>2. ~Sticky(s)
        BY <3>1 DEF Sticky
      <3>3. Offered' \subseteq NamesFor(d, [cues |-> Cue])
        BY <2>4, <3>1, <3>2, AllCuesWiden DEF Offered, InSeq
      <3>. QED
        BY <2>1, <2>3, <3>3
    <2>. QED
      BY <2>6, <2>7 DEF RoutingInv
  <1>3. CASE IndexChanges
    <2>1. kb_empty' = ~kb_empty /\ UNCHANGED <<last_intent, son_kategoriler, son_arac_adlari,
                                              training_active, debug_mode, active_role, turn>>
      BY <1>3 DEF IndexChanges
    <2>2. kb_empty' \in BOOLEAN
      BY <2>1, Zenon
    <2>3. RoutingTypes'
      BY <1>t, <2>1, <2>2 DEF RoutingTypes
    <2>4. NoTopicLeaks'
      BY <2>1 DEF RoutingInv, NoTopicLeaks, ToModel, Offered
    <2>. QED
      BY <2>3, <2>4 DEF RoutingInv
  <1>4. CASE UNCHANGED routingVars
    BY <1>4 DEF routingVars, RoutingInv, RoutingTypes, NoTopicLeaks, ToModel, Offered
  <1>. QED
    BY <1>1, <1>2, <1>3, <1>4 DEF RoutingNext

LEMMA RoutingEnough == RoutingInv => RoutingIsClean
  <1>. SUFFICES ASSUME RoutingInv PROVE RoutingIsClean
    OBVIOUS
  <1>1. {son_kategoriler, training_active, debug_mode, kb_empty} \subseteq BOOLEAN
    BY Zenon DEF RoutingInv, RoutingTypes
  <1>2. RoutingTypeOK
    BY <1>1, RuleToolsAreTools DEF RoutingInv, RoutingTypes, RoutingTypeOK
  <1>. QED
    BY <1>2 DEF RoutingInv, RoutingIsClean

\* No earlier topic leaks its schemas into a turn, and in the training mode
\* no turn is left as plain conversation, whatever the limit of schemas and
\* whatever cues a sentence hits (arac_secici.py, intent.py, agent.py).
THEOREM RoutingStaysClean == RoutingSpec => []RoutingIsClean
  <1>1. RoutingSpec => []RoutingInv
    BY RoutingInitInv, RoutingStepInv, PTL DEF RoutingSpec
  <1>. QED
    BY <1>1, RoutingEnough, PTL

-----------------------------------------------------------------------------
(* The tool that an intent requires.                                       *)

Requires == {<<"MEMORY_RECALL", "recall_facts">>, <<"MEMORY_DELETE", "forget_fact">>,
             <<"MEMORY_SAVE", "remember_fact">>, <<"MEMORY_UPDATE", "remember_fact">>,
             <<"RAG_QUERY", "bilgi_ara">>, <<"WEB_RESEARCH", "web_ara">>,
             <<"COMPUTER_CONTROL", "uygulama_ac">>, <<"TERMINAL", "run_terminal_command">>}
Required(d) == d.tool # NoRoute => <<d.intent, d.tool>> \in Requires

LEMMA RulesRequire ==
    \A i \in 1 .. 21 : Rules[i][4] # NoRoute => <<Rules[i][2], Rules[i][4]>> \in Requires
  BY DEF Rules, Requires, NoRoute

LEMMA RouteRequires == ASSUME NEW s \in Sentence PROVE Required(RouteOf(s))
  <1>. DEFINE hit == {i \in DOMAIN Rules : Rules[i][1] \in s.cues}
              rule == IF hit = {} THEN <<"", "CHAT", NoRoute, NoRoute>>
                      ELSE Rules[CHOOSE i \in hit : \A j \in hit : i <= j]
  <1>1. RouteOf(s).intent = rule[2] /\ RouteOf(s).tool = rule[4]
    <2>1. rule = RuleOf[s.cues]
      BY RuleOfSentence, Zenon
    <2>. HIDE DEF rule
    <2>. QED
      BY <2>1 DEF RouteOf
  <1>2. rule[4] # NoRoute => <<rule[2], rule[4]>> \in Requires
    <2>1. CASE hit = {}
      BY <2>1
    <2>2. CASE hit # {}
      <3>1. hit \subseteq Nat /\ hit \subseteq 1 .. 21
        BY RulesType
      <3>2. \E i \in hit : \A j \in hit : i <= j
        BY <2>2, <3>1, LeastNat
      <3>3. (CHOOSE i \in hit : \A j \in hit : i <= j) \in hit
        BY <3>2, Zenon
      <3>4. PICK i \in 1 .. 21 : rule = Rules[i]
        BY <2>2, <3>1, <3>3
      <3>. HIDE DEF rule
      <3>. QED
        BY <3>4, RulesRequire
    <2>. QED
      BY <2>1, <2>2
  <1>. HIDE DEF rule
  <1>. QED
    BY <1>1, <1>2 DEF Required

\* Where the schemas are that such intents may use.
LEMMA RegistryPlaces ==
    \A i \in 1 .. 44 :
        /\ Registry[i] \in {"remember_fact", "recall_facts"} => i \in 14 .. 15
        /\ Registry[i] \in {"forget_fact", "recall_facts"} => i \in 15 .. 16
        /\ Registry[i] = "run_terminal_command" => i \in 24 .. 25
        /\ Registry[i] \in {"bilgi_ara", "bilgi_durum"} => i \in 37 .. 38
        /\ Registry[i] \in {"web_ara", "web_oku"} => i \in 39 .. 40
        /\ Registry[i] \in {"windows_window", "windows_audio", "windows_input"} => i \in {10, 11, 13}
        /\ Registry[i] \in {"uygulama_ac", "uygulama_listesi", "tarayici_ac", "arama_ac"} => i \in 41 .. 44
  BY DEF Registry

LEMMA SevenPlaces ==
    /\ IsFiniteSet({10, 11, 13} \cup 41 .. 44) /\ Cardinality({10, 11, 13} \cup 41 .. 44) = 7
    /\ \A k \in Nat : IsFiniteSet(k .. k + 1) /\ Cardinality(k .. k + 1) = 2
  <1>1. \A a, b \in Int : IsFiniteSet(a .. b) /\ Cardinality(a .. b) = IF a > b THEN 0 ELSE b - a + 1
    BY FS_Interval
  <1>2. \A k \in Nat : IsFiniteSet(k .. k + 1) /\ Cardinality(k .. k + 1) = 2
    <2>. SUFFICES ASSUME NEW k \in Nat PROVE IsFiniteSet(k .. k + 1) /\ Cardinality(k .. k + 1) = 2
      OBVIOUS
    <2>1. k \in Int /\ k + 1 \in Int /\ ~(k > k + 1) /\ (k + 1) - k + 1 = 2
      OBVIOUS
    <2>. QED
      BY <1>1, <2>1
  <1>. DEFINE A == 41 .. 44
              B == A \cup {10}
              C == B \cup {11}
              D == C \cup {13}
  <1>3. IsFiniteSet(A) /\ Cardinality(A) = 4
    <2>1. 41 \in Int /\ 44 \in Int /\ ~(41 > 44) /\ 44 - 41 + 1 = 4
      OBVIOUS
    <2>. QED
      BY <1>1, <2>1
  <1>4. 10 \notin A /\ 11 \notin B /\ 13 \notin C /\ D = {10, 11, 13} \cup 41 .. 44
    OBVIOUS
  <1>. HIDE DEF A
  <1>5. IsFiniteSet(B) /\ Cardinality(B) = 5
    BY <1>3, <1>4, FS_AddElement
  <1>. HIDE DEF B
  <1>6. IsFiniteSet(C) /\ Cardinality(C) = 6
    BY <1>4, <1>5, FS_AddElement
  <1>. HIDE DEF C
  <1>7. IsFiniteSet(D) /\ Cardinality(D) = 7
    BY <1>4, <1>6, FS_AddElement
  <1>. QED
    BY <1>2, <1>4, <1>7

\* At most seven schemas belong to an intent that requires a tool, and the
\* tool is one of them.
LEMMA FewPlaces ==
    ASSUME NEW d, NEW s, <<d.intent, d.tool>> \in Requires
    PROVE  /\ d.tool \in NamesFor(d, s) /\ d.tool \in Toolset
           /\ \E P : /\ PlacesIn(Registry, NamesFor(d, s)) \subseteq P
                     /\ IsFiniteSet(P) /\ Cardinality(P) <= 7
  <1>. DEFINE N == NamesFor(d, s)
              P == {10, 11, 13} \cup 41 .. 44
  <1>1. d.tool \in N /\ d.tool \in RuleTools
    BY DEF Requires, NamesFor, RuleTools
  <1>2. \A i \in PlacesIn(Registry, N) : i \in 1 .. 44 /\ Registry[i] \in N
    <2>1. DOMAIN Registry = 1 .. 44
      BY DEF Registry
    <2>. QED
      BY <2>1 DEF PlacesIn
  <1>3. CASE d.intent = "COMPUTER_CONTROL"
    <2>1. N = {"uygulama_ac", "uygulama_listesi", "tarayici_ac", "arama_ac",
               "windows_window", "windows_audio", "windows_input"}
      BY <1>3 DEF NamesFor
    <2>2. PlacesIn(Registry, N) \subseteq P
      BY <1>2, <2>1, RegistryPlaces
    <2>3. IsFiniteSet(P) /\ Cardinality(P) <= 7
      <3>1. IsFiniteSet(P) /\ Cardinality(P) = 7
        BY SevenPlaces, Zenon
      <3>. HIDE DEF P
      <3>. QED
        BY <3>1
    <2>. QED
      BY <1>1, <2>2, <2>3, RuleToolsAreTools, Zenon
  <1>4. CASE d.intent # "COMPUTER_CONTROL"
    <2>1. \/ N = {"remember_fact", "recall_facts"}
          \/ N = {"forget_fact", "recall_facts"}
          \/ N = {"recall_facts"}
          \/ N = {"run_terminal_command"}
          \/ N = {"bilgi_ara", "bilgi_durum"}
          \/ N = {"web_ara", "web_oku"}
      BY <1>4 DEF Requires, NamesFor
    <2>. HIDE DEF N
    <2>2. \E k \in Nat : PlacesIn(Registry, N) \subseteq k .. k + 1
      <3>1. \/ PlacesIn(Registry, N) \subseteq 14 .. 15
            \/ PlacesIn(Registry, N) \subseteq 15 .. 16
            \/ PlacesIn(Registry, N) \subseteq 24 .. 25
            \/ PlacesIn(Registry, N) \subseteq 37 .. 38
            \/ PlacesIn(Registry, N) \subseteq 39 .. 40
        BY <1>2, <2>1, RegistryPlaces
      <3>2. \A k \in {14, 15, 24, 37, 39} : k \in Nat
        OBVIOUS
      <3>3. 14 + 1 = 15 /\ 15 + 1 = 16 /\ 24 + 1 = 25 /\ 37 + 1 = 38 /\ 39 + 1 = 40
        OBVIOUS
      <3>. QED
        BY <3>1, <3>2, <3>3
    <2>3. PICK k \in Nat : PlacesIn(Registry, N) \subseteq k .. k + 1
      BY <2>2
    <2>4. IsFiniteSet(k .. k + 1) /\ Cardinality(k .. k + 1) <= 7
      BY SevenPlaces
    <2>. QED
      BY <1>1, <2>3, <2>4, RuleToolsAreTools DEF N
  <1>. QED
    BY <1>3, <1>4

LEMMA FewAreChosen ==
    ASSUME NEW d, NEW s, <<d.intent, d.tool>> \in Requires, NEW empty,
           Limit = 0 \/ Limit >= 7, ~(empty /\ d.tool = "bilgi_ara")
    PROVE  d.tool \in InSeq(Select(Candidates(empty), d, s))
  <1>. DEFINE N == NamesFor(d, s)
              C == Candidates(empty)
              chosen == KeepOnly(Registry, C \cap N)
  <1>1. PICK P : /\ d.tool \in N /\ d.tool \in Toolset
                 /\ PlacesIn(Registry, N) \subseteq P /\ IsFiniteSet(P) /\ Cardinality(P) <= 7
    BY FewPlaces, Zenon
  <1>2. d.tool \in C
    BY <1>1 DEF Toolset, Candidates
  <1>. HIDE DEF N, C
  <1>3. Registry \in Seq(Toolset)
    BY RegistryType
  <1>4. chosen \in Seq(Toolset) /\ InSeq(chosen) = InSeq(Registry) \cap (C \cap N)
    BY <1>3, KeepElements
  <1>5. d.tool \in InSeq(chosen)
    BY <1>1, <1>2, <1>4 DEF Toolset
  <1>6. Len(chosen) <= 7
    <2>. DEFINE Q == PlacesIn(Registry, C \cap N)
    <2>1. Q \subseteq DOMAIN Registry /\ Q \subseteq P
      BY <1>1 DEF PlacesIn
    <2>. HIDE DEF Q
    <2>2. IsFiniteSet(Q) /\ Len(ElementsAt(Registry, Q)) = Cardinality(Q)
      BY <1>3, <2>1, ElementsCount
    <2>3. Cardinality(Q) <= Cardinality(P)
      <3>1. Q \in SUBSET P
        BY <2>1
      <3>. QED
        BY <1>1, <3>1, FS_Subset
    <2>4. Cardinality(Q) \in Nat /\ Cardinality(P) \in Nat
      BY <1>1, <2>2, FS_CardinalityType
    <2>5. Len(chosen) = Cardinality(Q)
      BY <2>2 DEF KeepOnly, Q, chosen
    <2>. QED
      BY <1>1, <2>3, <2>4, <2>5
  <1>7. Select(Candidates(empty), d, s)
          = IF Limit > 0 /\ Len(chosen) > Limit THEN SubSeq(chosen, 1, Limit) ELSE chosen
    BY DEF Select, chosen, N, C
  <1>. HIDE DEF chosen
  <1>8. ~(Limit > 0 /\ Len(chosen) > Limit)
    BY <1>4, <1>6, RoutingAssumption
  <1>. QED
    BY <1>5, <1>7, <1>8

\* A bare marker names nothing.
LEMMA MarkersRequireNothing ==
    ASSUME NEW s \in Sentence, s.form = "marker"
    PROVE  RouteOf(s).tool = NoRoute
  <1>1. s.cues = {}
    BY DEF Sentence
  <1>2. RuleOf[s.cues] = <<"", "CHAT", NoRoute, NoRoute>>
    <2>1. {i \in DOMAIN Rules : Rules[i][1] \in s.cues} = {}
      BY <1>1, Zenon
    <2>. QED
      BY <2>1, RuleOfSentence, Zenon
  <1>. QED
    <2>1. RouteOf(s).tool = RuleOf[s.cues][4]
      BY DEF RouteOf
    <2>2. <<"", "CHAT", NoRoute, NoRoute>>[4] = NoRoute
      OBVIOUS
    <2>. QED
      BY <1>2, <2>1, <2>2, Zenon

\* The decision of the turn is the one that its schemas were chosen for, but
\* for a fact to save and for what follows a control sentence; and the schemas
\* chosen for a decision hold the tool it requires.
ToolsInv ==
  /\ RoutingInv
  /\ DOMAIN choice = {"decision", "searchless", "control"}
  /\ choice.searchless \in BOOLEAN /\ choice.control \in BOOLEAN
  /\ Required(last_intent)
  /\ last_intent.tool # NoRoute
       => last_intent = choice.decision \/ last_intent = TrainingData \/ choice.control
  /\ choice.decision.tool # NoRoute
       => \/ choice.decision.tool \in InSeq(son_arac_adlari)
          \/ choice.decision.tool = "bilgi_ara" /\ choice.searchless
  /\ RequiredToolIsOffered

LEMMA ToolsInitInv == RoutingInit => ToolsInv
  <1>. SUFFICES ASSUME RoutingInit PROVE ToolsInv
    OBVIOUS
  <1>1. RoutingInv
    BY RoutingInitInv
  <1>2. last_intent.tool = NoRoute /\ choice.decision.tool = NoRoute
    BY DEF RoutingInit, NothingSaid
  <1>3. /\ DOMAIN choice = {"decision", "searchless", "control"}
        /\ choice.searchless \in BOOLEAN /\ choice.control \in BOOLEAN
    BY DEF RoutingInit
  <1>. QED
    BY <1>1, <1>2, <1>3 DEF ToolsInv, Required, RequiredToolIsOffered

\* What a turn decides, before the training mode changes it.
LEMMA DecisionsRequire ==
    ASSUME ToolsInv, NEW s \in Sentence
    PROVE  /\ Required(Decided(s)) /\ Required(Taught(Decided(s)))
           /\ Taught(Decided(s)) \in {Decided(s), TrainingData}
           /\ s.form = "marker" /\ Decided(s).tool # NoRoute => Decided(s) = last_intent
  <1>1. Required(Decided(s))
    BY RouteRequires DEF ToolsInv, Decided
  <1>2. Required(TrainingData)
    BY DEF Required, TrainingData, Requires
  <1>3. Taught(Decided(s)) \in {Decided(s), TrainingData}
    BY DEF Taught
  <1>4. s.form = "marker" /\ Decided(s).tool # NoRoute => Decided(s) = last_intent
    BY MarkersRequireNothing DEF Decided
  <1>. QED
    BY <1>1, <1>2, <1>3, <1>4

LEMMA DirectKeepsTools ==
    ASSUME ToolsInv, NEW s \in Sentence, AnswerDirectly(s), RoutingInv'
    PROVE  ToolsInv'
  <1>1. /\ last_intent' = Decided(s) /\ UNCHANGED son_arac_adlari
        /\ choice' = [choice EXCEPT !.control = choice.control \/ s.form # "marker"]
        /\ turn'.reply = "direct"
    BY DEF AnswerDirectly
  <1>2. PICK c : c = (choice.control \/ s.form # "marker")
    OBVIOUS
  <1>3. c \in BOOLEAN /\ (choice.control => c) /\ (s.form # "marker" => c)
    BY <1>2, Zenon DEF ToolsInv
  <1>4. choice' = [choice EXCEPT !.control = c]
    BY <1>1, <1>2, Zenon
  <1>5. /\ DOMAIN choice' = {"decision", "searchless", "control"}
        /\ choice'.decision = choice.decision /\ choice'.searchless = choice.searchless
        /\ choice'.control = c
    BY <1>4 DEF ToolsInv
  <1>6. last_intent'.tool # NoRoute
          => last_intent' = choice'.decision \/ last_intent' = TrainingData \/ choice'.control
    <2>1. CASE s.form = "marker"
      <3>1. Decided(s).tool # NoRoute => Decided(s) = last_intent
        BY <2>1, DecisionsRequire
      <3>2. last_intent.tool # NoRoute
              => last_intent = choice.decision \/ last_intent = TrainingData \/ choice.control
        BY DEF ToolsInv
      <3>. QED
        BY <1>1, <1>3, <1>5, <3>1, <3>2
    <2>2. CASE s.form # "marker"
      BY <1>3, <1>5, <2>2
    <2>. QED
      BY <2>1, <2>2
  <1>7. Required(last_intent')
    BY <1>1, DecisionsRequire
  <1>8. choice'.decision.tool # NoRoute
          => \/ choice'.decision.tool \in InSeq(son_arac_adlari')
             \/ choice'.decision.tool = "bilgi_ara" /\ choice'.searchless
    BY <1>1, <1>5 DEF ToolsInv
  <1>9. RequiredToolIsOffered'
    BY <1>1 DEF RequiredToolIsOffered
  <1>10. choice'.searchless \in BOOLEAN /\ choice'.control \in BOOLEAN
    BY <1>3, <1>5 DEF ToolsInv
  <1>. QED
    BY <1>5, <1>6, <1>7, <1>8, <1>9, <1>10 DEF ToolsInv, Required, InSeq

LEMMA ModelKeepsTools ==
    ASSUME Limit = 0 \/ Limit >= 7, ToolsInv, NEW s \in Sentence, AskModel(s), RoutingInv'
    PROVE  ToolsInv'
  <1>. DEFINE d == Taught(Decided(s))
              offered == Schemas(Candidates(kb_empty), d, s)
  <1>1. /\ last_intent' = d /\ turn'.reply = "model" /\ turn'.marker = (s.form = "marker")
        /\ turn'.offered = offered
        /\ son_arac_adlari' = IF Sticky(s) THEN son_arac_adlari ELSE offered
        /\ choice' = IF Sticky(s)
                     THEN [choice EXCEPT !.searchless = choice.searchless \/ kb_empty]
                     ELSE [decision |-> d, searchless |-> kb_empty, control |-> FALSE]
    BY DEF AskModel
  <1>2. /\ Required(d) /\ d \in {Decided(s), TrainingData}
        /\ s.form = "marker" /\ Decided(s).tool # NoRoute => Decided(s) = last_intent
    BY DecisionsRequire
  <1>3. kb_empty \in BOOLEAN /\ son_arac_adlari \in Seq(Toolset)
    BY DEF ToolsInv, RoutingInv, RoutingTypes
  <1>4. Offered' = InSeq(offered)
    BY <1>1 DEF Offered, InSeq
  <1>5. CASE ~Sticky(s)
    <2>1. offered = Select(Candidates(kb_empty), d, s)
      BY <1>5 DEF Schemas
    <2>. HIDE DEF d, offered
    <2>2. /\ choice'.decision = d /\ choice'.searchless = kb_empty /\ choice'.control = FALSE
          /\ DOMAIN choice' = {"decision", "searchless", "control"} /\ son_arac_adlari' = offered
      BY <1>1, <1>5
    <2>3. d.tool # NoRoute => d.tool \in InSeq(offered) \/ (d.tool = "bilgi_ara" /\ kb_empty)
      <3>. SUFFICES ASSUME d.tool # NoRoute, ~(kb_empty /\ d.tool = "bilgi_ara")
                    PROVE  d.tool \in InSeq(offered)
        OBVIOUS
      <3>1. <<d.intent, d.tool>> \in Requires
        BY <1>2 DEF Required
      <3>. QED
        BY <2>1, <3>1, FewAreChosen
    <2>4. RequiredToolIsOffered'
      BY <1>1, <1>4, <2>2, <2>3 DEF RequiredToolIsOffered
    <2>. QED
      BY <1>1, <1>2, <1>3, <2>2, <2>3, <2>4 DEF ToolsInv, Required, InSeq
  <1>6. CASE Sticky(s)
    <2>1. offered = KeepOnly(son_arac_adlari, Candidates(kb_empty)) /\ s.form = "marker"
      BY <1>6 DEF Schemas, Sticky
    <2>. HIDE DEF d, offered
    <2>2. PICK e : e = (choice.searchless \/ kb_empty)
      OBVIOUS
    <2>3. e \in BOOLEAN /\ (choice.searchless => e) /\ (kb_empty => e)
      BY <1>3, <2>2, Zenon DEF ToolsInv
    <2>4. choice' = [choice EXCEPT !.searchless = e] /\ UNCHANGED son_arac_adlari
      BY <1>1, <1>6, <2>2, Zenon
    <2>5. /\ DOMAIN choice' = {"decision", "searchless", "control"}
          /\ choice'.decision = choice.decision /\ choice'.searchless = e
          /\ choice'.control = choice.control
      BY <2>4 DEF ToolsInv
    <2>6. d.tool # NoRoute => d = choice.decision \/ d = TrainingData \/ choice.control
      <3>1. last_intent.tool # NoRoute
              => last_intent = choice.decision \/ last_intent = TrainingData \/ choice.control
        BY DEF ToolsInv
      <3>. QED
        BY <1>2, <2>1, <3>1
    <2>7. InSeq(offered) = InSeq(son_arac_adlari) \cap Candidates(kb_empty)
      BY <1>3, <2>1, KeepElements
    <2>8. choice.decision.tool # NoRoute
            => choice.decision.tool \in InSeq(offered) \/ (choice.decision.tool = "bilgi_ara" /\ e)
      <3>1. InSeq(son_arac_adlari) \subseteq InSeq(Registry)
        BY <1>3, InSeqType DEF Toolset
      <3>. QED
        BY <2>3, <2>7, <3>1 DEF ToolsInv, Candidates, Toolset
    <2>9. choice.decision.tool # NoRoute
            => choice.decision.tool \in InSeq(son_arac_adlari) \/ (choice.decision.tool = "bilgi_ara" /\ e)
      BY <2>3 DEF ToolsInv
    <2>10. RequiredToolIsOffered'
      BY <1>1, <1>4, <2>1, <2>5, <2>6, <2>8 DEF RequiredToolIsOffered
    <2>11. choice'.searchless \in BOOLEAN /\ choice'.control \in BOOLEAN
      BY <2>3, <2>5 DEF ToolsInv
    <2>12. Required(last_intent')
      BY <1>1, <1>2 DEF Required
    <2>13. last_intent'.tool # NoRoute
             => last_intent' = choice'.decision \/ last_intent' = TrainingData \/ choice'.control
      BY <1>1, <2>5, <2>6
    <2>14. choice'.decision.tool # NoRoute
             => \/ choice'.decision.tool \in InSeq(son_arac_adlari')
                \/ choice'.decision.tool = "bilgi_ara" /\ choice'.searchless
      BY <2>4, <2>5, <2>9
    <2>. QED
      BY <2>5, <2>10, <2>11, <2>12, <2>13, <2>14 DEF ToolsInv
  <1>. QED
    BY <1>5, <1>6

LEMMA ToolsStepInv ==
    ASSUME Limit = 0 \/ Limit >= 7
    PROVE  ToolsInv /\ [RoutingNext]_routingVars => ToolsInv'
  <1>. SUFFICES ASSUME ToolsInv, [RoutingNext]_routingVars PROVE ToolsInv'
    OBVIOUS
  <1>1. ASSUME NEW s \in Sentence, AnswerDirectly(s) PROVE ToolsInv'
    <2>1. RoutingInv'
      BY <1>1, RoutingStepInv DEF ToolsInv, RoutingNext
    <2>. QED
      BY <1>1, <2>1, DirectKeepsTools
  <1>2. ASSUME NEW s \in Sentence, AskModel(s) PROVE ToolsInv'
    <2>1. RoutingInv'
      BY <1>2, RoutingStepInv DEF ToolsInv, RoutingNext
    <2>. QED
      BY <1>2, <2>1, ModelKeepsTools
  <1>3. CASE IndexChanges \/ UNCHANGED routingVars
    <2>1. UNCHANGED <<last_intent, son_arac_adlari, turn, choice>>
      BY <1>3 DEF IndexChanges, routingVars
    <2>2. RoutingInv'
      BY <1>3, RoutingStepInv DEF ToolsInv, RoutingNext
    <2>3. RequiredToolIsOffered' = RequiredToolIsOffered
      BY <2>1 DEF RequiredToolIsOffered, Offered
    <2>. QED
      BY <2>1, <2>2, <2>3 DEF ToolsInv, Required, InSeq
  <1>. QED
    BY <1>1, <1>2, <1>3 DEF RoutingNext

\* The tool that a decision names is among the schemas of every turn that
\* goes to the model, a marker's too, but for the exceptions it states, for
\* every limit of seven schemas or more (the setting's default is eight) and
\* for none.  A small limit can cut off what the intent requires: uygulama_ac
\* may be the sixth of its intent's schemas (tool_router.py, agent.py).
THEOREM RequiredToolsAreOffered ==
    ASSUME Limit = 0 \/ Limit >= 7
    PROVE  RoutingSpec => []RequiredToolIsOffered
  <1>1. RoutingInit => ToolsInv
    BY ToolsInitInv
  <1>2. ToolsInv /\ [RoutingNext]_routingVars => ToolsInv'
    BY ToolsStepInv
  <1>3. ToolsInv => RequiredToolIsOffered
    BY DEF ToolsInv
  <1>. QED
    BY <1>1, <1>2, <1>3, PTL DEF RoutingSpec

-----------------------------------------------------------------------------
(***************************************************************************)
(* FactMemory. That the user's word stands is inductive with the           *)
(* confidence it gives its row: ten tenths, which nothing weaker replaces, *)
(* until a weaker source repeats the value and takes it down. That nothing *)
(* which was shown is offered for pruning is inductive with the mark that  *)
(* a reader leaves on the row and that a write carries over.               *)
(***************************************************************************)

WordInv(k) ==
    said[k] # NoValue /\ k \notin echoed => fact[k].value = said[k] /\ fact[k].guven = 10
KeptInv(k) ==
    \A v \in held[k] : v = fact[k].value \/ \E h \in replaced : h.key = k /\ h.old = v
UsedInv(k) == k \in shown => fact[k].used
\* A row without a value is no row.
RowInv(k) == Known(k) => fact[k].value \in Values
FactInv ==
    /\ FactTypeOK
    /\ \A k \in Key : WordInv(k) /\ KeptInv(k) /\ UsedInv(k) /\ RowInv(k)

LEMMA NoRowIsARow == NoRow \in Row
  BY FactBounds DEF NoRow, Row

\* A reader returns rows that are there.
LEMMA ReadersFindRows ==
    /\ \A q \in Key : \A n : \A T \in Found(q, n) : T \subseteq {k \in Key : Known(k)}
    /\ \A p, H, F : \A T \in Relevant(p, H, F) : T \subseteq {k \in Key : Known(k)}
  BY DEF Found, Relevant, FirstOf

LEMMA FactStart == FactInit => FactInv
  BY NoRowIsARow, FactBounds
  DEF FactInit, FactInv, FactTypeOK, WordInv, KeptInv, UsedInv, RowInv, Known, NoRow

\* What a call of remember leaves in the row of its key.
LEMMA WrittenIsARow ==
    ASSUME FactTypeOK, NEW k \in Key, NEW v \in Values, NEW source \in FactSource, NEW signs
    PROVE  /\ Written(k, v, source, onem_belirle(signs)) \in Row
           /\ Written(k, v, source, onem_belirle(signs)).value = v
           /\ Written(k, v, source, onem_belirle(signs)).guven = guven_belirle(source)
           /\ Written(k, v, source, onem_belirle(signs)).used = fact[k].used
  <1>1. fact[k] \in Row /\ now \in 0..MaxNow
    BY DEF FactTypeOK
  <1>2. guven_belirle(source) \in 0..10
    BY DEF guven_belirle, FactSource
  <1>3. Higher(onem_belirle(signs), fact[k].onem) \in 0..2
    BY <1>1 DEF Row, Higher, onem_belirle
  <1>. QED
    BY <1>1, <1>2, <1>3 DEF Written, Row

\* remember_fact and merge_facts: one write to target, the rows of gone are
\* forgotten.
Writes(k, v, source, signs, gone) ==
    /\ Store(k, v, source, signs, gone)
    /\ replaced' = replaced \cup Archived(k, v, source)
    /\ Hear(k, v, source, gone)

LEMMA WriteKeeps ==
    ASSUME FactInv, NEW k \in Key, NEW v \in Values,
           NEW source \in {"kullanici", "arac", "cikarim"}, NEW signs,
           NEW gone \in SUBSET Key, k \notin gone, Writes(k, v, source, signs, gone),
           now' = now, writes' \in 0..MaxWrites
    PROVE  FactInv'
  <1> DEFINE row == Written(k, v, source, onem_belirle(signs))
  <1>1. FactTypeOK /\ source \in FactSource
    BY DEF FactInv, FactSource
  <1>2. row \in Row /\ row.value = v /\ row.guven = guven_belirle(source)
        /\ row.used = fact[k].used
    BY <1>1, WrittenIsARow
  <1> HIDE DEF row
  <1>3. /\ fact' = [j \in Key |-> IF j \in gone THEN NoRow
                                  ELSE IF j = k /\ ~Refused(k, v, source) THEN row
                                  ELSE fact[j]]
        /\ replaced' = replaced \cup Archived(k, v, source)
        /\ said' = [j \in Key |-> IF j \in gone THEN NoValue
                                  ELSE IF j = k /\ source = "kullanici" THEN v ELSE said[j]]
        /\ echoed' = (IF source = "kullanici" THEN echoed \ {k}
                      ELSE IF said[k] = v THEN echoed \cup {k} ELSE echoed) \ gone
        /\ held' = [j \in Key |-> IF j \in gone THEN {}
                                  ELSE IF j = k /\ ~Refused(k, v, source) THEN held[j] \cup {v}
                                  ELSE held[j]]
        /\ shown' = shown \ gone
    BY DEF Writes, Store, Hear, row
  <1>4. /\ Refused(k, v, source) => guven_belirle(source) < fact[k].guven
        /\ Refused(k, v, source) \in BOOLEAN
        /\ Known(k) /\ fact[k].value # v =>
             \E h \in Archived(k, v, source) : h.key = k /\ h.old = fact[k].value
        /\ Archived(k, v, source) \subseteq [key: Key, old: Values, new: Values, refused: BOOLEAN]
    <2>1. Refused(k, v, source) => guven_belirle(source) < fact[k].guven
      BY DEF Refused
    <2>2. Refused(k, v, source) \in BOOLEAN
      BY Zenon DEF Refused
    <2>3. Known(k) => fact[k].value \in Values
      BY DEF FactInv, RowInv
    <2>4. Known(k) /\ fact[k].value # v =>
            Archived(k, v, source) =
              {[key |-> k, old |-> fact[k].value, new |-> v, refused |-> Refused(k, v, source)]}
      BY Zenon DEF Archived
    <2>5. ~(Known(k) /\ fact[k].value # v) => Archived(k, v, source) = {}
      BY Zenon DEF Archived
    <2> DEFINE r == Refused(k, v, source)
               h == [key |-> k, old |-> fact[k].value, new |-> v, refused |-> r]
    <2>6. r \in BOOLEAN
      BY <2>2
    <2> HIDE DEF r
    <2>7. h.key = k /\ h.old = fact[k].value
      OBVIOUS
    <2>8. Known(k) => h \in [key: Key, old: Values, new: Values, refused: BOOLEAN]
      BY <2>3, <2>6
    <2>9. Known(k) /\ fact[k].value # v => Archived(k, v, source) = {h}
      BY <2>4 DEF r
    <2> HIDE DEF h
    <2>. QED
      BY <2>1, <2>2, <2>5, <2>7, <2>8, <2>9
  <1>5. FactTypeOK'
    <2>1. fact' \in [Key -> Row]
      BY <1>1, <1>2, <1>3, NoRowIsARow DEF FactTypeOK
    <2>2. replaced' \subseteq [key: Key, old: Values, new: Values, refused: BOOLEAN]
      BY <1>1, <1>3, <1>4 DEF FactTypeOK
    <2>3. said' \in [Key -> Values \cup {NoValue}]
      BY <1>1, <1>3 DEF FactTypeOK
    <2>4. echoed' \subseteq Key /\ shown' \subseteq Key
      BY <1>1, <1>3 DEF FactTypeOK
    <2>5. held' \in [Key -> SUBSET Values]
      BY <1>1, <1>3 DEF FactTypeOK
    <2>. QED
      BY <1>1, <2>1, <2>2, <2>3, <2>4, <2>5 DEF FactTypeOK
  <1>6. ASSUME NEW j \in Key, j \in gone
        PROVE  (WordInv(j) /\ KeptInv(j) /\ UsedInv(j) /\ RowInv(j))'
    BY <1>3, <1>6 DEF WordInv, KeptInv, UsedInv, RowInv, Known, NoRow
  <1>7. ASSUME NEW j \in Key, j \notin gone, j # k
        PROVE  (WordInv(j) /\ KeptInv(j) /\ UsedInv(j) /\ RowInv(j))'
    <2>1. fact'[j] = fact[j] /\ said'[j] = said[j] /\ held'[j] = held[j]
          /\ (j \in echoed' <=> j \in echoed) /\ (j \in shown' <=> j \in shown)
          /\ replaced \subseteq replaced'
      BY <1>3, <1>7
    <2>. QED
      BY <2>1 DEF FactInv, WordInv, KeptInv, UsedInv, RowInv, Known
  <1>8. (WordInv(k) /\ KeptInv(k) /\ UsedInv(k) /\ RowInv(k))'
    <2>1. WordInv(k) /\ KeptInv(k) /\ UsedInv(k) /\ RowInv(k)
      BY DEF FactInv
    <2>2. CASE Refused(k, v, source)
      <3>1. fact'[k] = fact[k] /\ held'[k] = held[k] /\ replaced \subseteq replaced'
            /\ (k \in shown' <=> k \in shown)
        BY <1>3, <2>2
      <3>2. source # "kullanici"
        BY <1>1, <1>4, <2>2 DEF guven_belirle, FactTypeOK, Row
      <3>3. said'[k] = said[k] /\ (k \in echoed => k \in echoed')
        BY <1>3, <3>2
      <3>. QED
        BY <2>1, <3>1, <3>3 DEF WordInv, KeptInv, UsedInv, RowInv, Known
    <2>3. CASE ~Refused(k, v, source)
      <3>1. fact'[k] = row /\ held'[k] = held[k] \cup {v} /\ (k \in shown' <=> k \in shown)
        BY <1>3, <2>3
      <3>2. UsedInv(k)' /\ RowInv(k)'
        BY <1>2, <2>1, <3>1 DEF UsedInv, RowInv
      <3>3. WordInv(k)'
        <4>1. CASE source = "kullanici"
          BY <1>2, <1>3, <3>1, <4>1 DEF WordInv, guven_belirle
        <4>2. CASE source # "kullanici"
          <5>1. said'[k] = said[k] /\ guven_belirle(source) < 10
            BY <1>3, <4>2 DEF guven_belirle
          <5>2. said[k] # v \/ k \in echoed'
            BY <1>3, <4>2
          <5>3. ASSUME said'[k] # NoValue, k \notin echoed' PROVE FALSE
            <6>1. k \notin echoed
              BY <1>3, <4>2, <5>3
            <6>2. fact[k].value = said[k] /\ fact[k].guven = 10 /\ fact[k].value # v
                  /\ said[k] # NoValue
              BY <2>1, <5>1, <5>2, <5>3, <6>1 DEF WordInv
            <6>3. Known(k)
              BY <6>2 DEF Known, NoRow
            <6>. QED
              BY <2>3, <5>1, <6>2, <6>3 DEF Refused
          <5>. QED
            BY <5>3 DEF WordInv
        <4>. QED
          BY <4>1, <4>2
      <3>4. KeptInv(k)'
        <4> SUFFICES ASSUME NEW w \in held'[k]
                     PROVE  w = fact'[k].value \/ \E h \in replaced' : h.key = k /\ h.old = w
          BY DEF KeptInv
        <4>1. CASE w = v
          BY <1>2, <3>1, <4>1
        <4>2. CASE w # v
          <5>1. w = fact[k].value \/ \E h \in replaced : h.key = k /\ h.old = w
            BY <2>1, <3>1, <4>2 DEF KeptInv
          <5>2. w \in Values
            BY <1>1, <3>1, <4>2 DEF FactTypeOK
          <5>3. w = fact[k].value => Known(k)
            BY <5>2, FactValues DEF Known, NoRow, Values
          <5>. QED
            BY <1>3, <1>4, <4>2, <5>1, <5>3
        <4>. QED
          BY <4>1, <4>2
      <3>. QED
        BY <3>2, <3>3, <3>4
    <2>. QED
      BY <2>2, <2>3
  <1>. QED
    BY <1>5, <1>6, <1>7, <1>8 DEF FactInv

LEMMA MarkKeeps ==
    ASSUME FactInv, NEW T \in SUBSET {k \in Key : Known(k)}, Mark(T)
    PROVE  FactInv'
  <1>1. /\ fact' = [k \in Key |-> IF k \in T THEN [fact[k] EXCEPT !.used = TRUE] ELSE fact[k]]
        /\ shown' = shown \cup T
        /\ UNCHANGED <<replaced, now, writes, said, echoed, held>>
    BY DEF Mark
  <1>2. FactTypeOK /\ \A k \in T : Known(k)
    BY DEF FactInv
  <1>3. FactTypeOK'
    BY <1>1, <1>2 DEF FactTypeOK, Row
  <1>4. ASSUME NEW k \in Key
        PROVE  /\ fact'[k].value = fact[k].value /\ fact'[k].guven = fact[k].guven
               /\ k \in shown' /\ k \notin shown => fact'[k].used
               /\ fact[k].used => fact'[k].used
               /\ Known(k)' => Known(k)
    BY <1>1, <1>2 DEF FactTypeOK, Row, Known
  <1>5. ASSUME NEW k \in Key PROVE (WordInv(k) /\ KeptInv(k) /\ UsedInv(k) /\ RowInv(k))'
    BY <1>1, <1>4 DEF FactInv, WordInv, KeptInv, UsedInv, RowInv
  <1>. QED
    BY <1>3, <1>5 DEF FactInv

LEMMA ForgetKeeps ==
    ASSUME FactInv, NEW k \in Key, forget_fact(k)
    PROVE  FactInv'
  <1>1. FactTypeOK'
    BY NoRowIsARow DEF FactInv, FactTypeOK, forget_fact
  <1>2. ASSUME NEW j \in Key PROVE (WordInv(j) /\ KeptInv(j) /\ UsedInv(j) /\ RowInv(j))'
    <2>1. CASE j = k
      BY <2>1 DEF forget_fact, FactInv, FactTypeOK, WordInv, KeptInv, UsedInv, RowInv, Known
    <2>2. CASE j # k
      BY <2>2 DEF forget_fact, FactInv, FactTypeOK, WordInv, KeptInv, UsedInv, RowInv, Known
    <2>. QED
      BY <2>1, <2>2
  <1>. QED
    BY <1>1, <1>2 DEF FactInv

LEMMA FactStep == FactInv /\ [FactNext]_factVars => FactInv'
  <1> SUFFICES ASSUME FactInv, [FactNext]_factVars PROVE FactInv'
    OBVIOUS
  <1>0. writes \in 0..MaxWrites /\ MaxWrites \in Nat
    BY FactBounds DEF FactInv, FactTypeOK
  <1>1. ASSUME NEW k \in Key, NEW v \in Value, NEW s \in ToolSource, NEW o \in Signs,
               remember_fact(k, v, s, o)
        PROVE  FactInv'
    <2>1. Writes(k, v, s, o, {}) /\ now' = now /\ writes' \in 0..MaxWrites
      BY <1>0, <1>1 DEF remember_fact, Writes
    <2>2. v \in Values /\ s \in {"kullanici", "arac", "cikarim"}
      BY DEF Values, ToolSource
    <2>. QED
      BY <2>1, <2>2, WriteKeeps
  <1>2. ASSUME NEW k \in Key, forget_fact(k) PROVE FactInv'
    BY <1>2, ForgetKeeps
  <1>3. ASSUME NEW q \in Key, recall_facts(q) PROVE FactInv'
    BY <1>3, MarkKeeps, ReadersFindRows DEF recall_facts
  <1>4. ASSUME NEW p \in BOOLEAN, NEW H \in SUBSET Key, NEW F \in SUBSET Key,
               retrieve_relevant(p, H, F)
        PROVE  FactInv'
    BY <1>4, MarkKeeps, ReadersFindRows DEF retrieve_relevant
  <1>5. ASSUME NEW K \in SUBSET Key, NEW k \in Key, NEW s \in MergeSource,
               merge_facts(K, k, s, {})
        PROVE  FactInv'
    <2>1. Writes(k, Merged, s, {}, K \ {k}) /\ now' = now /\ writes' \in 0..MaxWrites
      BY <1>0, <1>5 DEF merge_facts, Writes
    <2>2. Merged \in Values /\ s \in {"kullanici", "arac", "cikarim"}
      BY FactSources DEF Values
    <2>. QED
      BY <2>1, <2>2, WriteKeeps
  <1>6. CASE Pass
    BY <1>6, FactBounds
    DEF Pass, ghosts, FactInv, FactTypeOK, WordInv, KeptInv, UsedInv, RowInv, Known
  <1>7. CASE UNCHANGED factVars
    BY <1>7 DEF factVars, ghosts, FactInv, FactTypeOK, WordInv, KeptInv, UsedInv, RowInv, Known
  <1>. QED
    BY <1>1, <1>2, <1>3, <1>4, <1>5, <1>6, <1>7 DEF FactNext

LEMMA FactInvariant == FactSpec => []FactInv
  BY FactStart, FactStep, PTL DEF FactSpec

\* MemoryStore.remember: whatever is written, merged, read and forgotten, the
\* user's word is the value of its key unless a weaker source repeated it.
THEOREM TheUsersWordStands == FactSpec => []WordStandsUnlessEchoed
  <1>1. FactInv => WordStandsUnlessEchoed
    BY DEF FactInv, WordInv, WordStandsUnlessEchoed
  <1>. QED
    BY <1>1, FactInvariant, PTL

\* remember, forget, merge_facts and the two readers, for any keys and
\* values: the word stands, what it replaced is in the history, and what is
\* offered for pruning never reached a turn.
THEOREM MemoryIsKept == FactSpec => []MemoryKeepsItsWord
  <1>1. FactInv => MemoryKeepsItsWord
    BY DEF FactInv, MemoryKeepsItsWord, WordInv, WordStandsUnlessEchoed, KeptInv,
           ReplacedValuesAreKept, UsedInv, CandidatesWereNeverShown, budama_adaylari
  <1>. QED
    BY <1>1, FactInvariant, PTL

-----------------------------------------------------------------------------
(***************************************************************************)
(* SpeechOutput. SpeechIsKept is inductive with the texts kept, which are  *)
(* the newest ones, and with the lock of the model: its holder found the   *)
(* model missing, and only a closed engine drops it.                       *)
(***************************************************************************)

Texts == 1 .. MaxTexts

ThreadTypes ==
  /\ stage \in [Thread -> Steps] /\ wants \in [SpeechRequest -> 0 .. MaxTexts]
  /\ \A r \in SpeechRequest : stage[r] # "idle" => wants[r] \in Texts
EngineTypes ==
  /\ model \in BOOLEAN /\ load_error \in BOOLEAN /\ engineClosed \in BOOLEAN
  /\ loader \in Thread \cup {NoThread} /\ speaker \in Thread \cup {NoThread}
  /\ loads \in Nat
  /\ closing \in {"no", "called", "joined", "done"}
CacheTypes == cache \in Seq(Texts) /\ Len(cache) <= CacheSize

\* The texts kept are the newest ones, as many as are kept.
TextsAreNewest ==
  /\ registered \in 0 .. MaxTexts /\ speech \in Seq(Nat)
  /\ Len(speech) = IF registered <= KeptTexts THEN registered ELSE KeptTexts
  /\ \A i \in DOMAIN speech : speech[i] = registered - Len(speech) + i

\* The model is loaded by the holder of the lock, who found it missing, and
\* is dropped only by a closed engine.
LoadsUnderLock ==
  /\ \A t \in Thread : stage[t] = "loading" <=> loader = t
  /\ \A t \in Thread : stage[t] = "loading" => ~model
  /\ ~engineClosed => loads = IF model THEN 1 ELSE 0
  /\ closing # "no" => engineClosed

SpeechInv ==
  /\ ThreadTypes /\ EngineTypes /\ CacheTypes
  /\ TextsAreNewest /\ LoadsUnderLock /\ OnlyOldTextsAreMissing

LEMMA SpeechNumbers == /\ MaxTexts \in Nat /\ KeptTexts \in Nat \ {0} /\ CacheSize \in Nat
                       /\ Warmup \notin SpeechRequest /\ NoThread \notin Thread
                       /\ Warmup \in Thread /\ SpeechRequest \subseteq Thread
                       /\ \A t \in Thread : t = Warmup \/ t \in SpeechRequest
  BY SpeechAssumption DEF Thread

-----------------------------------------------------------------------------
(* The lists.                                                              *)

LEMMA NewestOfList ==
    ASSUME NEW T, NEW s \in Seq(T), NEW n \in Nat
    PROVE  /\ NewestOf(s, n) \in Seq(T)
           /\ Len(NewestOf(s, n)) = IF Len(s) > n THEN n ELSE Len(s)
           /\ \A i \in DOMAIN NewestOf(s, n) :
                NewestOf(s, n)[i] = s[Len(s) - Len(NewestOf(s, n)) + i]
  <1>0. Len(s) \in Nat /\ DOMAIN s = 1 .. Len(s) /\ \A i \in 1 .. Len(s) : s[i] \in T
    OBVIOUS
  <1>1. CASE Len(s) > n
    <2>. DEFINE m == Len(s) - n + 1
                w == SubSeq(s, m, Len(s))
    <2>1. m \in Int /\ Len(s) \in Int /\ m >= 1 /\ Len(s) - m + 1 = n
          /\ (m <= Len(s) => n > 0) /\ (~(m <= Len(s)) => n = 0)
      BY <1>0, <1>1
    <2>2. \A i \in m .. Len(s) : s[i] \in T
      BY <1>0, <2>1
    <2>. HIDE DEF m
    <2>3. /\ w \in Seq(T)
          /\ Len(w) = IF m <= Len(s) THEN Len(s) - m + 1 ELSE 0
          /\ \A i \in 1 .. Len(s) - m + 1 : w[i] = s[m + i - 1]
      BY <2>1, <2>2, SubSeqProperties
    <2>. HIDE DEF w
    <2>4. NewestOf(s, n) = w
      BY <1>1 DEF NewestOf, w, m
    <2>5. Len(w) = n /\ DOMAIN w = 1 .. n
      BY <2>1, <2>3
    <2>6. \A i \in 1 .. n : w[i] = s[m + i - 1] /\ m + i - 1 = Len(s) - n + i
      BY <1>0, <2>1, <2>3 DEF m
    <2>. QED
      BY <1>1, <2>3, <2>4, <2>5, <2>6
  <1>2. CASE ~(Len(s) > n)
    BY <1>0, <1>2 DEF NewestOf
  <1>. QED
    BY <1>1, <1>2

LEMMA MovedToEnd ==
    ASSUME NEW s \in Seq(Texts), NEW x \in Texts
    PROVE  /\ MoveToEnd(s, x) \in Seq(Texts)
           /\ x \in InSeq(s) => Len(MoveToEnd(s, x)) <= Len(s)
  <1>. DEFINE S == InSeq(s) \ {x}
  <1>1. KeepOnly(s, S) \in Seq(Texts)
    BY KeepElements
  <1>2. /\ MoveToEnd(s, x) \in Seq(Texts)
        /\ Len(MoveToEnd(s, x)) = Len(KeepOnly(s, S)) + 1
    BY <1>1 DEF MoveToEnd
  <1>3. ASSUME x \in InSeq(s) PROVE Len(KeepOnly(s, S)) < Len(s)
    <2>1. PICK i \in DOMAIN s : s[i] = x
      BY <1>3 DEF InSeq
    <2>2. s[i] \notin S
      BY <2>1
    <2>. QED
      BY <2>2, KeepDrops
  <1>4. Len(KeepOnly(s, S)) \in Nat /\ Len(s) \in Nat
    BY <1>1
  <1>. QED
    BY <1>2, <1>3, <1>4

-----------------------------------------------------------------------------
(* Steps that leave parts of the state alone.                              *)

LEMMA TextsKept ==
    ASSUME SpeechInv, UNCHANGED <<speech, registered>>
    PROVE  TextsAreNewest'
  BY DEF SpeechInv, TextsAreNewest

LEMMA CacheKept ==
    ASSUME SpeechInv, UNCHANGED cache
    PROVE  CacheTypes'
  BY DEF SpeechInv, CacheTypes

\* A thread goes on, to a step other than "missing".
LEMMA ThreadGoes ==
    ASSUME SpeechInv, NEW t \in Thread, NEW step \in Steps, Goes(t, step),
           step # "missing", stage[t] # "idle", UNCHANGED <<wants, registered>>
    PROVE  /\ ThreadTypes' /\ OnlyOldTextsAreMissing'
           /\ \A u \in Thread : stage'[u] = IF u = t THEN step ELSE stage[u]
  <1>1. /\ stage' \in [Thread -> Steps]
        /\ \A u \in Thread : stage'[u] = IF u = t THEN step ELSE stage[u]
    BY DEF SpeechInv, ThreadTypes, Goes
  <1>2. ThreadTypes'
    BY <1>1, SpeechNumbers DEF SpeechInv, ThreadTypes
  <1>3. OnlyOldTextsAreMissing'
    BY <1>1, SpeechNumbers DEF SpeechInv, OnlyOldTextsAreMissing
  <1>. QED
    BY <1>1, <1>2, <1>3

\* So it does without touching the model.
LEMMA LoadsKept ==
    ASSUME SpeechInv, NEW t \in Thread, NEW step \in Steps,
           \A u \in Thread : stage'[u] = IF u = t THEN step ELSE stage[u],
           step # "loading", stage[t] # "loading",
           UNCHANGED <<model, engineClosed, loader, loads, closing>>
    PROVE  LoadsUnderLock'
  BY DEF SpeechInv, LoadsUnderLock

-----------------------------------------------------------------------------
LEMMA SpeechInitInv == SpeechInit => SpeechInv
  <1>. SUFFICES ASSUME SpeechInit PROVE SpeechInv
    OBVIOUS
  <1>. USE SpeechNumbers
  <1>0. \A t \in Thread : stage[t] = IF t = Warmup THEN "model" ELSE "idle"
    BY DEF SpeechInit
  <1>1. ThreadTypes
    <2>1. stage \in [Thread -> Steps]
      BY DEF SpeechInit, Steps, Outcomes
    <2>. QED
      BY <1>0, <2>1 DEF SpeechInit, ThreadTypes
  <1>2. EngineTypes /\ CacheTypes
    <2>1. model \in BOOLEAN /\ load_error \in BOOLEAN /\ engineClosed \in BOOLEAN
      BY DEF SpeechInit
    <2>2. <<>> \in Seq(Texts) /\ Len(<<>>) <= CacheSize
      OBVIOUS
    <2>. QED
      BY <2>1, <2>2 DEF SpeechInit, EngineTypes, CacheTypes
  <1>3. TextsAreNewest
    BY DEF SpeechInit, TextsAreNewest
  <1>4. LoadsUnderLock /\ OnlyOldTextsAreMissing
    BY <1>0 DEF SpeechInit, LoadsUnderLock, OnlyOldTextsAreMissing
  <1>. QED
    BY <1>1, <1>2, <1>3, <1>4 DEF SpeechInv

\* The panel's side: texts registered and asked for.
LEMMA PanelSideInv ==
    ASSUME SpeechInv,
           Register \/ \E r \in SpeechRequest : Again(r) \/ \E id \in 1 .. MaxTexts : AskToSpeak(r, id)
    PROVE  SpeechInv'
  <1>. USE SpeechNumbers
  <1>t. ThreadTypes /\ TextsAreNewest /\ LoadsUnderLock /\ OnlyOldTextsAreMissing
    BY DEF SpeechInv
  <1>1. CASE Register
    <2>. UNCHANGED <<stage, wants, engineVars, closing>>
      BY <1>1 DEF Register
    <2>0. UNCHANGED <<model, load_error, engineClosed, loader, speaker, cache, loads>>
      BY DEF engineVars
    <2>. DEFINE s == Append(speech, registered + 1)
    <2>1. /\ registered \in Nat /\ registered < MaxTexts /\ registered' = registered + 1
          /\ speech' = NewestOf(s, KeptTexts) /\ speech \in Seq(Nat) /\ Len(speech) \in Nat
      BY <1>1, <1>t DEF Register, Retained, TextsAreNewest
    <2>2. /\ s \in Seq(Nat) /\ Len(s) = Len(speech) + 1
          /\ \A i \in 1 .. Len(s) : s[i] = registered + 1 - Len(s) + i
      <3>1. s \in Seq(Nat) /\ Len(s) = Len(speech) + 1 /\ s[Len(speech) + 1] = registered + 1
        BY <2>1
      <3>2. \A i \in 1 .. Len(speech) : s[i] = speech[i] /\ speech[i] = registered - Len(speech) + i
        BY <1>t, <2>1 DEF TextsAreNewest
      <3>3. ASSUME NEW i \in 1 .. Len(s) PROVE s[i] = registered + 1 - Len(s) + i
        <4>1. CASE i = Len(s)
          BY <2>1, <3>1, <4>1
        <4>2. CASE i # Len(s)
          <5>1. i \in 1 .. Len(speech)
            BY <2>1, <3>1, <4>2
          <5>. QED
            BY <2>1, <3>1, <3>2, <5>1
        <4>. QED
          BY <4>1, <4>2
      <3>. QED
        BY <3>1, <3>3
    <2>. HIDE DEF s
    <2>3. /\ speech' \in Seq(Nat)
          /\ Len(speech') = IF Len(s) > KeptTexts THEN KeptTexts ELSE Len(s)
          /\ \A i \in DOMAIN speech' : speech'[i] = s[Len(s) - Len(speech') + i]
      <3>. DEFINE w == NewestOf(s, KeptTexts)
      <3>1. /\ w \in Seq(Nat)
            /\ Len(w) = IF Len(s) > KeptTexts THEN KeptTexts ELSE Len(s)
            /\ \A i \in DOMAIN w : w[i] = s[Len(s) - Len(w) + i]
        BY <2>2, NewestOfList
      <3>2. speech' = w
        BY <2>1
      <3>. HIDE DEF w
      <3>. QED
        BY <3>1, <3>2
    <2>4. Len(speech') = IF registered' <= KeptTexts THEN registered' ELSE KeptTexts
      BY <1>t, <2>1, <2>2, <2>3 DEF TextsAreNewest
    <2>5. ASSUME NEW i \in DOMAIN speech' PROVE speech'[i] = registered' - Len(speech') + i
      <3>1. i \in 1 .. Len(speech') /\ Len(speech') \in Nat /\ Len(s) \in Nat
        BY <2>2, <2>3
      <3>2. Len(s) - Len(speech') + i \in 1 .. Len(s)
        BY <2>3, <3>1
      <3>3. speech'[i] = registered + 1 - Len(s) + (Len(s) - Len(speech') + i)
        BY <2>2, <2>3, <3>2
      <3>. QED
        BY <2>1, <3>1, <3>3
    <2>6. TextsAreNewest'
      <3>1. registered' \in 0 .. MaxTexts
        BY <2>1
      <3>. QED
        BY <2>3, <2>4, <2>5, <3>1 DEF TextsAreNewest
    <2>7. ThreadTypes' /\ EngineTypes' /\ CacheTypes' /\ LoadsUnderLock'
      BY <2>0 DEF SpeechInv, ThreadTypes, EngineTypes, CacheTypes, LoadsUnderLock
    <2>8. OnlyOldTextsAreMissing'
      BY <1>t, <2>1 DEF ThreadTypes, OnlyOldTextsAreMissing
    <2>. QED
      BY <2>6, <2>7, <2>8 DEF SpeechInv
  <1>2. ASSUME NEW r \in SpeechRequest, NEW id \in 1 .. MaxTexts, AskToSpeak(r, id)
        PROVE  SpeechInv'
    <2>. UNCHANGED <<speech, registered, engineVars, closing>>
      BY <1>2 DEF AskToSpeak
    <2>0. UNCHANGED <<model, load_error, engineClosed, loader, speaker, cache, loads>>
      BY DEF engineVars
    <2>. DEFINE step == IF id \in InSeq(speech) THEN "found" ELSE "missing"
    <2>1. stage[r] = "idle" /\ id <= registered /\ wants' = [wants EXCEPT ![r] = id] /\ Goes(r, step)
      BY <1>2 DEF AskToSpeak
    <2>2. step \in Steps /\ step \notin {"loading", "idle"}
      BY DEF Steps, Outcomes
    <2>3. /\ stage' \in [Thread -> Steps]
          /\ \A u \in Thread : stage'[u] = IF u = r THEN step ELSE stage[u]
      BY <1>t, <2>1, <2>2 DEF ThreadTypes, Goes
    <2>4. ThreadTypes'
      BY <1>t, <2>1, <2>3 DEF ThreadTypes, Texts
    <2>5. LoadsUnderLock'
      BY <1>t, <2>0, <2>1, <2>2, <2>3 DEF LoadsUnderLock
    <2>6. id \notin InSeq(speech) => id <= registered - KeptTexts
      <3>. SUFFICES ASSUME ~(id <= registered - KeptTexts) PROVE id \in InSeq(speech)
        OBVIOUS
      <3>. DEFINE i == id - registered + Len(speech)
      <3>1. i \in DOMAIN speech /\ registered - Len(speech) + i = id
        BY <1>t, <2>1 DEF TextsAreNewest
      <3>2. speech[i] = id
        BY <1>t, <3>1 DEF TextsAreNewest
      <3>. HIDE DEF i
      <3>. QED
        BY <3>1, <3>2 DEF InSeq
    <2>7. OnlyOldTextsAreMissing'
      <3>. SUFFICES ASSUME NEW q \in SpeechRequest, stage'[q] = "missing"
                    PROVE  wants'[q] <= registered' - KeptTexts
        BY DEF OnlyOldTextsAreMissing
      <3>1. CASE q = r
        BY <1>t, <2>1, <2>3, <2>6, <3>1 DEF ThreadTypes
      <3>2. CASE q # r
        BY <1>t, <2>1, <2>3, <3>2 DEF ThreadTypes, OnlyOldTextsAreMissing
      <3>. QED
        BY <3>1, <3>2
    <2>8. EngineTypes'
      BY <2>0 DEF SpeechInv, EngineTypes
    <2>. QED
      BY <2>0, <2>4, <2>5, <2>7, <2>8, TextsKept, CacheKept DEF SpeechInv
  <1>3. ASSUME NEW r \in SpeechRequest, Again(r) PROVE SpeechInv'
    <2>. UNCHANGED <<speech, registered, wants, engineVars, closing>>
      BY <1>3 DEF Again
    <2>0. UNCHANGED <<model, load_error, engineClosed, loader, speaker, cache, loads>>
      BY DEF engineVars
    <2>1. Goes(r, "idle") /\ stage[r] \notin {"idle", "loading"} /\ "idle" \in Steps
      BY <1>3 DEF Again, Outcomes, Steps
    <2>2. /\ ThreadTypes' /\ OnlyOldTextsAreMissing'
          /\ \A u \in Thread : stage'[u] = IF u = r THEN "idle" ELSE stage[u]
      BY <2>1, ThreadGoes
    <2>3. LoadsUnderLock'
      BY <2>0, <2>1, <2>2, LoadsKept
    <2>4. EngineTypes'
      BY <2>0 DEF SpeechInv, EngineTypes
    <2>. QED
      BY <2>0, <2>2, <2>3, <2>4, TextsKept, CacheKept DEF SpeechInv
  <1>. QED
    BY <1>1, <1>2, <1>3

\* A thread's steps through the engine.
LEMMA WorkInv ==
    ASSUME SpeechInv, NEW t \in Thread, Work(t)
    PROVE  SpeechInv'
  <1>. USE SpeechNumbers
  <1>t. ThreadTypes /\ EngineTypes /\ CacheTypes /\ LoadsUnderLock
    BY DEF SpeechInv
  <1>s. /\ {"lookup", "unavailable", "failed", "played", "model", "infer", "load", "loading",
            "speaking", "made"} \subseteq Steps
    BY DEF Steps, Outcomes
  <1>1. CASE t \in SpeechRequest /\ Admit(t)
    <2>. UNCHANGED <<speech, registered, wants, engineVars, closing>>
      BY <1>1 DEF Admit
    <2>0. UNCHANGED <<model, load_error, engineClosed, loader, speaker, cache, loads>>
      BY DEF engineVars
    <2>1. PICK step \in {"lookup", "unavailable"} : Goes(t, step)
      BY <1>1 DEF Admit
    <2>2. stage[t] = "found" /\ step \in Steps /\ step \notin {"missing", "loading"}
      BY <1>1, <1>s DEF Admit
    <2>3. /\ ThreadTypes' /\ OnlyOldTextsAreMissing'
          /\ \A u \in Thread : stage'[u] = IF u = t THEN step ELSE stage[u]
      BY <2>1, <2>2, ThreadGoes
    <2>4. LoadsUnderLock'
      BY <2>0, <2>2, <2>3, LoadsKept
    <2>5. EngineTypes'
      BY <1>t, <2>0 DEF EngineTypes
    <2>. QED
      BY <2>0, <2>3, <2>4, <2>5, TextsKept, CacheKept DEF SpeechInv
  <1>2. CASE t \in SpeechRequest /\ LookUp(t)
    <2>. UNCHANGED <<speech, registered, wants, model, load_error, engineClosed, loader,
                     speaker, loads, closing>>
      BY <1>2 DEF LookUp
    <2>1. stage[t] = "lookup" /\ wants[t] \in Texts
      BY <1>2, <1>t DEF LookUp, ThreadTypes
    <2>2. PICK step \in {"failed", "played", "model"} :
            /\ Goes(t, step)
            /\ cache' = IF step = "played" THEN MoveToEnd(cache, wants[t]) ELSE cache
            /\ step = "played" => wants[t] \in InSeq(cache)
      BY <1>2 DEF LookUp
    <2>3. step \in Steps /\ step \notin {"missing", "loading"}
      BY <1>s
    <2>4. /\ ThreadTypes' /\ OnlyOldTextsAreMissing'
          /\ \A u \in Thread : stage'[u] = IF u = t THEN step ELSE stage[u]
      BY <2>1, <2>2, <2>3, ThreadGoes
    <2>5. LoadsUnderLock'
      BY <2>1, <2>3, <2>4, LoadsKept
    <2>6. CacheTypes'
      <3>1. CASE step = "played"
        <4>1. /\ MoveToEnd(cache, wants[t]) \in Seq(Texts)
              /\ Len(MoveToEnd(cache, wants[t])) <= Len(cache)
          BY <1>t, <2>1, <2>2, <3>1, MovedToEnd DEF CacheTypes
        <4>2. cache' \in Seq(Texts) /\ Len(cache') <= Len(cache)
          BY <2>2, <3>1, <4>1
        <4>. QED
          BY <1>t, <4>2 DEF CacheTypes
      <3>2. CASE step # "played"
        BY <2>2, <3>2, CacheKept
      <3>. QED
        BY <3>1, <3>2
    <2>7. EngineTypes'
      BY <1>t DEF EngineTypes
    <2>. QED
      BY <2>4, <2>5, <2>6, <2>7, TextsKept DEF SpeechInv
  <1>3. CASE t \in SpeechRequest /\ Keep(t)
    <2>. UNCHANGED <<speech, registered, wants, model, load_error, engineClosed, loader,
                     speaker, loads, closing>>
      BY <1>3 DEF Keep
    <2>1. /\ stage[t] = "made" /\ wants[t] \in Texts /\ Goes(t, "played") /\ "played" \in Steps
          /\ cache' = NewestOf(MoveToEnd(cache, wants[t]), CacheSize)
      BY <1>3, <1>t, <1>s DEF Keep, ThreadTypes
    <2>2. /\ ThreadTypes' /\ OnlyOldTextsAreMissing'
          /\ \A u \in Thread : stage'[u] = IF u = t THEN "played" ELSE stage[u]
      BY <2>1, ThreadGoes
    <2>3. LoadsUnderLock'
      BY <2>1, <2>2, LoadsKept
    <2>4. CacheTypes'
      <3>1. MoveToEnd(cache, wants[t]) \in Seq(Texts)
        BY <1>t, <2>1, MovedToEnd DEF CacheTypes
      <3>2. cache' \in Seq(Texts) /\ Len(cache') <= CacheSize
        <4>. DEFINE s == MoveToEnd(cache, wants[t])
        <4>1. s \in Seq(Texts) /\ Len(s) \in Nat /\ cache' = NewestOf(s, CacheSize)
          BY <2>1, <3>1
        <4>. HIDE DEF s
        <4>2. /\ NewestOf(s, CacheSize) \in Seq(Texts)
              /\ Len(NewestOf(s, CacheSize)) = IF Len(s) > CacheSize THEN CacheSize ELSE Len(s)
          BY <4>1, NewestOfList
        <4>. QED
          BY <4>1, <4>2
      <3>. QED
        BY <3>2 DEF CacheTypes
    <2>5. EngineTypes'
      BY <1>t DEF EngineTypes
    <2>. QED
      BY <2>2, <2>3, <2>4, <2>5, TextsKept DEF SpeechInv
  <1>4. CASE GetModel(t)
    <2>. UNCHANGED <<speech, registered, wants, model, engineClosed, loader, speaker, cache,
                     loads, closing>>
      BY <1>4 DEF GetModel
    <2>1. PICK step \in {"failed", "infer", "load"} : Goes(t, step)
      BY <1>4 DEF GetModel, LoadFails
    <2>2. stage[t] = "model" /\ step \in Steps /\ step \notin {"missing", "loading"}
      BY <1>4, <1>s DEF GetModel
    <2>3. /\ ThreadTypes' /\ OnlyOldTextsAreMissing'
          /\ \A u \in Thread : stage'[u] = IF u = t THEN step ELSE stage[u]
      BY <2>1, <2>2, ThreadGoes
    <2>4. LoadsUnderLock'
      BY <2>2, <2>3, LoadsKept
    <2>5. EngineTypes'
      <3>1. load_error' \in BOOLEAN
        <4>1. load_error' \in {load_error, load_error \/ t = Warmup}
          BY <1>4 DEF GetModel, LoadFails
        <4>. QED
          BY <1>t, <4>1, Zenon DEF EngineTypes
      <3>. QED
        BY <1>t, <3>1 DEF EngineTypes
    <2>. QED
      BY <2>3, <2>4, <2>5, TextsKept, CacheKept DEF SpeechInv
  <1>5. CASE TakeLoadLock(t)
    <2>. UNCHANGED <<speech, registered, wants, model, engineClosed, speaker, cache, loads, closing>>
      BY <1>5 DEF TakeLoadLock
    <2>1. PICK step \in {"failed", "infer", "loading"} :
            /\ Goes(t, step)
            /\ step = "loading" => ~model /\ loader' = t
            /\ step # "loading" => UNCHANGED loader
            /\ load_error' \in {load_error, load_error \/ t = Warmup}
      BY <1>5 DEF TakeLoadLock, LoadFails, AlreadyThere
    <2>2. stage[t] = "load" /\ loader = NoThread /\ step \in Steps /\ step # "missing"
      BY <1>5, <1>s DEF TakeLoadLock
    <2>3. /\ ThreadTypes' /\ OnlyOldTextsAreMissing'
          /\ \A u \in Thread : stage'[u] = IF u = t THEN step ELSE stage[u]
      BY <2>1, <2>2, ThreadGoes
    <2>4. LoadsUnderLock'
      <3>1. \A u \in Thread : stage[u] # "loading"
        BY <1>t, <2>2 DEF LoadsUnderLock
      <3>2. CASE step = "loading"
        <4>1. \A u \in Thread : stage'[u] = "loading" <=> u = t
          BY <2>3, <3>1, <3>2
        <4>2. loader' = t /\ ~model
          BY <2>1, <3>2
        <4>. QED
          BY <1>t, <4>1, <4>2 DEF LoadsUnderLock
      <3>3. CASE step # "loading"
        BY <2>1, <2>2, <2>3, <3>3, LoadsKept
      <3>. QED
        BY <3>2, <3>3
    <2>5. EngineTypes'
      <3>1. load_error' \in BOOLEAN
        BY <1>t, <2>1, Zenon DEF EngineTypes
      <3>2. loader' \in Thread \cup {NoThread}
        BY <1>t, <2>1 DEF EngineTypes
      <3>. QED
        BY <1>t, <3>1, <3>2 DEF EngineTypes
    <2>. QED
      BY <2>3, <2>4, <2>5, TextsKept, CacheKept DEF SpeechInv
  <1>6. CASE TakeVoice(t)
    <2>. UNCHANGED <<speech, registered, wants, model, load_error, engineClosed, loader,
                     cache, loads, closing>>
      BY <1>6 DEF TakeVoice
    <2>1. stage[t] = "infer" /\ speaker' = t /\ Goes(t, "speaking") /\ "speaking" \in Steps
      BY <1>6, <1>s DEF TakeVoice
    <2>2. /\ ThreadTypes' /\ OnlyOldTextsAreMissing'
          /\ \A u \in Thread : stage'[u] = IF u = t THEN "speaking" ELSE stage[u]
      BY <2>1, ThreadGoes
    <2>3. LoadsUnderLock'
      BY <2>1, <2>2, LoadsKept
    <2>4. EngineTypes'
      BY <1>t, <2>1 DEF EngineTypes
    <2>. QED
      BY <2>2, <2>3, <2>4, TextsKept, CacheKept DEF SpeechInv
  <1>7. ASSUME NEW ok \in BOOLEAN, Loaded(t, ok) PROVE SpeechInv'
    <2>. UNCHANGED <<speech, registered, wants, engineClosed, speaker, cache, closing>>
      BY <1>7 DEF Loaded
    <2>. DEFINE step == IF ok THEN "infer" ELSE "failed"
    <2>1. /\ stage[t] = "loading" /\ loader' = NoThread /\ Goes(t, step)
          /\ ok => model' = TRUE /\ loads' = loads + 1 /\ UNCHANGED load_error
          /\ ~ok => UNCHANGED <<model, loads>> /\ load_error' = TRUE
      BY <1>7 DEF Loaded, Released
    <2>2. step \in Steps /\ step \notin {"missing", "loading"}
      BY <1>s
    <2>. HIDE DEF step
    <2>3. /\ ThreadTypes' /\ OnlyOldTextsAreMissing'
          /\ \A u \in Thread : stage'[u] = IF u = t THEN step ELSE stage[u]
      BY <2>1, <2>2, ThreadGoes
    <2>4. LoadsUnderLock'
      <3>1. loader = t /\ ~model
        BY <1>t, <2>1 DEF LoadsUnderLock
      <3>2. \A u \in Thread : stage'[u] # "loading"
        BY <1>t, <2>2, <2>3, <3>1 DEF LoadsUnderLock
      <3>3. ~engineClosed' => loads' = IF model' THEN 1 ELSE 0
        BY <1>t, <2>1, <3>1 DEF LoadsUnderLock
      <3>. QED
        BY <1>t, <2>1, <3>2, <3>3 DEF LoadsUnderLock
    <2>5. EngineTypes'
      <3>1. model' \in BOOLEAN /\ load_error' \in BOOLEAN
        BY <1>t, <2>1, Zenon DEF EngineTypes
      <3>2. loads' \in Nat
        BY <1>t, <2>1 DEF EngineTypes
      <3>. QED
        BY <1>t, <2>1, <3>1, <3>2 DEF EngineTypes
    <2>. QED
      BY <2>3, <2>4, <2>5, TextsKept, CacheKept DEF SpeechInv
  <1>8. ASSUME NEW ok \in BOOLEAN, Spoke(t, ok) PROVE SpeechInv'
    <2>. UNCHANGED <<speech, registered, wants, model, engineClosed, loader, cache, loads, closing>>
      BY <1>8 DEF Spoke
    <2>1. PICK step \in {"played", "made", "failed"} : Goes(t, step)
      BY <1>8 DEF Spoke, LoadFails
    <2>2. /\ stage[t] = "speaking" /\ speaker' = NoThread
          /\ step \in Steps /\ step \notin {"missing", "loading"}
      BY <1>8, <1>s DEF Spoke
    <2>3. /\ ThreadTypes' /\ OnlyOldTextsAreMissing'
          /\ \A u \in Thread : stage'[u] = IF u = t THEN step ELSE stage[u]
      BY <2>1, <2>2, ThreadGoes
    <2>4. LoadsUnderLock'
      BY <2>2, <2>3, LoadsKept
    <2>5. EngineTypes'
      <3>1. load_error' \in {load_error, load_error \/ t = Warmup}
        BY <1>8 DEF Spoke, LoadFails
      <3>2. load_error' \in BOOLEAN
        BY <1>t, <3>1, Zenon DEF EngineTypes
      <3>. QED
        BY <1>t, <2>2, <3>2 DEF EngineTypes
    <2>. QED
      BY <2>3, <2>4, <2>5, TextsKept, CacheKept DEF SpeechInv
  <1>. QED
    BY <1>1, <1>2, <1>3, <1>4, <1>5, <1>6, <1>7, <1>8 DEF Work

\* The engine is closed.
LEMMA ClosingInv ==
    ASSUME SpeechInv, CloseVoice \/ Join \/ DropModel
    PROVE  SpeechInv'
  <1>t. ThreadTypes /\ EngineTypes /\ CacheTypes /\ LoadsUnderLock /\ OnlyOldTextsAreMissing
    BY DEF SpeechInv
  <1>. UNCHANGED <<speech, registered, stage, wants, load_error, loader, speaker, loads>>
    BY DEF CloseVoice, Join, DropModel, engineVars
  <1>1. ThreadTypes' /\ OnlyOldTextsAreMissing'
    BY <1>t DEF ThreadTypes, OnlyOldTextsAreMissing
  <1>2. /\ model' \in {model, FALSE} /\ (model' # model => closing = "joined")
        /\ engineClosed' \in {engineClosed, TRUE} /\ (closing' # "no" => closing # "no" \/ engineClosed')
        /\ closing' \in {"called", "joined", "done"}
        /\ closing # "no" => UNCHANGED engineClosed
    BY DEF CloseVoice, Join, DropModel, engineVars
  <1>3. EngineTypes'
    <2>1. model' \in BOOLEAN /\ engineClosed' \in BOOLEAN
      BY <1>t, <1>2, Zenon DEF EngineTypes
    <2>. QED
      BY <1>t, <1>2, <2>1 DEF EngineTypes
  <1>4. LoadsUnderLock'
    <2>1. engineClosed'
      BY <1>t, <1>2 DEF LoadsUnderLock
    <2>2. model' => model
      BY <1>2
    <2>. QED
      BY <1>t, <2>1, <2>2 DEF LoadsUnderLock
  <1>5. CacheTypes'
    <2>1. cache' = cache \/ cache' = <<>>
      BY DEF CloseVoice, Join, DropModel, engineVars
    <2>2. <<>> \in Seq(Texts) /\ Len(<<>>) <= CacheSize
      BY SpeechNumbers
    <2>. QED
      BY <1>t, <2>1, <2>2 DEF CacheTypes
  <1>. QED
    BY <1>1, <1>3, <1>4, <1>5, TextsKept DEF SpeechInv

LEMMA SpeechStepInv == SpeechInv /\ [SpeechNext]_speechVars => SpeechInv'
  <1>. SUFFICES ASSUME SpeechInv, [SpeechNext]_speechVars PROVE SpeechInv'
    OBVIOUS
  <1>1. CASE UNCHANGED speechVars
    BY <1>1 DEF speechVars, SpeechInv, ThreadTypes, EngineTypes, CacheTypes, TextsAreNewest,
                LoadsUnderLock, OnlyOldTextsAreMissing
  <1>2. CASE SpeechNext
    BY <1>2, PanelSideInv, WorkInv, ClosingInv DEF SpeechNext
  <1>. QED
    BY <1>1, <1>2

LEMMA SpeechEnough == SpeechInv => SpeechIsKept
  <1>. SUFFICES ASSUME SpeechInv PROVE SpeechIsKept
    OBVIOUS
  <1>1. InSeq(cache) \subseteq 1 .. MaxTexts
    <2>1. cache \in Seq(1 .. MaxTexts)
      BY DEF SpeechInv, CacheTypes, Texts
    <2>. QED
      BY <2>1, InSeqType
  <1>2. {model, load_error, engineClosed} \subseteq BOOLEAN
    BY Zenon DEF SpeechInv, EngineTypes
  <1>3. SpeechTypeOK
    BY <1>1, <1>2 DEF SpeechInv, ThreadTypes, EngineTypes, CacheTypes, SpeechTypeOK
  <1>4. ModelIsBuiltOnce
    BY DEF SpeechInv, LoadsUnderLock, ModelIsBuiltOnce
  <1>. QED
    BY <1>3, <1>4 DEF SpeechInv, SpeechIsKept

\* The model is built once however many threads find it missing, the sound
\* kept stays within its bound, and an id is refused only when newer texts
\* have pushed its text out, for every number of browsers, of texts kept and
\* of sounds kept (server.py:774-791, voice/xtts.py).
THEOREM SpeechStaysKept == SpeechSpec => []SpeechIsKept
  <1>1. SpeechSpec => []SpeechInv
    BY SpeechInitInv, SpeechStepInv, PTL DEF SpeechSpec
  <1>. QED
    BY <1>1, SpeechEnough, PTL
=============================================================================

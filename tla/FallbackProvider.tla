-------------------------- MODULE FallbackProvider --------------------------
(***************************************************************************)
(* The controlled routing between the primary and the fallback model.      *)
(*                                                                         *)
(* A call (chat, or chat_stream with the same policy) tries the primary at *)
(* most MaxRetries + 1 times, then may try the fallback once.  A primary   *)
(* that reports its server unreachable opens the circuit: until the        *)
(* cooldown has passed every call is refused at once.  The agent makes one *)
(* call at a time, under its turn lock, and takes the pieces of a stream   *)
(* as they come.                                                           *)
(*                                                                         *)
(* Time is what the breaker needs of it: the age of an open circuit, up to *)
(* the cooldown.                                                           *)
(*                                                                         *)
(* An operator named X_Fault is X with a seeded fault.  The specification  *)
(* never uses it: it shows that the properties notice the fault.           *)
(***************************************************************************)
EXTENDS Integers, Sequences

CONSTANTS
    MaxRetries,  (* FallbackProvider.max_retries                            *)
    Cooldown,    (* circuit_cooldown, in units of time                      *)
    MaxPieces    (* pieces of one model's answer, a bound                   *)

\* __init__ clamps max_retries to 0 or more and circuit_cooldown to 1 or more.
ASSUME RetriesAssumption == MaxRetries \in Nat
ASSUME CooldownAssumption == Cooldown \in Nat \ {0}
ASSUME PiecesAssumption == MaxPieces \in Nat \ {0}

VARIABLES
    circuit,      (* how long ago the circuit opened, or Closed             *)
    phase,        (* where the call in progress stands                      *)
    streaming,    (* whether it is a chat_stream call                       *)
    attempt,      (* the primary's attempt number, from 0                   *)
    emitted,      (* whether this attempt gave the caller a piece           *)
    lastError,    (* the kind of the primary's last error, or None          *)
    fallbackUsed, (* FallbackProvider.fallback_used                         *)
    retryCount,   (* FallbackProvider.retry_count                           *)
    requests,     (* the requests this call sent to the primary, counted    *)
                  (* up to one more than its budget (history)               *)
    deadFor,      (* how long ago the primary was found dead, counted up to *)
                  (* the cooldown (history)                                 *)
    received      (* the source of each piece the caller got in this call   *)

vars == <<circuit, phase, streaming, attempt, emitted, lastError, fallbackUsed,
          retryCount, requests, deadFor, received>>
callVars == <<streaming, attempt, emitted, lastError, fallbackUsed, retryCount,
              requests, received>>

Closed == -1
None == "none"
Ages == {Closed} \cup 0 .. Cooldown

\* A piece's source is the number of the attempt, or Fallback.
Fallback == MaxRetries + 1
Sources == 0 .. Fallback
Phases == {"idle", "primary", "requested", "deciding", "fallback",
           "answered", "failed", "refused"}

\* The errors OllamaProvider raises.
ErrorType == {"timeout", "server_unavailable", "model_missing", "model_oom",
              "invalid_argument", "server_error", "request_error"}
Retryable == {"timeout", "server_error"}
FallbackAllowed == {"timeout", "model_missing", "model_oom"}
ServerDown == {"server_unavailable"}

Init ==
    /\ circuit = Closed
    /\ phase = "idle"
    /\ streaming = FALSE
    /\ attempt = 0
    /\ emitted = FALSE
    /\ lastError = None
    /\ fallbackUsed = FALSE
    /\ retryCount = 0
    /\ requests = 0
    /\ deadFor = Cooldown
    /\ received = <<>>

-----------------------------------------------------------------------------
Older(age) == IF age < Cooldown THEN age + 1 ELSE age
Tick ==
    /\ circuit' = IF circuit = Closed THEN Closed ELSE Older(circuit)
    /\ deadFor' = Older(deadFor)
    /\ UNCHANGED <<phase, callVars>>

\* circuit_open: an open circuit closes when it is asked after the cooldown.
CircuitOpen_Fault == FALSE
CircuitOpen == circuit # Closed /\ circuit < Cooldown

Forgotten_Fault == fallbackUsed
Forgotten == FALSE
\* chat and chat_stream begin: forget the last call, ask the breaker.
Call ==
    /\ phase \in {"idle", "answered", "failed", "refused"}
    /\ streaming' \in BOOLEAN
    /\ attempt' = 0
    /\ emitted' = FALSE
    /\ lastError' = None
    /\ fallbackUsed' = Forgotten
    /\ retryCount' = 0
    /\ requests' = 0
    /\ received' = <<>>
    /\ UNCHANGED deadFor
    /\ IF CircuitOpen
       THEN phase' = "refused" /\ UNCHANGED circuit
       ELSE phase' = "primary" /\ circuit' = Closed

\* One attempt of the loop sends its request to the primary.
Request ==
    /\ phase = "primary"
    /\ phase' = "requested"
    /\ emitted' = FALSE
    /\ requests' = IF requests <= MaxRetries + 1 THEN requests + 1 ELSE requests
    /\ UNCHANGED <<circuit, streaming, attempt, lastError, fallbackUsed,
                   retryCount, deadFor, received>>

Source == IF phase = "fallback" THEN Fallback ELSE attempt

\* A piece of a stream reaches the caller.
Piece ==
    /\ streaming
    /\ phase \in {"requested", "fallback"}
    /\ Len(received) < MaxPieces
    /\ received' = Append(received, Source)
    /\ emitted' = (phase = "requested" \/ emitted)
    /\ UNCHANGED <<circuit, phase, streaming, attempt, lastError, fallbackUsed,
                   retryCount, requests, deadFor>>

\* The provider finished: a plain call hands over its whole answer.
Delivered == IF streaming THEN received ELSE <<Source>>
PrimaryAnswers ==
    /\ phase = "requested"
    /\ received' = Delivered
    /\ retryCount' = attempt
    /\ phase' = "answered"
    /\ UNCHANGED <<circuit, streaming, attempt, emitted, lastError,
                   fallbackUsed, requests, deadFor>>

\* The primary raised an LLMProviderError.  Once a piece was emitted it is
\* raised as it is; a dead server opens the circuit; else another attempt is
\* made while the error is retryable and attempts are left.
Surfaces_Fault == FALSE
Surfaces == emitted
TriesAgain_Fault(kind) == kind \in Retryable /\ attempt <= MaxRetries
TriesAgain(kind) == kind \in Retryable /\ attempt < MaxRetries
NextAttempt_Fault == attempt
NextAttempt == attempt + 1
Opened(kind) == IF kind \in ServerDown THEN 0 ELSE circuit
PrimaryFails(kind) ==
    /\ phase = "requested"
    /\ IF Surfaces
       THEN phase' = "failed" /\ UNCHANGED <<circuit, attempt, lastError, deadFor>>
       ELSE /\ lastError' = kind
            /\ circuit' = Opened(kind)
            /\ deadFor' = IF kind \in ServerDown THEN 0 ELSE deadFor
            /\ \/ kind \in ServerDown /\ phase' = "failed" /\ UNCHANGED attempt
               \/ TriesAgain(kind) /\ phase' = "primary" /\ attempt' = NextAttempt
               \/ /\ kind \notin ServerDown /\ ~TriesAgain(kind)
                  /\ phase' = "deciding" /\ UNCHANGED attempt
    /\ UNCHANGED <<streaming, emitted, fallbackUsed, retryCount, requests, received>>

\* The primary is given up: raise its error, or turn to the fallback.
MayFallBack_Fault == TRUE
MayFallBack == lastError \in FallbackAllowed
GiveUpPrimary ==
    /\ phase = "deciding"
    /\ retryCount' = IF lastError \in Retryable THEN MaxRetries ELSE 0
    /\ phase' = IF MayFallBack THEN "fallback" ELSE "failed"
    /\ fallbackUsed' = MayFallBack
    /\ UNCHANGED <<circuit, streaming, attempt, emitted, lastError, requests,
                   deadFor, received>>

\* The fallback's outcome is the call's; its errors are raised as they are.
FallbackAnswers ==
    /\ phase = "fallback"
    /\ received' = Delivered
    /\ phase' = "answered"
    /\ UNCHANGED <<circuit, streaming, attempt, emitted, lastError,
                   fallbackUsed, retryCount, requests, deadFor>>
FallbackFails ==
    /\ phase = "fallback"
    /\ phase' = "failed"
    /\ UNCHANGED <<circuit, deadFor, callVars>>

\* Any other exception (a malformed body) passes through the router.
OtherError ==
    /\ phase = "requested"
    /\ phase' = "failed"
    /\ UNCHANGED <<circuit, deadFor, callVars>>

Respond ==
    \/ PrimaryAnswers \/ OtherError
    \/ \E kind \in ErrorType : PrimaryFails(kind)
    \/ GiveUpPrimary \/ FallbackAnswers \/ FallbackFails

Next == Tick \/ Call \/ Request \/ Piece \/ Respond

\* Every request is answered or times out, and time passes.  Nothing makes
\* the agent call.
Spec == Init /\ [][Next]_vars /\ WF_vars(Request \/ Respond) /\ WF_vars(Tick)

-----------------------------------------------------------------------------
(* Properties.                                                             *)

\* Every variable keeps its type; the retry budget is never exceeded.
TypeOK ==
    /\ circuit \in Ages
    /\ phase \in Phases
    /\ streaming \in BOOLEAN
    /\ attempt \in 0 .. MaxRetries
    /\ emitted \in BOOLEAN
    /\ lastError \in ErrorType \cup {None}
    /\ fallbackUsed \in BOOLEAN
    /\ retryCount \in 0 .. MaxRetries
    /\ requests \in 0 .. MaxRetries + 1
    /\ deadFor \in 0 .. Cooldown
    /\ received \in Seq(Sources)

\* "Retrying after bytes reached the caller would duplicate the beginning of
\* the answer": whatever fails and is retried, all that one call gives its
\* caller comes from one attempt of one model.
OneSource ==
    \A i, j \in DOMAIN received : received[i] = received[j]

\* test_dead_server_never_tries_another_model_on_same_server and
\* test_persistent_timeout_falls_back_after_retry_budget: the fallback gets a
\* call only after an error that allows it and only when no attempt is left.
FallbackIsLastResort ==
    fallbackUsed =>
        /\ lastError \in FallbackAllowed \ ServerDown
        /\ lastError \in Retryable => requests = MaxRetries + 1

\* What the trace reports of a call that answered is what happened: which
\* model it was, and how many retries the primary needed.
ReportedSource ==
    phase = "answered" =>
        /\ \A i \in DOMAIN received : fallbackUsed <=> received[i] = Fallback
        /\ ~fallbackUsed => retryCount = requests - 1

\* The circuit breaker: a server that the primary met dead before any piece
\* is not asked by the primary again until the cooldown has passed, whatever
\* calls are made.  A fallback that meets it dead opens no circuit.
DeadServerIsLeftAlone == [][requests' > requests => deadFor = Cooldown]_vars

\* Bounded retry and fallback: every call ends.
EveryCallEnds ==
    (phase = "primary") ~> (phase \in {"answered", "failed"})

\* An answer comes from one model, the one that the policy allows and that
\* the trace names.
AnswersAreSound ==
    /\ TypeOK
    /\ OneSource
    /\ FallbackIsLastResort
    /\ ReportedSource
=============================================================================

---------------------------- MODULE ModelStream ----------------------------
(***************************************************************************)
(* One provider's calls to the local model server: OllamaProvider.         *)
(*                                                                         *)
(* A turn sets the reasoning profile, then makes plain calls (chat) or     *)
(* streamed ones (chat_stream).  A streamed answer is a sequence of lines, *)
(* each with a piece of text, tool calls, both, or nothing that can be     *)
(* read; the caller gets the text as it comes and asks for the structured  *)
(* result, son_yanit, when the stream has ended.  The caller may also drop *)
(* the stream.  What the server does is external: it answers, refuses,     *)
(* goes silent, or closes the connection, in the middle of a line or       *)
(* between two lines, without a last line marked "done".                   *)
(*                                                                         *)
(* Pieces and calls are the number of the call they belong to: whether two *)
(* differ in wording does not matter, whose answer they are does.          *)
(*                                                                         *)
(* An operator named X_Fault is X with a seeded fault.  The specification  *)
(* never uses it: it shows that the properties notice the fault.           *)
(***************************************************************************)
EXTENDS Integers, Sequences

CONSTANTS
    MaxCalls,    (* calls made of the provider, a bound                     *)
    MaxLines     (* lines of one streamed answer, a bound                   *)

ASSUME StreamAssumption == MaxCalls \in Nat /\ MaxLines \in Nat

VARIABLES
    baseThink,   (* JARVIS_OLLAMA_THINK: the operator's switch              *)
    level,       (* the reasoning level last applied                        *)
    think,       (* OllamaProvider.think                                    *)
    link,        (* "idle", "plain" or "stream": the request under way      *)
    sentThink,   (* the think field of the last request                     *)
    calls,       (* requests made so far                                    *)
    lines,       (* lines of this answer read so far                        *)
    text,        (* parcalar                                                *)
    tools,       (* cagrilar                                                *)
    yielded,     (* what the caller was given of this answer (history)      *)
    result,      (* son_yanit: <<text, tools>>                              *)
    usage,       (* the call whose counters son_kullanim has, or NoUsage    *)
    raised       (* the failure of the last call, or NoFailure              *)

streamVars == <<baseThink, level, think, link, sentThink, calls, lines, text,
                tools, yielded, result, usage, raised>>
settings == <<baseThink, level, think>>
answerVars == <<lines, text, tools, yielded>>

NoUsage == 0
NoFailure == "none"
EmptyResult == [text |-> <<>>, tools |-> <<>>]

-----------------------------------------------------------------------------
(* The errors, and what the router may do after each.                      *)

\* _connection_exception: a time-out may be tried again or elsewhere, an
\* unreachable server may not.
ConnectionError(why) ==
    IF why = "timed_out"
    THEN [kind |-> "timeout", retryable |-> TRUE, fallback |-> TRUE, up |-> "unknown"]
    ELSE [kind |-> "server_unavailable", retryable |-> FALSE, fallback |-> FALSE,
          up |-> "no"]

\* _http_exception: the body's words come before the status code.
HttpError(code, body) ==
    LET error(kind, again, other) ==
            [kind |-> kind, retryable |-> again, fallback |-> other, up |-> "yes"]
    IN  IF code = 404 \/ body = "not_found" THEN error("model_missing", FALSE, TRUE)
        ELSE IF body = "out_of_memory" THEN error("model_oom", FALSE, TRUE)
        ELSE IF code \in {400, 422} THEN error("invalid_argument", FALSE, FALSE)
        ELSE error("provider_failure", code >= 500, FALSE)

HttpErrors == {HttpError(code, body) : code \in {400, 404, 422, 429, 500, 503},
                                       body \in {"not_found", "out_of_memory", "other"}}
ProviderErrors == HttpErrors \cup {ConnectionError(why) : why \in {"timed_out", "refused"}}

-----------------------------------------------------------------------------
(* Reading an answer.                                                      *)

\* What a line can hold.  A part of a line cannot be parsed and is skipped.
StreamLines == {"piece", "call", "piece_and_call", "bad_call", "unreadable", "blank"}
HasPiece(line) == line \in {"piece", "piece_and_call"}
HasCall(line) == line \in {"call", "piece_and_call"}

-----------------------------------------------------------------------------
StreamInit ==
    /\ baseThink \in BOOLEAN
    /\ think = baseThink
    /\ level = 0
    /\ link = "idle"
    /\ sentThink = FALSE
    /\ calls = 0
    /\ lines = 0
    /\ text = <<>>
    /\ tools = <<>>
    /\ yielded = <<>>
    /\ result = EmptyResult
    /\ usage = NoUsage
    /\ raised = NoFailure

\* profile_for clamps the level; levels 4 and 5 want to think.
ProfileThinks(l) == (IF l > 5 THEN 5 ELSE IF l < 0 THEN 0 ELSE l) >= 4

\* apply_reasoning: level 0 restores the configured values.
Thinking_Fault(l) == IF l = 0 THEN baseThink ELSE ProfileThinks(l)
Thinking(l) == IF l = 0 THEN baseThink ELSE baseThink /\ ProfileThinks(l)
ApplyReasoning(l) ==
    /\ link = "idle"
    /\ level' = l
    /\ think' = Thinking(l)
    /\ UNCHANGED <<baseThink, link, sentThink, calls, answerVars, result, usage, raised>>

\* chat and chat_stream send their request.  Only a stream forgets the last
\* result and the last counters.
Forgets_Fault(streamed) == FALSE
Forgets(streamed) == streamed
Ask(streamed) ==
    /\ link = "idle"
    /\ calls < MaxCalls
    /\ calls' = calls + 1
    /\ link' = IF streamed THEN "stream" ELSE "plain"
    /\ sentThink' = think
    /\ lines' = 0
    /\ text' = <<>>
    /\ tools' = <<>>
    /\ yielded' = <<>>
    /\ result' = IF Forgets(streamed) THEN EmptyResult ELSE result
    /\ usage' = IF Forgets(streamed) THEN NoUsage ELSE usage
    /\ raised' = NoFailure
    /\ UNCHANGED settings

\* The next line of a stream.  Text goes to the caller before the calls of
\* the line are read.
Line(line) ==
    /\ link = "stream"
    /\ lines < MaxLines
    /\ lines' = lines + 1
    /\ text' = IF HasPiece(line) THEN Append(text, calls) ELSE text
    /\ yielded' = IF HasPiece(line) THEN Append(yielded, calls) ELSE yielded
    /\ tools' = IF HasCall(line) THEN Append(tools, calls) ELSE tools
    /\ UNCHANGED <<settings, link, sentThink, calls, result, usage, raised>>

\* The line marked "done" has the counters; reading goes on to the end.
Done ==
    /\ link = "stream"
    /\ usage' = calls
    /\ UNCHANGED <<settings, link, sentThink, calls, answerVars, result, raised>>

\* The connection ends.  Nothing asks whether a line was marked "done".
EndOfStream ==
    /\ link = "stream"
    /\ link' = "idle"
    /\ result' = [text |-> text, tools |-> tools]
    /\ UNCHANGED <<settings, sentThink, calls, answerVars, usage, raised>>

\* A plain answer comes whole; son_yanit is not touched.
PlainAnswer(hasCall) ==
    /\ link = "plain"
    /\ link' = "idle"
    /\ text' = <<calls>>
    /\ tools' = IF hasCall THEN <<calls>> ELSE <<>>
    /\ usage' = calls
    /\ UNCHANGED <<settings, sentThink, calls, lines, yielded, result, raised>>

\* The server rejects the request, cannot be reached, or falls silent, also
\* between two lines.  A stream that was rejected has given nothing.
Fails(error) ==
    /\ link # "idle"
    /\ error \in HttpErrors => lines = 0
    /\ link' = "idle"
    /\ raised' = error.kind
    /\ UNCHANGED <<settings, sentThink, calls, answerVars, result, usage>>

\* The connection breaks within a chunk, or a plain body is no JSON: no
\* handler of the provider knows the exception, so it is not a typed one.
Breaks ==
    /\ link # "idle"
    /\ link' = "idle"
    /\ raised' = "untyped"
    /\ UNCHANGED <<settings, sentThink, calls, answerVars, result, usage>>

\* The caller stops listening: the generator is closed where it stands.
Dropped ==
    /\ link = "stream"
    /\ link' = "idle"
    /\ raised' = "dropped"
    /\ UNCHANGED <<settings, sentThink, calls, answerVars, result, usage>>

StreamNext ==
    \/ \E l \in {0, 1, 4} : ApplyReasoning(l)
    \/ \E streamed \in BOOLEAN : Ask(streamed)
    \/ \E line \in StreamLines : Line(line)
    \/ Done \/ EndOfStream \/ Breaks \/ Dropped
    \/ \E hasCall \in BOOLEAN : PlainAnswer(hasCall)
    \/ \E error \in ProviderErrors : Fails(error)

StreamSpec == StreamInit /\ [][StreamNext]_streamVars

-----------------------------------------------------------------------------
(* The context window that every request asks for.                         *)

\* __init__ keeps the window at 512 or more: the share is always defined.
ContextSize(configured) ==
    LET asked == IF configured = 0 THEN 8192 ELSE configured
    IN  IF asked < 512 THEN 512 ELSE asked
WindowIsPositive == \A n \in {-1, 0, 1, 511, 512, 8192} : ContextSize(n) >= 512

-----------------------------------------------------------------------------
(* The start-up probe: ollama_hazir.                                       *)

\* A slow server counts as ready, so as not to hold the start; the model is
\* listed by its name or with ":latest".
Probe(reply, models, wanted) ==
    CASE reply = "timed_out" -> "ready"
      [] reply \in {"refused", "no_json"} -> "not_running"
      [] OTHER -> IF models = {} THEN "no_model"
                  ELSE IF {wanted, wanted \o ":latest"} \cap models = {} THEN "not_pulled"
                  ELSE "ready"

\* "ready" is only said of a server that has the model or did not answer.
ProbeIsHonest ==
    \A reply \in {"timed_out", "refused", "no_json", "list"},
       models \in SUBSET {"m", "m:latest", "other"} :
        Probe(reply, models, "m") = "ready"
            => reply = "timed_out" \/ models \cap {"m", "m:latest"} # {}

-----------------------------------------------------------------------------
(* Properties.                                                             *)

\* Every variable keeps its type.
StreamTypeOK ==
    /\ level \in {0, 1, 4}
    /\ {baseThink, think, sentThink} \subseteq BOOLEAN
    /\ link \in {"idle", "plain", "stream"}
    /\ calls \in 0 .. MaxCalls
    /\ lines \in 0 .. MaxLines
    /\ {text, tools, yielded, result.text, result.tools} \subseteq Seq(1 .. MaxCalls)
    /\ usage \in 0 .. MaxCalls
    /\ raised \in {NoFailure, "untyped", "dropped"} \cup {e.kind : e \in ProviderErrors}

\* "Models such as Qwen 2.5 reject think=true with HTTP 400, so a high
\* reasoning level must never turn it on when the operator left it disabled":
\* whatever levels the turns before asked for, no request asks for it.
ThinkingIsTheOperators == sentThink => baseThink

\* The structured result read after a stream is that stream's: the text the
\* caller heard and the calls of the same answer, and nothing at all when the
\* stream failed or was dropped.  A call left over from an earlier answer
\* would be executed as if the model had asked for it again.
NoLeftOverCalls ==
    [][link = "stream" /\ link' = "idle" =>
        result' = IF raised' = NoFailure THEN [text |-> yielded, tools |-> tools]
                  ELSE EmptyResult]_streamVars

\* What is asked of the model stays within what the operator switched on, and
\* what is read after a stream is of that stream.
StreamsAreTheirOwn == [](StreamTypeOK /\ ThinkingIsTheOperators) /\ NoLeftOverCalls
=============================================================================

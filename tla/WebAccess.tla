----------------------------- MODULE WebAccess -----------------------------
(***************************************************************************)
(* The internet tools: web_ara asks a search engine, web_oku reads a page. *)
(*                                                                         *)
(* Both hand the model either results or an error it can tell the user.    *)
(* "Blocked" and "no results" need different reactions, so a refusal must  *)
(* not look like an empty list.  A page is fetched hop by hop, and every   *)
(* hop's address is examined before the request: a redirect may lead where *)
(* the address that was asked for does not.                                *)
(*                                                                         *)
(* An address is what url_denetle sees of it: its scheme and its host as   *)
(* it is written.  A name is resolved twice, once for the examination and  *)
(* once more for the connection, and may answer differently: `answers` is  *)
(* the resolver (external), NameMoves its changes.  A search page is what  *)
(* the engine did and the marks the code looks for in the page.            *)
(*                                                                         *)
(* An operator named X_Fault is X with a seeded fault.  The specification  *)
(* never uses it: it shows that the properties notice the fault.           *)
(***************************************************************************)
EXTENDS Integers, Sequences, FiniteSets

CONSTANTS
    Names,       (* the host names there are                                *)
    MaxHops,     (* redirects of one fetch, a bound (urllib has one too)    *)
    MostResults  (* EN_FAZLA_SONUC of the tool, 8 in the code               *)

Written == {"missing", "private_literal", "localhost"}

ASSUME WebAssumption ==
    /\ MaxHops \in Nat
    /\ MostResults \in Nat \ {0}
    /\ Names \cap Written = {}

VARIABLES
    engine,      (* "off", "duckduckgo" or "brave": build_arama             *)
    answers,     (* what each name resolves to now (external)               *)
    browsing,    (* "idle", "searching", "examined", "fetching"             *)
    wanted,      (* results asked of the engine                             *)
    hop,         (* the address that was examined last                      *)
    moved,       (* its name has changed its answer since (history)         *)
    hops,        (* redirects followed by this fetch                        *)
    reached,     (* the last connection: to what, where, moved (history)    *)
    cause,       (* what the last tool call met (history)                   *)
    told         (* what the last tool call told the model                  *)

fetchVars == <<hop, moved, hops, reached>>
webVars == <<engine, answers, browsing, wanted, fetchVars, cause, told>>

-----------------------------------------------------------------------------
(* url_denetle.                                                            *)

Schemes == {"http", "https", "file", "none"}
Sides == {"public", "private"}
Addresses == [scheme : Schemes, host : Written \cup Names]
NoAddress == [scheme |-> "none", host |-> "missing"]

\* A web address whose host is a name, and a name of whose answer, which is
\* not empty, no part is private.
WebName(a) == a.scheme \in {"http", "https"} /\ a.host \in Names
Examined(a) == WebName(a) /\ answers[a.host] = {"public"}

\* A connection that was made: a fetch's last one, or none yet.
Connections == [to : Addresses, side : Sides \cup {"none"}, moved : BOOLEAN]
NoConnection == [to |-> NoAddress, side |-> "none", moved |-> FALSE]

-----------------------------------------------------------------------------
WebInit ==
    /\ engine \in {"off", "duckduckgo", "brave"}
    /\ answers \in [Names -> SUBSET Sides]
    /\ browsing = "idle"
    /\ wanted = 0
    /\ hop = NoAddress
    /\ moved = FALSE
    /\ hops = 0
    /\ reached = NoConnection
    /\ cause = "nothing"
    /\ told = [kind |-> "nothing", count |-> 0]

Tells(kind, count) == told' = [kind |-> kind, count |-> count]

(* web_ara. *)

\* The model's number is clamped to 1 .. MostResults; no number counts as 5.
NotANumber == -100
Count(asks) == LET n == IF asks = NotANumber THEN 5 ELSE asks
               IN  IF n < 1 THEN 1 ELSE IF n > MostResults THEN MostResults ELSE n
Search(asks, blank) ==
    /\ browsing = "idle"
    /\ wanted' = Count(asks)
    /\ IF engine = "off" \/ blank
       THEN /\ Tells("error", 0)
            /\ cause' = IF engine = "off" THEN "off" ELSE "blank"
            /\ UNCHANGED browsing
       ELSE browsing' = "searching" /\ UNCHANGED <<told, cause>>
    /\ UNCHANGED <<engine, answers, fetchVars>>

\* The request did not bring a page: HTTP status, no connection, too large,
\* and for Brave a body that is no JSON (a body cut at the limit is none).
RequestFails ==
    /\ browsing = "searching"
    /\ browsing' = "idle"
    /\ Tells("error", 0)
    /\ cause' = "unreachable"
    /\ UNCHANGED <<engine, answers, wanted, fetchVars>>

\* A page: whether the engine refused the search with it, whether it has a
\* challenge's wording and the results' markup, and how many results with an
\* address and a title can be read from it.  A refusal need not have the
\* wording the code knows, and an answer may have it.
SearchPages == [refuses : BOOLEAN, challenge : BOOLEAN, markup : BOOLEAN,
                readable : 0 .. MostResults + 1]
PossiblePage(p) == p.readable > 0 => p.markup /\ ~p.refuses
TakesAsBlocked_Fault(p) == FALSE
TakesAsBlocked(p) == p.challenge
PageArrives(p) ==
    /\ browsing = "searching"
    /\ PossiblePage(p)
    /\ browsing' = "idle"
    /\ LET blocked == engine = "duckduckgo" /\ (TakesAsBlocked(p) \/ ~p.markup)
           n == IF p.readable < wanted THEN p.readable ELSE wanted
       IN  IF blocked THEN Tells("error", 0)
           ELSE Tells(IF n = 0 THEN "no_results" ELSE "results", n)
    /\ cause' = IF engine = "brave" THEN "page"
                ELSE IF p.refuses THEN IF p.markup /\ ~p.challenge THEN "disguised"
                                       ELSE "refused"
                ELSE IF p.markup THEN "page" ELSE "layout"
    /\ UNCHANGED <<engine, answers, wanted, fetchVars>>

(* web_oku: sayfa_getir. *)

\* The address passes its examination, or the fetch ends with a refusal.
Follows_Fault(a) == TRUE
Follows(a) == Examined(a)
ExaminedNext(a, n) ==
    /\ IF Follows(a)
       THEN /\ browsing' = "examined"
            /\ hop' = a
            /\ moved' = FALSE
            /\ hops' = n
            /\ UNCHANGED <<cause, told>>
       ELSE /\ browsing' = "idle"
            /\ Tells("error", 0)
            /\ cause' = "refused_address"
            /\ UNCHANGED <<hop, moved, hops>>
    /\ UNCHANGED <<engine, answers, wanted, reached>>
Read(a) == browsing = "idle" /\ ExaminedNext(a, 0)

\* _DenetliYonlendirme: a redirect is followed when its target passes.
Redirected(a) == browsing = "fetching" /\ hops < MaxHops /\ ExaminedNext(a, hops + 1)

\* The opener connects by name: it resolves the host a second time.
Connect(side) ==
    /\ browsing = "examined"
    /\ side \in answers[hop.host]
    /\ browsing' = "fetching"
    /\ reached' = [to |-> hop, side |-> side, moved |-> moved]
    /\ UNCHANGED <<engine, answers, wanted, hop, moved, hops, cause, told>>

\* External: a name answers differently from now on.
NameMoves(name, answer) ==
    /\ answers' = [answers EXCEPT ![name] = answer]
    /\ moved' = (moved \/ (browsing = "examined" /\ name = hop.host))
    /\ UNCHANGED <<engine, browsing, wanted, hop, hops, reached, cause, told>>

\* The page: too large, not text, or its text, cut at the tool's limit.
Fetched(size, type) ==
    /\ browsing = "fetching"
    /\ browsing' = "idle"
    /\ Tells(IF size = "too_large" \/ type = "binary" THEN "error" ELSE "page", 0)
    /\ cause' = "page"
    /\ UNCHANGED <<engine, answers, wanted, fetchVars>>

\* No answer to the name, no connection, or none that lasts.
FetchFails ==
    /\ browsing \in {"examined", "fetching"}
    /\ browsing' = "idle"
    /\ Tells("error", 0)
    /\ cause' = "unreachable"
    /\ UNCHANGED <<engine, answers, wanted, fetchVars>>

WebNext ==
    \/ \E asks \in {NotANumber, 0, 1, MostResults + 2}, blank \in BOOLEAN : Search(asks, blank)
    \/ RequestFails
    \/ \E p \in SearchPages : PageArrives(p)
    \/ \E a \in Addresses : Read(a) \/ Redirected(a)
    \/ \E side \in Sides : Connect(side)
    \/ \E name \in Names, answer \in SUBSET Sides : NameMoves(name, answer)
    \/ \E size \in {"fits", "too_large"}, type \in {"text", "unsaid", "binary"} :
        Fetched(size, type)
    \/ FetchFails

WebSpec == WebInit /\ [][WebNext]_webVars

-----------------------------------------------------------------------------
(* Properties.                                                             *)

\* Every variable keeps its type.
WebTypeOK ==
    /\ engine \in {"off", "duckduckgo", "brave"}
    /\ answers \in [Names -> SUBSET Sides]
    /\ browsing \in {"idle", "searching", "examined", "fetching"}
    /\ wanted \in 0 .. MostResults
    /\ hop \in Addresses
    /\ moved \in BOOLEAN
    /\ hops \in 0 .. MaxHops
    /\ reached \in Connections
    /\ told \in [kind : {"nothing", "error", "no_results", "results", "page"},
                 count : 0 .. MostResults]

\* "A refusal is never silent": an empty list is only told of a search that
\* was made, never of one the engine refused, could not be asked for or
\* answered in a form the code does not know.  A refusal is known by its
\* wording or by the missing markup: one in other words on a page with the
\* markup of results ("disguised") is told as an empty list.
NoSilentRefusal ==
    told.kind \in {"no_results", "results"} => cause \in {"page", "disguised"}

\* "Redirects are followed by hand so every hop is checked, not just the
\* first": however a fetch is led on, each of its connections is to a name
\* at a web address, and ends in a private network only when that name has
\* changed its answer between its examination and the connection.
EveryHopIsPublic ==
    reached.side # "none" =>
        /\ WebName(reached.to)
        /\ reached.side = "private" => reached.moved

\* What the owner is told of the web is what happened there, and what is
\* asked of it was examined.
WebIsHonest == WebTypeOK /\ NoSilentRefusal /\ EveryHopIsPublic
=============================================================================

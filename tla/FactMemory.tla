---------------------------- MODULE FactMemory ----------------------------
(***************************************************************************)
(* The long-term facts of MemoryStore: one row per key with the value, the *)
(* importance, the confidence of its source and a usage count, and a       *)
(* history table of the values that were replaced or refused.              *)
(*                                                                         *)
(* The writers are the tools remember_fact and forget_fact, which a turn   *)
(* calls with the user's own words or with what the model inferred, and    *)
(* merge_facts.  The readers are recall_facts and the block of relevant    *)
(* facts of every turn; both mark what they return as used, and only what  *)
(* is unimportant, unused and old is proposed for pruning.                 *)
(*                                                                         *)
(* All calls run inside a turn, under the agent's lock, and each commits   *)
(* before it returns: one call is one step.  Text is abstracted: a value   *)
(* is a model value, Similar says which keys a query for a key finds.      *)
(*                                                                         *)
(* said, echoed, held and shown are history variables of the properties.   *)
(***************************************************************************)
EXTENDS Integers, FiniteSets

CONSTANTS
    Key, Value,
    Merged,        (* the value that merge_facts composes                   *)
    NoValue,       (* the value of a key without a row                      *)
    Similar,       (* <<q, k>>: a LIKE query for q finds the row of k       *)
    Instruction,   (* keys whose category is a standing instruction         *)
    MergeSource,   (* sources given to merge_facts ("kullanici" by default) *)
    RecallLimit,   (* the limit of a retrieval (8, or 20 for the tool)      *)
    PruneAge,      (* BUDAMA_GUNU                                           *)
    MaxNow,        (* bound: the clock of the rows                          *)
    MaxWrites      (* bound: writes                                         *)

ASSUME FactValues == NoValue \notin Value \cup {Merged}
ASSUME FactSimilar == Similar \subseteq Key \X Key /\ \A k \in Key : <<k, k>> \in Similar
ASSUME FactSources == MergeSource \subseteq {"kullanici", "arac", "cikarim"}
ASSUME FactBounds == RecallLimit \in Nat /\ PruneAge \in Nat /\ MaxNow \in Nat /\ MaxWrites \in Nat

VARIABLES
    fact,      (* the row of each key                                       *)
    replaced,  (* fact_history: [key, old, new, refused]                    *)
    answer,    (* the last answer of remember_fact                          *)
    now,       (* time.time() in days                                       *)
    writes,    (* writes so far                                             *)
    said,      (* what the user said last under each key                    *)
    echoed,    (* keys whose word a weaker source has repeated since        *)
    held,      (* the values each row has had                               *)
    shown      (* the rows that were ever returned to a turn                *)

ghosts == <<said, echoed, held, shown>>
factVars == <<fact, replaced, answer, now, writes, ghosts>>

Values == Value \cup {Merged}
FactSource == {"kullanici", "tohum", "arac", "cikarim"}
Row == [value: Values \cup {NoValue}, onem: 0..2, guven: 0..10, stamp: 0..MaxNow, used: BOOLEAN]
NoRow == [value |-> NoValue, onem |-> 0, guven |-> 0, stamp |-> 0, used |-> FALSE]
Known(k) == fact[k] # NoRow

FactInit ==
    /\ fact = [k \in Key |-> NoRow]
    /\ replaced = {}
    /\ answer = [saved |-> TRUE, key |-> NoValue, value |-> NoValue]
    /\ now = 0 /\ writes = 0
    /\ said = [k \in Key |-> NoValue]
    /\ echoed = {}
    /\ held = [k \in Key |-> {}]
    /\ shown = {}

-----------------------------------------------------------------------------
(* remember.                                                               *)

\* guven_belirle, in tenths, and onem_belirle: the user's insistence, signs
\* of identity and of permanence in the text, before signs of passing.
guven_belirle(source) ==
    [kullanici |-> 10, tohum |-> 10, arac |-> 9, cikarim |-> 6][source]
onem_belirle(signs) ==
    IF signs \cap {"israr", "kimlik", "kalici"} # {} THEN 2 ELSE IF "gecici" \in signs THEN 0 ELSE 1

\* A conflicting value of a weaker source is refused.
Refused_Fault(k, v, source) == FALSE
Refused(k, v, source) ==
    Known(k) /\ fact[k].value # v /\ guven_belirle(source) < fact[k].guven

\* What the history keeps of the write.
Archived_Fault(k, v, source) ==
    IF Refused(k, v, source)
    THEN {[key |-> k, old |-> fact[k].value, new |-> v, refused |-> TRUE]} ELSE {}
Archived(k, v, source) ==
    IF Known(k) /\ fact[k].value # v
    THEN {[key |-> k, old |-> fact[k].value, new |-> v, refused |-> Refused(k, v, source)]}
    ELSE {}

Higher(a, b) == IF a >= b THEN a ELSE b
\* The row after an accepted write: the usage of the key outlives its value.
Written_Fault(k, v, source, onem) ==
    [value |-> v, onem |-> Higher(onem, fact[k].onem), guven |-> guven_belirle(source),
     stamp |-> now, used |-> FALSE]
Written(k, v, source, onem) ==
    [value |-> v, onem |-> Higher(onem, fact[k].onem), guven |-> guven_belirle(source),
     stamp |-> now, used |-> fact[k].used]

\* fact after remember, and after the keys of "gone" were forgotten too.
Store(k, v, source, signs, gone) ==
    fact' = [j \in Key |->
        IF j \in gone THEN NoRow
        ELSE IF j = k /\ ~Refused(k, v, source) THEN Written(k, v, source, onem_belirle(signs))
        ELSE fact[j]]

\* The user's words, and the values each row has had.
Hear(k, v, source, gone) ==
    /\ said' = [j \in Key |->
           IF j \in gone THEN NoValue
           ELSE IF j = k /\ source = "kullanici" THEN v ELSE said[j]]
    /\ echoed' = (IF source = "kullanici" THEN echoed \ {k}
                  ELSE IF said[k] = v THEN echoed \cup {k} ELSE echoed) \ gone
    /\ held' = [j \in Key |->
           IF j \in gone THEN {}
           ELSE IF j = k /\ ~Refused(k, v, source) THEN held[j] \cup {v} ELSE held[j]]
    /\ shown' = shown \ gone

\* The tool: what was written, or the value that stands.
remember_fact(k, v, source, signs) ==
    /\ writes < MaxWrites /\ writes' = writes + 1
    /\ Store(k, v, source, signs, {})
    /\ replaced' = replaced \cup Archived(k, v, source)
    /\ Hear(k, v, source, {})
    /\ answer' = [saved |-> ~Refused(k, v, source), key |-> k,
                  value |-> IF Refused(k, v, source) THEN fact[k].value ELSE v]
    /\ UNCHANGED now

forget_fact(k) ==
    /\ Known(k)
    /\ fact' = [fact EXCEPT ![k] = NoRow]
    /\ said' = [said EXCEPT ![k] = NoValue]
    /\ echoed' = echoed \ {k}
    /\ held' = [held EXCEPT ![k] = {}]
    /\ shown' = shown \ {k}
    /\ UNCHANGED <<replaced, answer, now, writes>>

-----------------------------------------------------------------------------
(* Retrieval.                                                              *)

\* The subsets of S that a query sorted by Above and limited to n returns.
FirstOf(S, n, Above(_, _)) ==
    {T \in SUBSET S : /\ (Cardinality(T) = n \/ (T = S /\ Cardinality(S) < n))
                      /\ \A t \in T, s \in S \ T : ~Above(s, t)}

Fresher(j, k) == fact[j].stamp > fact[k].stamp
ByImportance(j, k) ==
    fact[j].onem > fact[k].onem \/ (fact[j].onem = fact[k].onem /\ Fresher(j, k))

\* Twice the score of retrieve_relevant: words in common count 10, a
\* category that fits the intent 3, an instruction 6, importance a half.
Score(k, hits, favoured) ==
    20 * (IF k \in hits THEN 1 ELSE 0) + 6 * (IF k \in favoured THEN 1 ELSE 0)
    + 12 * (IF k \in Instruction THEN 1 ELSE 0) + fact[k].onem

\* recall(limit=1) of merge_facts finds the most important similar row.
Found(q, n) == FirstOf({k \in Key : Known(k) /\ <<q, k>> \in Similar}, n, ByImportance)

\* retrieve_relevant: a profile question takes all facts by importance.
Relevant(profile, hits, favoured) ==
    LET Above(j, k) ==
            \/ Score(j, hits, favoured) > Score(k, hits, favoured)
            \/ Score(j, hits, favoured) = Score(k, hits, favoured) /\ Fresher(j, k)
        known == {k \in Key : Known(k)}
    IN IF profile THEN FirstOf(known, RecallLimit, ByImportance)
       ELSE FirstOf(known \cap (hits \cup Instruction), RecallLimit, Above)

\* Both readers mark what they return.
Mark(T) ==
    /\ T # {}
    /\ fact' = [k \in Key |-> IF k \in T THEN [fact[k] EXCEPT !.used = TRUE] ELSE fact[k]]
    /\ shown' = shown \cup T
    /\ UNCHANGED <<replaced, answer, now, writes, said, echoed, held>>
recall_facts(q) == \E T \in Found(q, RecallLimit) : Mark(T)
retrieve_relevant(profile, hits, favoured) == \E T \in Relevant(profile, hits, favoured) : Mark(T)

\* budama_adaylari: unimportant, never used, and not written for long.
budama_adaylari ==
    {k \in Key : Known(k) /\ fact[k].onem = 0 /\ ~fact[k].used /\ now - fact[k].stamp > PruneAge}

-----------------------------------------------------------------------------
(* merge_facts: the rows that are not found stop it; then the target is    *)
(* remembered and the other rows are forgotten, whatever remember did.     *)
merge_facts(keys, target, source, signs) ==
    /\ writes < MaxWrites /\ writes' = writes + 1
    /\ Cardinality(keys) >= 2
    /\ \A k \in keys : Known(k) /\ {k} \in Found(k, 1)
    /\ Store(target, Merged, source, signs, keys \ {target})
    /\ replaced' = replaced \cup Archived(target, Merged, source)
    /\ Hear(target, Merged, source, keys \ {target})
    /\ UNCHANGED <<answer, now>>

Pass ==
    /\ now < MaxNow
    /\ now' = now + 1
    /\ UNCHANGED <<fact, replaced, answer, writes, ghosts>>

\* What the program passes: the tool knows two sources.
ToolSource == {"kullanici", "cikarim"}
Signs == {{}, {"israr"}, {"gecici"}}

FactNext ==
    \/ \E k \in Key, v \in Value, s \in ToolSource, o \in Signs : remember_fact(k, v, s, o)
    \/ \E k \in Key : forget_fact(k)
    \/ \E q \in Key : recall_facts(q)
    \/ retrieve_relevant(TRUE, {}, {})
    \/ \E H, F \in SUBSET Key : retrieve_relevant(FALSE, H, F)
    \/ \E K \in SUBSET Key, k \in Key, s \in MergeSource : merge_facts(K, k, s, {})
    \/ Pass

FactSpec == FactInit /\ [][FactNext]_factVars

-----------------------------------------------------------------------------
(* Properties.                                                             *)

\* Type correctness of the rows, the history and the clock.
FactTypeOK ==
    /\ fact \in [Key -> Row]
    /\ replaced \subseteq [key: Key, old: Values, new: Values, refused: BOOLEAN]
    /\ now \in 0..MaxNow /\ writes \in 0..MaxWrites
    /\ said \in [Key -> Values \cup {NoValue}]
    /\ echoed \subseteq Key /\ shown \subseteq Key
    /\ held \in [Key -> SUBSET Values]

\* What the user said under a key stays its value until the user says
\* otherwise, whatever the model infers, as remember's docstring promises:
\* as long as no inference has repeated the same value, which takes the row's
\* confidence down to its own.
WordStandsUnlessEchoed ==
    \A k \in Key : said[k] # NoValue /\ k \notin echoed => fact[k].value = said[k]

\* "Ustune yazilan degerler silinmiyor": every value that a row ever had is
\* its value or in the history, through any sequence of writes, refusals,
\* merges and prunings.
ReplacedValuesAreKept ==
    \A k \in Key : \A v \in held[k] :
        v = fact[k].value \/ \E h \in replaced : h.key = k /\ h.old = v

\* A fact that ever reached a turn is never proposed for pruning, even after
\* its value was replaced: the usage belongs to the key.
CandidatesWereNeverShown == budama_adaylari \cap shown = {}

\* What the memory promises of a fact: the owner's word stands, what it
\* replaced is kept, and what it offers to prune was never of use.
MemoryKeepsItsWord ==
    /\ FactTypeOK
    /\ WordStandsUnlessEchoed
    /\ ReplacedValuesAreKept
    /\ CandidatesWereNeverShown
=============================================================================

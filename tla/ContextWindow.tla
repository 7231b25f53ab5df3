--------------------------- MODULE ContextWindow ---------------------------
(***************************************************************************)
(* The working history of the agent: what the model is sent.               *)
(*                                                                         *)
(* A turn renews the system blocks, appends the user's message, then asks  *)
(* the model, over and over while tools are called, and appends what comes *)
(* back.  Before each question to the model and at the end of the turn     *)
(* the history is narrowed: system messages stay, the newest EN_AZ_TUR     *)
(* messages stay, a question that waits for its answer stays, and the rest *)
(* is filled from the newest backwards while the budget lasts.  What drops *)
(* out leaves a line in a summary of OZET_SATIR lines.                     *)
(*                                                                         *)
(* Turns run under the agent's lock.  Text is abstracted to what is tested *)
(* on it: whether it asks, whether it is an answer like "evet", how long   *)
(* it is and whether it begins like a system block.                        *)
(*                                                                         *)
(* no (the number of a message) and spoken are history variables of the    *)
(* properties.                                                             *)
(***************************************************************************)
EXTENDS Integers, Sequences, FiniteSets, FiniteSetsExt, Lists

CONSTANTS
    Text,        (* the texts of users and of the assistant                 *)
    Size,        (* the length of each text                                 *)
    Asks,        (* texts that end with a question                          *)
    BoundReply,  (* texts such as "evet" that answer a question             *)
    BlockLike,   (* texts that begin like the block of facts                *)
    NoText,      (* no pending question; the text of a result, and of a     *)
                 (* call that says nothing                                  *)
    ResultSize,  (* lengths of tool results, after truncation               *)
    EN_AZ_TUR, OZET_SATIR,
    Budget,      (* the stricter of num_ctx and context_max_chars           *)
    MaxKept,     (* history_max_messages, 0 for none                        *)
    MaxResults,  (* bound: tool calls in one answer of the model            *)
    MaxMessages  (* bound: messages                                         *)

ASSUME TextAssumption ==
    /\ Asks \subseteq Text /\ BoundReply \subseteq Text /\ BlockLike \subseteq Text
    /\ NoText \notin Text /\ Size \in [Text -> Nat] /\ ResultSize \subseteq Nat
ASSUME WindowBounds == {EN_AZ_TUR, OZET_SATIR, Budget, MaxKept, MaxResults, MaxMessages} \subseteq Nat

VARIABLES
    sistem,    (* the system messages, by block                             *)
    conv,      (* the other messages, oldest first                          *)
    pending,   (* KonusmaDurumu.pending_question                            *)
    summary,   (* conversation_summary: the numbers of the lines' messages  *)
    turnAt,    (* "idle", or "model" when the model is about to be asked    *)
    no,        (* messages so far                                           *)
    spoken     (* the sentences said, but for those taken for a block       *)

windowVars == <<sistem, conv, pending, summary, turnAt, no, spoken>>

Msg(role, text, size, n) == [role |-> role, text |-> text, size |-> size, no |-> n]
Positions(c) == 1 .. Len(c)
Numbers(c) == {c[i].no : i \in Positions(c)}
Length(c, S) ==
    LET sum[n \in 0 .. Len(c)] ==
            IF n = 0 THEN 0
            ELSE IF n \in S THEN sum[n - 1] + c[n].size ELSE sum[n - 1]
    IN  sum[Len(c)]

WindowInit ==
    /\ sistem = <<"kimlik">>
    /\ conv = <<>> /\ pending = NoText /\ summary = <<>>
    /\ turnAt = "idle" /\ no = 0 /\ spoken = {}

-----------------------------------------------------------------------------
(* pencerele and ozetle.                                                   *)

\* Positions, not values: the same sentence said twice is two messages.
Newest(c) == {i \in Positions(c) : i > Len(c) - EN_AZ_TUR}
AskedAt(c, q) == {i \in Positions(c) : c[i].role = "assistant" /\ q # NoText /\ c[i].text = q}
Question_Fault(c, q) == {}
Question(c, q) == IF AskedAt(c, q) = {} THEN {} ELSE {Max(AskedAt(c, q))}

\* The rest is filled from the newest backwards until one does not fit.
Room(blocks) == Max({0, Budget - Len(blocks)})
Fits(c, sure, i, room) ==
    LET S == sure \cup {j \in Positions(c) : j > i} IN
    /\ MaxKept = 0 \/ Cardinality(S) < MaxKept
    /\ Length(c, S) + c[i].size <= room
Windowed_Fault(c, q, room) ==
    LET sure == Newest(c) \cup Question(c, q)
        same(i) == \E j \in sure : [c[j] EXCEPT !.no = 0] = [c[i] EXCEPT !.no = 0]
    IN  sure \cup {i \in Positions(c) : same(i) \/
                      \A j \in (i .. Len(c)) \ sure : Fits(c, sure, j, room)}
Windowed(c, q, room) ==
    LET sure == Newest(c) \cup Question(c, q)
    IN  sure \cup {i \in Positions(c) : \A j \in (i .. Len(c)) \ sure : Fits(c, sure, j, room)}

LastLines(s) == SubSeq(s, Max({1, Len(s) - OZET_SATIR + 1}), Len(s))
Said(m) == m.role \in {"user", "assistant"} /\ m.text # NoText
SaidAt(c) == {i \in Positions(c) : Said(c[i])}
SummaryLines(c) ==
    LET said == ElementsAt(c, SaidAt(c)) IN [i \in Positions(said) |-> said[i].no]
Summarised_Fault(lines, dropped) == LastLines(SummaryLines(dropped))
Summarised(lines, dropped) == LastLines(lines \o SummaryLines(dropped))

\* _baglami_daralt: nothing dropped, nothing written to the summary.
Narrow(blocks, c, q) ==
    LET kept == Windowed(c, q, Room(blocks))
        dropped == ElementsAt(c, Positions(c) \ kept)
    IN  /\ conv' = ElementsAt(c, kept)
        /\ summary' = IF dropped = <<>> THEN summary ELSE Summarised(summary, dropped)

-----------------------------------------------------------------------------
(* A turn.                                                                 *)

\* replace_system_block, and the blocks inserted behind the identity.
Without(s, b) == KeepOnly(s, InSeq(s) \ {b})
WithBlock_Fault(s, b, present) == IF present THEN <<Head(s), b>> \o Tail(s) ELSE Without(s, b)
WithBlock(s, b, present) ==
    LET t == Without(s, b) IN IF present THEN <<Head(t), b>> \o Tail(t) ELSE t

\* The blocks of facts, cases and knowledge are removed by how they begin,
\* whatever the role of the message is.
BlocksAt(c) == {i \in Positions(c) : c[i].text \in BlockLike}
NotTaken(c) == ElementsAt(c, Positions(c) \ BlocksAt(c))

\* durumu_guncelle: a question stays pending only under a reply like "evet".
PendingAfter(t) == IF t \in BoundReply THEN pending ELSE NoText

AskTurn(t, facts) ==
    /\ turnAt = "idle" /\ no < MaxMessages
    /\ LET first == ~\E i \in Positions(conv) : conv[i].role = "user"
           s0 == IF first THEN sistem ELSE Without(sistem, "ilk_tur")
           s1 == WithBlock(WithBlock(s0, "niyet", TRUE), "hafiza", facts)
           s2 == IF first THEN Append(s1, "ilk_tur") ELSE s1
           s3 == WithBlock(s2, "durum", PendingAfter(t) # NoText \/ summary # <<>>)
           c  == Append(NotTaken(conv), Msg("user", t, Size[t], no + 1))
       IN  /\ sistem' = s3
           /\ pending' = PendingAfter(t)
           /\ Narrow(s3, c, PendingAfter(t))
    /\ spoken' = (spoken \ {conv[i].no : i \in BlocksAt(conv)}) \cup {no + 1}
    /\ no' = no + 1
    /\ turnAt' = "model"

\* The model asks for n tools, with or without a text; its message and the
\* results join, and it is asked again.
SizeOf(t) == IF t = NoText THEN 0 ELSE Size[t]
ToolRound(t, n, size) ==
    /\ turnAt = "model" /\ no + n < MaxMessages
    /\ LET call == Msg("assistant", t, SizeOf(t), no + 1)
           results == [i \in 1 .. n |-> Msg("tool", NoText, size, no + 1 + i)]
       IN  Narrow(sistem, Append(conv, call) \o results, pending)
    /\ no' = no + 1 + n
    /\ spoken' = IF t = NoText THEN spoken ELSE spoken \cup {no + 1}
    /\ UNCHANGED <<sistem, pending, turnAt>>

\* The turn ends with an answer: bekleyen_soruyu_yakala.  If it cannot be
\* written to memory the turn raises, before the history is narrowed.
Caught(t) == IF t \in Asks THEN t ELSE NoText
Answer(t) ==
    /\ turnAt = "model" /\ no < MaxMessages
    /\ LET c == Append(conv, Msg("assistant", t, Size[t], no + 1)) IN
       \/ Narrow(sistem, c, Caught(t))
       \/ conv' = c /\ UNCHANGED summary
    /\ pending' = Caught(t)
    /\ turnAt' = "idle" /\ no' = no + 1 /\ spoken' = spoken \cup {no + 1}
    /\ UNCHANGED sistem

\* _direct_reply: neither message touches the pending question.
DirectReply(t, reply) ==
    /\ turnAt = "idle" /\ no + 1 < MaxMessages
    /\ sistem' = IF \E i \in Positions(conv) : conv[i].role = "user"
                 THEN Without(sistem, "ilk_tur") ELSE sistem
    /\ Narrow(sistem', conv \o <<Msg("user", t, Size[t], no + 1),
                                 Msg("assistant", reply, Size[reply], no + 2)>>, pending)
    /\ no' = no + 2 /\ spoken' = spoken \cup {no + 1, no + 2}
    /\ UNCHANGED <<pending, turnAt>>

WindowNext ==
    \/ \E t \in Text \ Asks, facts \in BOOLEAN : AskTurn(t, facts)
    \/ \E t \in (Text \ BoundReply) \cup {NoText}, n \in 1 .. MaxResults, size \in ResultSize :
          ToolRound(t, n, size)
    \/ \E t \in Text \ BoundReply : Answer(t)
    \/ \E t \in Text \ (Asks \cup BoundReply) : DirectReply(t, t)

WindowSpec == WindowInit /\ [][WindowNext]_windowVars

-----------------------------------------------------------------------------
(* Properties.                                                             *)

\* Type correctness of the history, the summary and the turn.
WindowTypeOK ==
    /\ \A i \in Positions(sistem) : sistem[i] \in {"kimlik", "niyet", "hafiza", "ilk_tur", "durum"}
    /\ \A i \in Positions(conv) : /\ conv[i].role \in {"user", "assistant", "tool"}
                                  /\ conv[i].text \in Text \cup {NoText}
                                  /\ conv[i].no \in 1 .. no
    /\ pending \in Asks \cup {NoText} /\ Len(summary) <= OZET_SATIR
    /\ turnAt \in {"idle", "model"} /\ spoken \subseteq 1 .. no

\* The identity is the first thing the model reads, however often blocks are
\* renewed and the history is narrowed, and no block of an earlier turn stays
\* beside its successor: an old intent or old facts would steer the answer.
\* (The note of the first turn does: a first turn whose user message dropped
\* out of the window is followed by another first turn.)
IdentityFirstBlocksOnce ==
    /\ sistem[1] = "kimlik"
    /\ \A i, j \in Positions(sistem) :
          sistem[i] = sistem[j] => i = j \/ sistem[i] = "ilk_tur"

\* What is sent fits: beyond the newest messages and the pending question
\* the conversation stays within the budget and the count, even when the
\* same sentence is said again and again.
SentFits ==
    turnAt = "model" =>
        \/ Len(conv) <= EN_AZ_TUR + 1
        \/ /\ Length(conv, Positions(conv)) <= Room(sistem)
           /\ MaxKept = 0 \/ Len(conv) <= MaxKept

\* Nothing said disappears without a trace: a message of the conversation is
\* in the window, or in the summary, or the summary is full of others; all
\* but those that the agent took for one of its blocks.
NothingFadesUnseen ==
    \A i \in spoken :
        \/ i \in Numbers(conv) \cup {summary[j] : j \in DOMAIN summary}
        \/ Len(summary) = OZET_SATIR

\* The question the assistant waits on is in the window, whatever was said
\* since, unless its message was taken for a block.
PendingIsKept ==
    pending # NoText =>
        \/ \E i \in Positions(conv) : conv[i].role = "assistant" /\ conv[i].text = pending
        \/ pending \in BlockLike

\* What is sent to the model: the identity first and each block once, within
\* the budget, nothing fading before it was summed up, and the question that
\* the owner is answering.
WindowIsFaithful ==
    /\ WindowTypeOK
    /\ IdentityFirstBlocksOnce
    /\ SentFits
    /\ NothingFadesUnseen
    /\ PendingIsKept
=============================================================================

-------------------------- MODULE KnowledgeIndex --------------------------
(***************************************************************************)
(* The knowledge base: documents cut into chunks, each chunk with a row in *)
(* the full-text table and, when the embedder answers, a vector.           *)
(*                                                                         *)
(* Two processes write it: the panel's background loop, which walks its    *)
(* roots, indexes what changed and forgets what is gone, and the commands  *)
(* of jarvis-bilgi.  index_text looks the document up, has its chunks      *)
(* embedded and then writes and commits them; the two processes meet       *)
(* between those steps, and only the writes have the file's lock.  A       *)
(* KnowledgeBase keeps the vectors it read in memory until it writes       *)
(* itself.  Files change, the root may be unmounted and the endpoints of   *)
(* the embedding server may fail and recover, all at any time.             *)
(*                                                                         *)
(* A content is a number; a document has one chunk.                        *)
(*                                                                         *)
(* An operator named X_Fault is X with a seeded fault.  The specification  *)
(* never uses it: it shows that the properties notice the fault.           *)
(***************************************************************************)
EXTENDS Integers, FiniteSets

CONSTANTS
    File,        (* the candidates below the root                           *)
    Content,     (* the texts a file may hold                               *)
    Gone, Blank, Refused,  (* no file; no text in it; too large, binary or
                              secret, so that index_file raises             *)
    MaxEdits     (* bound: changes of the world and commands of jarvis-bilgi *)

ASSUME FileStates == Cardinality({Gone, Blank, Refused}) = 3 /\ Content \cap {Gone, Blank, Refused} = {}
ASSUME IndexBounds == MaxEdits \in Nat

VARIABLES
    disk,      (* what each file holds                                      *)
    rootThere, (* the root exists                                           *)
    server,    (* what Ollama's two endpoints do when they are called       *)
    edits,     (* changes and commands so far                               *)
    belge,     (* belgeler: the id of each document's row, or 0             *)
    imza,      (* belgeler: the signature of each indexed document          *)
    parca,     (* the rows of parcalar                                      *)
    fts,       (* the chunk ids in parca_fts                                *)
    written,   (* AUTOINCREMENT: ids are never used again                   *)
    jobs,      (* the calls of index_text that have not written yet         *)
    held,      (* a failed write of the panel left its transaction open     *)
    toplu,     (* OllamaEmbedder._toplu of each process                     *)
    proved,    (* whether the bulk endpoint ever worked for it (history)    *)
    onbellek,  (* _vektor_onbellek of each process: {} stands for none too  *)
    walk       (* the panel's index_path: where it is, what is left         *)

world == <<disk, rootThere, server>>
tables == <<belge, imza, parca, fts, written>>
learnt == <<toplu, proved>>
indexVars == <<world, edits, tables, jobs, held, learnt, onbellek, walk>>

Process == {"panel", "bilgi"}
FileState == Content \cup {Gone, Blank, Refused}
\* The bulk endpoint answers, fails, or answers without the embeddings.
Servers == [bulk : {"works", "raises", "odd"}, single : BOOLEAN]
Resting == [at |-> "rest", left |-> {}, seen |-> {}]

IndexInit ==
    /\ disk \in [File -> Content \cup {Gone}]
    /\ rootThere = TRUE
    /\ server \in Servers
    /\ edits = 0
    /\ belge = [f \in File |-> 0]
    /\ imza = [f \in File |-> Gone]
    /\ parca = {} /\ fts = {} /\ written = 0
    /\ jobs = {} /\ held = FALSE
    /\ toplu = [p \in Process |-> "unknown"]
    /\ proved = [p \in Process |-> FALSE]
    /\ onbellek = [p \in Process |-> {}]
    /\ walk = Resting

-----------------------------------------------------------------------------
(* OllamaEmbedder.embed: the bulk endpoint is tried until it has failed    *)
(* once or answered oddly, then the other one is used for good; but once   *)
(* it has worked, its failure is the call's.                               *)

BulkAnswers(p) == toplu[p] # "no" /\ server.bulk = "works"
Raises(p) == toplu[p] = "yes" /\ server.bulk = "raises"
Embeds_Fault(p) == BulkAnswers(p)
Embeds(p) == BulkAnswers(p) \/ (~Raises(p) /\ server.single)
Learns(p) ==
    /\ toplu' = [toplu EXCEPT ![p] = IF BulkAnswers(p) \/ Raises(p) THEN "yes" ELSE "no"]
    /\ proved' = [proved EXCEPT ![p] = @ \/ BulkAnswers(p)]

-----------------------------------------------------------------------------
(* KnowledgeBase.                                                          *)

Chunks(f) == {k \in parca : k.file = f}
Ids(S) == {k.id : k \in S}

\* _parcalari_sil: the full-text rows are outside the foreign key chain.
CleanedFts_Fault(f) == fts
CleanedFts(f) == fts \ Ids(Chunks(f))

\* forget_document, which commits whatever its connection had open.
Forgotten(f, p) ==
    /\ belge' = [belge EXCEPT ![f] = 0]
    /\ imza' = [imza EXCEPT ![f] = Gone]
    /\ parca' = parca \ Chunks(f)
    /\ fts' = CleanedFts(f)
    /\ onbellek' = [onbellek EXCEPT ![p] = {}]
    /\ UNCHANGED written

\* Only one connection at a time has the right to write.
MayCommit(p) == p = "panel" \/ ~held
Frees(p) == held' = IF p = "panel" THEN FALSE ELSE held

\* index_file raises for the files that must not or cannot be indexed; the
\* same signature is no work at all, and no chunk means forget.
Same(f) == imza[f] = disk[f]
Indexable(f) == disk[f] \in Content \cup {Blank}
NothingToDo(f) == ~Indexable(f) \/ Same(f) \/ (disk[f] = Blank /\ imza[f] = Gone)
Working(p) == \E j \in jobs : j.process = p
index_text(f, p, gom) ==
    IF disk[f] = Blank
    THEN MayCommit(p) /\ Forgotten(f, p) /\ Frees(p) /\ UNCHANGED jobs
    ELSE /\ jobs' = jobs \cup {[process |-> p, file |-> f, text |-> disk[f], row |-> belge[f],
                                at |-> IF gom THEN "embedding" ELSE "writing",
                                vektor |-> FALSE, owed |-> FALSE]}
         /\ UNCHANGED <<tables, onbellek, held>>

\* A vector is owed when the one-by-one endpoint answers, unless the bulk
\* endpoint, known to work, fails.
Owed(p) == server.single /\ ~(proved[p] /\ server.bulk = "raises")
Embedded(j) ==
    /\ j.at = "embedding"
    /\ jobs' = (jobs \ {j}) \cup {[j EXCEPT !.at = "writing", !.vektor = Embeds(j.process),
                                           !.owed = Owed(j.process)]}
    /\ Learns(j.process)
    /\ UNCHANGED <<world, edits, tables, held, onbellek, walk>>

\* A failed embedding leaves the chunk without a vector.  The row looked up
\* before must still be the document's: otherwise a constraint refuses the
\* write, the panel's round ends with its transaction open, and jarvis-bilgi
\* ends.
Fits(j) == belge[j.file] = j.row
Row(j) == IF j.row = 0 THEN written + 1 ELSE j.row
Wrote(j) ==
    LET k == [id |-> written + 1, file |-> j.file, text |-> j.text,
              vektor |-> j.vektor, owed |-> j.owed]
    IN  /\ belge' = [belge EXCEPT ![j.file] = Row(j)]
        /\ imza' = [imza EXCEPT ![j.file] = j.text]
        /\ parca' = (parca \ Chunks(j.file)) \cup {k}
        /\ fts' = CleanedFts(j.file) \cup {k.id}
        /\ written' = written + 1
        /\ onbellek' = [onbellek EXCEPT ![j.process] = {}]
Writes(j) ==
    /\ j.at = "writing"
    /\ MayCommit(j.process)
    /\ jobs' = jobs \ {j}
    /\ IF Fits(j)
       THEN Wrote(j) /\ Frees(j.process) /\ UNCHANGED walk
       ELSE /\ held' = (held \/ j.process = "panel")
            /\ walk' = IF j.process = "panel" THEN Resting ELSE walk
            /\ UNCHANGED <<tables, onbellek>>
    /\ UNCHANGED <<world, edits, learnt>>

-----------------------------------------------------------------------------
(* _rag_sync_loop: index_path(root, silinenleri_unut=True) for ever.       *)

\* A missing root raises, and nothing is forgotten.  The listing comes after
\* that check: a root that goes in between is listed as empty.
MayWalk == rootThere
Listed == IF rootThere THEN {f \in File : disk[f] # Gone} ELSE {}
Moves(to) ==
    /\ ~Working("panel")
    /\ walk' = to
    /\ UNCHANGED <<world, edits, tables, jobs, held, learnt, onbellek>>
SyncBegins == walk.at = "rest" /\ MayWalk /\ Moves([walk EXCEPT !.at = "list"])
SyncLists ==
    walk.at = "list" /\ Moves([at |-> "index", left |-> Listed, seen |-> Listed])

SyncIndexes(f) ==
    /\ walk.at = "index" /\ f \in walk.left /\ ~Working("panel")
    /\ walk' = [walk EXCEPT !.left = @ \ {f}]
    /\ IF NothingToDo(f) \/ ~rootThere THEN UNCHANGED <<tables, jobs, held, onbellek>>
       ELSE index_text(f, "panel", TRUE)
    /\ UNCHANGED <<world, edits, learnt>>

\* Documents that were not listed are forgotten, one commit each.
Unlisted_Fault == {}
Unlisted == {f \in File : imza[f] # Gone} \ walk.seen
SyncForgets ==
    walk.at = "index" /\ walk.left = {} /\ Moves([walk EXCEPT !.at = "forget", !.left = Unlisted])
SyncForgetsOne(f) ==
    /\ walk.at = "forget" /\ f \in walk.left
    /\ walk' = [walk EXCEPT !.left = @ \ {f}]
    /\ IF imza[f] = Gone THEN UNCHANGED <<tables, onbellek, held>>
       ELSE Forgotten(f, "panel") /\ Frees("panel")
    /\ UNCHANGED <<world, edits, jobs, learnt>>
SyncEnds == walk.at = "forget" /\ walk.left = {} /\ Moves(Resting)

-----------------------------------------------------------------------------
(* jarvis-bilgi: ekle (one document of its walk at a time), unut, sifirla. *)

More == edits < MaxEdits /\ edits' = edits + 1
ekle(f, gom) ==
    /\ More /\ rootThere /\ ~NothingToDo(f) /\ ~Working("bilgi")
    /\ index_text(f, "bilgi", gom)
    /\ UNCHANGED <<world, learnt, walk>>
unut(f) ==
    /\ More /\ imza[f] # Gone /\ ~Working("bilgi") /\ MayCommit("bilgi")
    /\ Forgotten(f, "bilgi")
    /\ UNCHANGED <<world, jobs, held, learnt, walk>>
sifirla ==
    /\ More /\ imza # [f \in File |-> Gone] /\ ~Working("bilgi") /\ MayCommit("bilgi")
    /\ belge' = [f \in File |-> 0]
    /\ imza' = [f \in File |-> Gone] /\ parca' = {} /\ fts' = {}
    /\ onbellek' = [onbellek EXCEPT !["bilgi"] = {}]
    /\ UNCHANGED <<world, written, jobs, held, learnt, walk>>

\* The command ends, is killed or had an error: the next one is a new process.
bilgiEnds ==
    /\ jobs' = {j \in jobs : j.process # "bilgi"}
    /\ toplu' = [toplu EXCEPT !["bilgi"] = "unknown"]
    /\ proved' = [proved EXCEPT !["bilgi"] = FALSE]
    /\ onbellek' = [onbellek EXCEPT !["bilgi"] = {}]
    /\ UNCHANGED <<world, edits, tables, held, walk>>

-----------------------------------------------------------------------------
(* search in the panel: it loads the vectors once, fuses both rankings and *)
(* quotes the chunks that still have a row.                                *)

Vectors == {k.id : k \in {c \in parca : c.vektor}}
Loaded == IF onbellek["panel"] = {} THEN Vectors ELSE onbellek["panel"]
search ==
    /\ walk.at = "rest"
    /\ onbellek' = [onbellek EXCEPT !["panel"] = Loaded]
    /\ IF Loaded = {} THEN UNCHANGED learnt ELSE Learns("panel")
    /\ UNCHANGED <<world, edits, tables, jobs, held, walk>>

-----------------------------------------------------------------------------
(* The world.                                                              *)

Edit ==
    /\ More
    /\ \/ \E f \in File, c \in FileState : disk' = [disk EXCEPT ![f] = c] /\ UNCHANGED <<rootThere, server>>
       \/ rootThere' = ~rootThere /\ UNCHANGED <<disk, server>>
       \/ server' \in Servers /\ UNCHANGED <<disk, rootThere>>
    /\ UNCHANGED <<tables, jobs, held, learnt, onbellek, walk>>

Sync ==
    \/ SyncBegins \/ SyncLists \/ SyncForgets \/ SyncEnds
    \/ \E f \in File : SyncIndexes(f) \/ SyncForgetsOne(f)
    \/ \E j \in jobs : j.process = "panel" /\ (Embedded(j) \/ Writes(j))
Command ==
    \/ \E f \in File, gom \in BOOLEAN : ekle(f, gom)
    \/ \E f \in File : unut(f)
    \/ \E j \in jobs : j.process = "bilgi" /\ (Embedded(j) \/ Writes(j))
    \/ sifirla \/ bilgiEnds
IndexNext == Sync \/ Command \/ search \/ Edit

\* The loop goes on as long as the panel runs.
IndexSpec == IndexInit /\ [][IndexNext]_indexVars /\ WF_indexVars(Sync)

-----------------------------------------------------------------------------
(* Properties.                                                             *)

\* Type correctness of the tables, the walk and the caches.
IndexTypeOK ==
    /\ disk \in [File -> FileState] /\ imza \in [File -> Content \cup {Gone}]
    /\ \A k \in parca : /\ k.id \in 1..written /\ k.file \in File /\ k.text \in Content
                        /\ k.vektor \in BOOLEAN /\ k.owed \in BOOLEAN
    /\ written \in Nat /\ fts \subseteq 1..written /\ edits \in 0..MaxEdits
    /\ rootThere \in BOOLEAN /\ held \in BOOLEAN /\ server \in Servers
    /\ belge \in [File -> 0..written]
    /\ jobs \subseteq [process : Process, file : File, text : Content, row : 0..written,
                      at : {"embedding", "writing"}, vektor : BOOLEAN, owed : BOOLEAN]
    /\ proved \in [Process -> BOOLEAN]
    /\ toplu \in [Process -> {"unknown", "yes", "no"}]
    /\ onbellek \in [Process -> SUBSET (1..written)]
    /\ walk \in [at: {"rest", "list", "index", "forget"}, left: SUBSET File, seen: SUBSET File]

\* The three tables agree after every commit: a document has exactly the
\* chunk of the text whose signature it carries, a forgotten one has none,
\* and the full-text table, which no foreign key cleans, knows exactly the
\* chunks there are.
TablesAgree ==
    /\ \A f \in File : belge[f] = 0 <=> imza[f] = Gone
    /\ \A f \in File : {k.text : k \in Chunks(f)} = {imza[f]} \ {Gone}
    /\ \A f \in File, j, k \in parca : j.file = f /\ k.file = f => j = k
    /\ fts = Ids(parca)

\* A failed bulk call costs speed, never meaning, until the endpoint has
\* worked: a chunk that was to be embedded while the one-by-one endpoint
\* answered has its vector, whatever the server did before and whoever wrote
\* meanwhile, but for a bulk call that fails after an earlier one worked.
VectorsUnlessRefused == \A k \in parca : k.owed => k.vektor

\* When the files stay as they are and the root is there, the loop brings
\* the index to agree with them for good, whatever the commands removed or
\* added before; a file that index_file refuses keeps the document it had.
Mirrors(f) == CASE disk[f] \in Content -> imza[f] = disk[f]
                [] disk[f] \in {Gone, Blank} -> imza[f] = Gone
                [] OTHER -> TRUE
SyncCatchesUp == (<>[]rootThere) => <>[](\A f \in File : Mirrors(f))

\* What a search rests on at any time: the tables hold the same chunks, though
\* two processes write them, and chunks have the vectors they are owed.
IndexIsSound == IndexTypeOK /\ TablesAgree /\ VectorsUnlessRefused
=============================================================================

----------------------------- MODULE TurnRouting -----------------------------
(* What a user turn is for, and which tool schemas the model may see in it:    *)
(* core/intent_router.py (the intent), core/tool_router.py (the allowlist),    *)
(* core/arac_secici.py (topics and discourse markers), core/multi_agent.py     *)
(* (the specialist) and the part of Agent._ask_turn between the message and    *)
(* the first model call (core/agent.py:617-781).                               *)
(*                                                                             *)
(* A sentence is the set of cue lists it hits, whether it names a topic of     *)
(* ANAHTARLAR, and its form: a wake call, a bare discourse marker ("peki",     *)
(* "tamam"), a switch of the developer mode, an offer of suggestions.          *)
EXTENDS Naturals, Sequences, FiniteSets, Lists

CONSTANTS Limit,        \* arac_siniri: schemas shown in one turn
          Developer,    \* the owner is a configured developer
          CuePairs      \* the sets of several cues a sentence may hit

ASSUME RoutingAssumption == Limit \in Nat /\ Developer \in BOOLEAN

VARIABLES last_intent,      \* Agent.last_intent
          son_kategoriler,  \* the last turn that was no marker named a topic
          son_arac_adlari,  \* the schemas ToolRouter chose last
          training_active, debug_mode, active_role,
          kb_empty,         \* Agent._bilgi_tabani_bos
          turn,             \* the turn just decided: sentence, reply, schemas
          choice            \* of the schemas chosen last, the decision they were
                            \* chosen for, whether the knowledge base was empty
                            \* then or in a turn that kept them, and whether a
                            \* control sentence came after (history)
routingVars == <<last_intent, son_kategoriler, son_arac_adlari, training_active,
          debug_mode, active_role, kb_empty, turn, choice>>

NoRoute == "none"

-----------------------------------------------------------------------------
(* The order of IntentRouter._route_normalized: the first cue that is hit      *)
(* decides.  "yaz" and "testleri calistir" only widen what CODING may use.     *)
Rules == <<
  <<"empty",      "UNKNOWN",          NoRoute,           NoRoute>>,
  <<"concept",    "CHAT",             NoRoute,           NoRoute>>,
  <<"egitim_dur", "TRAINING",         "STOP",         NoRoute>>,
  <<"egitim",     "TRAINING",         "START",        NoRoute>>,
  <<"identity",   "MEMORY_SAVE",      "IDENTITY",     NoRoute>>,
  <<"recall",     "MEMORY_RECALL",    NoRoute,           "recall_facts">>,
  <<"unut",       "MEMORY_DELETE",    NoRoute,           "forget_fact">>,
  <<"hatirla",    "MEMORY_SAVE",      NoRoute,           "remember_fact">>,
  <<"artik",      "MEMORY_UPDATE",    NoRoute,           "remember_fact">>,
  <<"github",     "GITHUB",           NoRoute,           NoRoute>>,
  <<"dosya",      "CODING",           NoRoute,           NoRoute>>,
  <<"vaka",       "TASK",             "SERVICE_CASE", NoRoute>>,
  <<"kod",        "CODING",           NoRoute,           NoRoute>>,
  <<"belge",      "RAG_QUERY",        NoRoute,           "bilgi_ara">>,
  <<"web",        "WEB_RESEARCH",     NoRoute,           "web_ara">>,
  <<"uygulama",   "COMPUTER_CONTROL", NoRoute,           "uygulama_ac">>,
  <<"terminal",   "TERMINAL",         NoRoute,           "run_terminal_command">>,
  <<"donanim",    "SYSTEM_MONITOR",   NoRoute,           NoRoute>>,
  <<"ses",        "VOICE",            NoRoute,           NoRoute>>,
  <<"otonom",     "AUTONOMOUS",       NoRoute,           NoRoute>>,
  <<"gorev",      "TASK",             NoRoute,           NoRoute>> >>

Cue == {Rules[i][1] : i \in DOMAIN Rules} \cup {"yaz", "testleri calistir"}

Level(intent) ==
  CASE intent = "CODING" -> 4
    [] intent = "AUTONOMOUS" -> 3
    [] intent \in {"COMPUTER_CONTROL", "SYSTEM_MONITOR", "TERMINAL", "RAG_QUERY",
                   "WEB_RESEARCH", "GITHUB", "TASK"} -> 2
    [] OTHER -> 1

Cues == {{}} \cup {{c} : c \in Cue} \cup CuePairs
Sentence == [cues : Cues, topic : BOOLEAN, form : {"plain"}]
            \cup [cues : {{}, {"web"}}, topic : BOOLEAN,
                   form : {"wake", "debug_on", "debug_off", "oneri"}]
            \cup [cues : {{}}, topic : {FALSE}, form : {"marker"}]

(* The first rule that the cues hit.                                           *)
RuleOf == [cues \in Cues |->
  LET hit == {i \in DOMAIN Rules : Rules[i][1] \in cues}
  IN IF hit = {} THEN <<"", "CHAT", NoRoute, NoRoute>>
     ELSE Rules[CHOOSE i \in hit : \A j \in hit : i <= j]]

(* IntentRouter.route: a wake call is level 0 whatever else it says.           *)
RouteOf(s) ==
  LET rule == RuleOf[s.cues]
  IN [intent |-> rule[2], subtype |-> rule[3], tool |-> rule[4],
      level |-> IF s.form = "wake" THEN 0 ELSE Level(rule[2])]

TrainingData == [intent |-> "MEMORY_SAVE", subtype |-> "TRAINING_DATA",
                 tool |-> "remember_fact", level |-> 1]

-----------------------------------------------------------------------------
(* The registry in the order bootstrap.py fills it.                            *)
Registry == << "get_system_info", "get_cpu_temperature", "get_gpu_temperature",
  "get_ram_usage", "get_disk_health", "windows_system", "windows_process",
  "windows_network", "windows_service", "windows_window", "windows_audio",
  "windows_power", "windows_input", "remember_fact", "recall_facts",
  "forget_fact", "read_file", "list_directory", "write_file", "git_status",
  "git_log", "git_diff", "git_remote", "run_terminal_command", "vaka_ac",
  "vaka_notu_ekle", "vaka_kapat", "vaka_ara", "acik_vakalar", "vaka_detay",
  "teshis_playbooklari", "teshis_baslat", "teshis_yanitla", "ajanda_ekle",
  "ajanda_listele", "ajanda_durum", "bilgi_ara", "bilgi_durum", "web_ara",
  "web_oku", "tarayici_ac", "arama_ac", "uygulama_ac", "uygulama_listesi" >>
Toolset == InSeq(Registry)

CaseTools == {"vaka_ac", "vaka_notu_ekle", "vaka_kapat", "vaka_ara",
              "acik_vakalar", "vaka_detay"}
SystemTools == {Registry[i] : i \in 1..9}

(* ToolRouter.names_for.                                                       *)
NamesFor(d, s) ==
  CASE d.intent = "CODING" ->
         {"read_file", "list_directory"}
         \cup {t \in {"write_file"} : "yaz" \in s.cues}
         \cup {t \in {"run_terminal_command"} : "testleri calistir" \in s.cues}
    [] d.intent = "TASK" -> IF d.subtype = "SERVICE_CASE" THEN CaseTools
                            ELSE {"ajanda_ekle", "ajanda_listele", "ajanda_durum"}
    [] d.intent = "MEMORY_RECALL" -> {"recall_facts"}
    [] d.intent = "MEMORY_DELETE" -> {"forget_fact", "recall_facts"}
    [] d.intent \in {"MEMORY_SAVE", "MEMORY_UPDATE", "TRAINING"} ->
         {"remember_fact", "recall_facts"}
    [] d.intent = "RAG_QUERY" -> {"bilgi_ara", "bilgi_durum"}
    [] d.intent = "WEB_RESEARCH" -> {"web_ara", "web_oku"}
    [] d.intent = "GITHUB" -> {"git_status", "git_log", "git_diff", "git_remote"}
    [] d.intent = "TERMINAL" -> {"run_terminal_command"}
    [] d.intent = "COMPUTER_CONTROL" ->
         {"uygulama_ac", "uygulama_listesi", "tarayici_ac", "arama_ac",
          "windows_window", "windows_audio", "windows_input"}
    [] d.intent = "SYSTEM_MONITOR" -> SystemTools
    [] OTHER -> {}

(* The candidates: bilgi_ara is withdrawn before the choice when there is      *)
(* nothing to search.                                                          *)
Candidates(empty) == IF empty THEN Toolset \ {"bilgi_ara"} ELSE Toolset

(* ToolRouter.select: registration order, the first Limit.                     *)
Select(candidates, d, s) ==
  LET chosen == KeepOnly(Registry, candidates \cap NamesFor(d, s))
  IN IF Limit > 0 /\ Len(chosen) > Limit THEN SubSeq(chosen, 1, Limit) ELSE chosen

(* Agent._intent_schemas: a discourse marker keeps the schemas chosen last.    *)
Sticky_Fault(s) == son_arac_adlari # <<>>
Sticky(s) == s.form = "marker" /\ son_arac_adlari # <<>>

Schemas_Fault(candidates, d, s) ==
  LET first == IF Limit > 0 THEN SubSeq(Registry, 1, Limit) ELSE Registry
  IN IF Sticky(s) THEN KeepOnly(son_arac_adlari, candidates)
     ELSE KeepOnly(first, candidates \cap NamesFor(d, s))
Schemas(candidates, d, s) ==
  IF Sticky(s) THEN KeepOnly(son_arac_adlari, candidates)
  ELSE Select(candidates, d, s)

(* Supervisor.ROLE_BY_INTENT: one specialist at most, kept until the turn ends.*)
RoleOf(intent) ==
  CASE intent \in {"CODING", "GITHUB"} -> "coder"
    [] intent \in {"SYSTEM_MONITOR", "COMPUTER_CONTROL", "TERMINAL"} -> "system"
    [] intent \in {"WEB_RESEARCH", "RAG_QUERY"} -> "researcher"
    [] OTHER -> NoRoute

-----------------------------------------------------------------------------
NothingSaid == [intent |-> "UNKNOWN", subtype |-> NoRoute, tool |-> NoRoute, level |-> 1]
RoutingInit ==
  /\ last_intent = NothingSaid
  /\ son_kategoriler = FALSE /\ son_arac_adlari = <<>>
  /\ training_active = FALSE /\ debug_mode = FALSE /\ active_role = NoRoute
  /\ kb_empty \in BOOLEAN
  /\ turn = [marker |-> FALSE, reply |-> NoRoute, offered |-> <<>>]
  /\ choice = [decision |-> NothingSaid, searchless |-> FALSE, control |-> FALSE]

(* The intent and the topic a sentence leaves: a marker under a topic keeps    *)
(* the intent of the turn before.                                              *)
KeepsIntent(s) == s.form = "marker" /\ son_kategoriler
Decided(s) == IF KeepsIntent(s) THEN last_intent ELSE RouteOf(s)
Topic(s) == IF s.form = "marker" THEN son_kategoriler ELSE s.topic

(* Why a turn is answered without the model, in the order of _ask_turn.        *)
(* "oneri" is the offer of suggestions right after an application list.        *)
ReplyDirectly(s, d) ==
  CASE d.level = 0 -> "wake"
    [] d.level # 0 /\ s.form \in {"oneri", "debug_on", "debug_off"} -> s.form
    [] d.level # 0 /\ s.form \notin {"oneri", "debug_on", "debug_off"}
         /\ d.intent = "TRAINING" -> d.subtype
    [] OTHER -> NoRoute

(* A control turn: switches a mode, answers, chooses no schemas.               *)
AnswerDirectly(s) ==
  LET d == Decided(s)
      why == ReplyDirectly(s, d)
  IN /\ why # NoRoute
     /\ last_intent' = d /\ son_kategoriler' = Topic(s)
     /\ debug_mode' = CASE why = "debug_on" -> (debug_mode \/ Developer)
                        [] why = "debug_off" -> FALSE
                        [] OTHER -> debug_mode
     /\ training_active' = CASE why = "START" -> TRUE
                             [] why = "STOP" -> FALSE
                             [] OTHER -> training_active
     /\ active_role' = NoRoute
     /\ turn' = [marker |-> s.form = "marker", reply |-> "direct", offered |-> <<>>]
     /\ choice' = [choice EXCEPT !.control = choice.control \/ s.form # "marker"]
     /\ UNCHANGED <<son_arac_adlari, kb_empty>>

(* Any other turn goes to the model; in the training mode conversation is      *)
(* taken as something to remember.                                             *)
Taught_Fault(d) == d
Taught(d) == IF training_active /\ d.intent = "CHAT" THEN TrainingData ELSE d

AskModel(s) ==
  LET own == Decided(s)
      d   == Taught(own)
      offered == Schemas(Candidates(kb_empty), d, s)
  IN /\ ReplyDirectly(s, own) = NoRoute
     /\ last_intent' = d /\ son_kategoriler' = Topic(s)
     /\ son_arac_adlari' = IF Sticky(s) THEN son_arac_adlari ELSE offered
     /\ active_role' = RoleOf(own.intent)
     /\ turn' = [marker |-> s.form = "marker", reply |-> "model", offered |-> offered]
     /\ choice' = IF Sticky(s)
                  THEN [choice EXCEPT !.searchless = choice.searchless \/ kb_empty]
                  ELSE [decision |-> d, searchless |-> kb_empty, control |-> FALSE]
     /\ UNCHANGED <<training_active, debug_mode, kb_empty>>

(* Indexing a folder, or unlisting the last one, between two turns.            *)
IndexChanges == kb_empty' = ~kb_empty /\ UNCHANGED <<last_intent, son_kategoriler,
                  son_arac_adlari, training_active, debug_mode, active_role, turn, choice>>

RoutingNext == \/ \E s \in Sentence : AnswerDirectly(s) \/ AskModel(s)
        \/ IndexChanges

RoutingSpec == RoutingInit /\ [][RoutingNext]_routingVars

-----------------------------------------------------------------------------
Offered == InSeq(turn.offered)

RoutingTypeOK ==
  /\ last_intent.tool \in Toolset \cup {NoRoute} /\ last_intent.level \in 0..4
  /\ {son_kategoriler, training_active, debug_mode, kb_empty} \subseteq BOOLEAN
  /\ son_arac_adlari \in Seq(Toolset)
  /\ active_role \in {NoRoute, "coder", "system", "researcher"}

ToModel == turn.reply = "model" /\ ~turn.marker

(* The tool a decision names as required is among the schemas of every turn    *)
(* that goes to the model, whatever the limit cuts off and whatever turn came  *)
(* before: the model is not sent to save a fact without remember_fact.  A      *)
(* search of an empty knowledge base goes without.  So does a marker that      *)
(* keeps the schemas of another decision than its own: in the training mode    *)
(* a bare "tamam" is taken as a fact to save, and after a control sentence     *)
(* ("debug moduna gec" with a web cue in it) the marker takes over an intent   *)
(* for which no schemas were chosen (agent.py:207, 701).                       *)
RequiredToolIsOffered ==
  turn.reply = "model" /\ last_intent.tool # NoRoute
    => \/ last_intent.tool \in Offered
       \/ last_intent.tool = "bilgi_ara" /\ choice.searchless
       \/ /\ turn.marker /\ last_intent # choice.decision
          /\ last_intent = TrainingData \/ choice.control

(* What a turn other than a marker may call was chosen for its own intent: no  *)
(* earlier topic leaks its schemas into it (arac_secici.py:226-235), and in    *)
(* the training mode no such turn is left as plain conversation.               *)
NoTopicLeaks ==
  ToModel => /\ Offered \subseteq NamesFor(last_intent, [cues |-> Cue])
             /\ training_active => last_intent.intent # "CHAT"

\* What a turn is routed by is its own sentence, or what it takes over on
\* purpose.
RoutingIsClean == RoutingTypeOK /\ NoTopicLeaks
=============================================================================

# JARVIS: a TLA+ verification project

JARVIS is a local voice assistant for a repair workshop: a Python core
(`src/jarvis/`), a panel served over HTTP and server-sent events, tools behind a
permission gate, a SQLite memory, a document index, speech and vision.  This
project models the parts of that core whose correctness depends on *order*:
threads that share a field, events that overtake each other, retries, restarts,
files rewritten while a process may die, queues and windows at their limit.  TLC
checks each model on small instances; TLAPS proves every safety property that the
runs check, for every value of the constants.

Code comments and docs of the repository are Turkish; quotations in the modules
are in ASCII.

## 1. Inventory

The server (`web/server.py`) is a threading HTTP server: **every request runs on
a thread of its own**.  Besides these there are a producer thread per streamed
turn, the telemetry, monitor, reminder and index loops, the warm-up of the speech
engine, and on the console a feeder per answer that is spoken.  What they share,
and how it is guarded, is the subject of the models.

| Component | State it keeps | Operations | What is hard | What makes it correct |
|---|---|---|---|---|
| Approval gate (`security/permissions.py`, `tools/manager.py`, `web/server.py`) | `taban` (risk floor), `approver`, the panel's `_agent_lock` | `check`, `yukselt`, `dispatch`, `PanelServer.ask`, `konus` | two fields of one object changed around turns, one inside the lock and one outside | a tick is valid for its own turn and HIGH only; a spoken turn stays below its floor; the floor comes back |
| Agent turn (`core/agent.py`, `core/response_engine.py`) | working history, `_turn_lock`, delegation, traces, the stream's queue | `ask`, `ask_stream`, tool loop | a failure at any step; pieces handed out before the turn's outcome is known | turns do not interleave; both histories record the same; every caller learns its own outcome |
| Turn routing (`core/intent_router.py`, `tool_router.py`, `arac_secici.py`, `multi_agent.py`) | last intent, last topic, last schemas, modes | route, choose schemas, delegate | a "tamam" inherits from an earlier turn | nothing else does; the required tool is offered |
| Context window (`memory/working.py`, `core/konusma.py`, `context_manager.py`) | system blocks, conversation, pending question, summary | renew, append, narrow | several limits at once | identity first, pending question kept, nothing fades unseen |
| State machine and panel events (`core/state.py`, `web/server.py`) | `_state`, `EventHub._last`, one bounded queue per panel | `transition`, `publish`, `subscribe` | listeners run outside the lock | machine and panels agree at rest; nobody waits for a panel |
| Panel process (`web/server.py`, `web/cli.py`) | socket, token, loops, stop flag | prepare, bind, serve, shut down | Ctrl-C at any moment, loops that outlast the wait | nobody without the token is served; nothing is closed under a loop |
| Model routing (`llm/fallback_provider.py`) | breaker, counters of the last call | `chat`, `chat_stream` | retries and fallback of a stream already partly given out | one source per answer; bounded requests; a dead server is left alone |
| Model client (`llm/ollama_provider.py`) | profile, structured result, counters | `apply_reasoning`, `chat`, `chat_stream` | streams that break, are dropped or end early | a stream's result is its own |
| Reminders, agenda (`agenda/`) | items, marks, claims (SQLite) | `run_once`, `create`, `set_status`, `claim_notification` | crash between showing and marking; open transactions | told once, told at last, no write refused |
| Cases and guided diagnosis (`memory/cases.py`, `diagnostics/engine.py`) | case rows, notes, sessions | `start`, `answer`, close, reopen | read, then three writes, with no lock | the log explains the session; no one is stuck |
| Monitor, announcements, event bus (`diagnostics/`, `core/events.py`) | open issues, cooldowns, what was announced | `_emit`, `_clear`, `_on_uyari`, `_on_duzelme` | published outside the lock; several suppression rules | each outage announced once, each recovery after it |
| Health report (`diagnostics/health.py`, `web/server.py`) | kept report | `collect_health`, `health_report` | a clock that is set back, two askers | recent, and no vital failure averaged away |
| Long-term memory (`memory/store.py`, `onem.py`) | facts with confidence, source, use; history | remember, forget, merge, recall, pruning candidates | a weaker statement of a stronger one | the owner's word stands, nothing replaced is lost |
| Knowledge index (`rag/`) | documents, chunks, vectors, cached matrix | index, forget, sync | two processes, a root that vanishes, endpoints that fail and recover | tables agree; the loop catches up |
| Backup, journals (`maintenance/`, `security/audit.py`, `core/observability.py`) | archive, data directory, rotated files | backup, verify, restore; append, rotate | a kill between two file operations | whole archives, complete restores, rotated files that read as one journal |
| Custom commands, settings (`core/custom_commands.py`, `config.py`, `voice/cli.py`) | one JSON file; `.env` | teach, delete; write a key, start | rewritten whole, edited by hand | what was promised is read at the next start |
| Speech (`voice/xtts.py`, `tts.py`, `edge.py`, `__main__.py`) | ids, model, cache, locks; player, feeder, queue | register, serve, warm up, close; play, cut | several locks and threads | built once, answered always; one voice at a time |
| Web tools, openers (`internet/`, `apps/`) | the owner's catalogue file | search, fetch; find, open | refusals in many forms, redirects, time-outs | a refusal is no empty result; every hop is examined; the best opener goes first |

`PROJECT.json` lists every component with its status, and, under `hazards`, each
place where the code is exposed and the properties that watch it.

## 2. Modules

```
ApprovalTurns, WebAccess, Applications                  <- MCApprovalTools
AgentTurn (refines TurnService)                         <- MCAgentTurn
CoreState, HealthPanel                                  <- MCPanelState
CoreState, PanelProcess, Playback                       <- MCPanelServer
Reminders, DiagnosticCases, KnowledgeIndex,
  BackupRestore, AuditTrail (refines Journal),
  CustomCommands, Settings                              <- MCStores
FallbackProvider, ModelStream, ContextWindow,
  TurnRouting, FactMemory, SpeechOutput                 <- MCModelPath
MonitorAnnounce                                         <- MCMonitorAnnounce

Lists (sub-lists chosen by place)                       <- ContextWindow, Settings,
                                                           SpeechOutput, TurnRouting

proofs: ApprovalProofs     ApprovalTurns, WebAccess, Applications
        AgentTurnProofs    AgentTurn
        CoreStateProofs    CoreState, HealthPanel
        PanelProofs        PanelProcess, Playback
        StoreProofs        the seven components of MCStores
        ModelPathProofs    the six components of MCModelPath
        MonitorAnnounceProofs
        ListFacts          (lemmas only) induction, lists, recursive functions
```

A component's module is self-contained: parameters as CONSTANTS with named
assumptions, one action per handler or per step another thread may come between.
A `...Proofs` module extends the components of one run with theorems, one section for
each; they share lemmas and no state.  An operator `X_Fault` next to `X`
is a plausible bug of the code at that place; no specification uses it, and the
mutation runs substitute it to show that a property would notice.

**The composite MC modules share runs, not state.**  `MCStores`, for instance,
extends seven components whose variables are disjoint.  Its initial states choose a
`subject`; only that component moves, the others keep one initial state.  One run
so explores each component by itself, which is what those modules are: they
interact with one another through nothing but calls that the models take as
inputs.  Where components do interact, they are in *one* module: monitor, bus and
announcer in `MonitorAnnounce`; machine, hub and panels in `CoreState`; agenda,
cases and the lock of their file in `Reminders`; panel requests, gate and approver
in `ApprovalTurns`; agent, histories and streams in `AgentTurn`.

**How far a step goes.**  A step is one thread's work up to the point where
another thread's work can make a difference: the statement that reads or writes
a shared field outside a lock, the acquisition of a lock, a whole section under
a lock that is not observable from outside it; for files, one operation of the
system.

### ApprovalTurns
State: `taban`, `approver` (fields of `PermissionManager`), `agentLock`
(`PanelServer._agent_lock`), and for each request where its thread stands, the
floor `_TabanKapsami` remembered, the approver `ask` remembered, the calls it
made and the risk of the call at the gate.  `Hear`, `ReadFloor`, `RaiseFloor`,
`LeaveFloor` are `konus` and the context manager (its two statements are two
steps: nothing protects them); `TakeLock` and `EndTurn` are `PanelServer.ask`
with its `finally`; `Dispatch`, `CompareWithFloor`, `AskApprover` are
`ToolManager.dispatch` and `PermissionManager.check`, split because the floor is
read outside any lock that the floor's writers hold.  `ran` records what ran for
whom and whether it was asked, `overlapped` whether two spoken requests were ever
inside their floors at once: history, read by properties only.

### WebAccess, Applications
The two families of tools whose *report* matters.  `Search` asks an engine, which
refuses, fails (`RequestFails`), or returns a page known by the marks the code looks
for in it (`PageArrives`): whether a page *is* a refusal is one thing, whether it has
the wording the code looks for another.  `Read` and `Redirected` examine an address
(`Examined` is `url_denetle` with `ozel_adres_mi` and `_cozumle`), and `Connect` makes
the request, which resolves the name a second time; `NameMoves` lets a name answer
differently at any moment.  `AskFor` searches the catalogue by whole name, then by
part, the owner's entries winning (`Bul`); `Try` runs one opener after another in the
system's order, any of which may be missing, open the thing, end without opening it
(the exit code is not looked at), or fail, perhaps after it opened the thing.

### AgentTurn, TurnService
`AgentTurn` is one turn with everything that can end it: a control reply, a model
error, an answer, the step limit, an exception of the memory store.  A streamed
request has two threads, the producer and its caller, and the queue between them.
`Conclude` is the common tail (history, memory, state, trace), whose write may
fail.  A model's text is `piece` as it is streamed and `rendered` as it is recorded, which
the code renders and redacts in between.  `TurnService` is what a caller relies on: turns one at a time, each request
settled once, each caller told the outcome of *its* turn, every request settled.
`AgentTurn` implements it under the mapping `Phase` (property `ImplementsService`,
fairness included).

### CoreState
`Transition` is the lock section of `StateMachine.transition`; the listener the
panel server registered runs afterwards, on the same thread: `Retain` is the lock
section of `EventHub.publish` (keep the latest, copy the subscribers), `Put` one
`put_nowait`, `Told` the return.  Four kinds of activity call it: turns (mutually
exclusive by the turn lock), hearings, syntheses, vision; each kind has the
sequence of transitions its code makes, on every way out.  Panels connect (and are
sent the retained state), read, and disconnect.  A put to a full queue drops the
event, as the code does (`lost` remembers for whom).

### HealthPanel, PanelProcess, Playback
`HealthPanel` is `health_report`: measure under the lock or give the kept report,
publish after it; `collect_health`'s verdict is computed from the parts, one part for
all that follow the same rule.  `PanelProcess` is `main`, `serve_forever` and
`shutdown`: each preparation may fail, Ctrl-C may come at any step, a loop may work
longer than its join waits; a request is answered by the rule of its path, token and
cookie.  `Playback` is the console: the loop, and for each answer its player process,
its feeder thread, and, for Edge, the producer with its bounded queue; an error of the
synthesiser is of a kind that `besle` keeps or of one that it swallows.  `Close`,
`CloseVision` and `CloseVoice` are the end of `shutdown`: the last two wait for a frame or
a sentence in progress (`busy`) as long as it takes.

### Reminders
`BeginPass` ... `EndPass` are `run_once`: read the due items, tell each, mark it
when it was shown; read the near cases, claim each, tell it.  `Create`,
`SetStatus`, `CloseCase`, `ReopenCase` and `Write` (an agent turn's message) are
the other users of the database file.  `holder` is the file's write lock.  A
statement and its commit are one step, because a thread holds the connection's
Python lock across both; the exception is the INSERT of an existing claim, which
raises before its commit and leaves `holder = "agenda"` until the agenda commits
something else.  `Refuse` is the busy timeout of another connection.  `WriteFails` is a mark or a
claim that raises, which ends the pass without ending the program; `Restart` kills the
program at any point.

### DiagnosticCases
The three playbooks node by node.  `start` and `answer` are the sequence of their
statements: read and check, note, move, second note; each is a step of one
technician, and each write may be refused.  Cases are opened, closed and reopened
beside them.

### KnowledgeIndex
The background loop's walk (list, index each, forget what is gone) document by
document, and the commands of `jarvis-bilgi` in another process.  `index_text` is three
steps, since it reads the document's row and asks the embedder before it takes the file's
lock: the look-up (which leaves a job), `Embedded`, and `Writes`, which a row that the
other process removed or inserted meanwhile makes fail.  Each of the server's two
endpoints may go and come back; each process remembers what it learnt of the bulk one,
and keeps the vectors it read.  Files change and the root may be unmounted between any
two documents.

### BackupRestore, AuditTrail, Journal, CustomCommands, Settings
Files as the system sees them: copy, replace, unlink, rename, append are steps, and
the process may die between any two.  A content is the number of the state it
belongs to; a record is its number.  `Journal` is what a reader of a journal and all its
archives is promised: a record is written at the end or lost, and only the oldest are
forgotten, while a full file of them is left; `AuditTrail`, which appends and renames
file by file, refines it (`TrailIsOneJournal`, which carries `TrailIsWhole` along).
`Settings` is the `.env` file as lines, with the
rule by which a start reads it and a command rewrites it; `BrokenOff` is a rewrite that
is killed or fails after it truncated the file.

### FallbackProvider, ModelStream
`FallbackProvider` has one call at a time (the agent's turn lock).  `Call` asks the
breaker and clears the last call's report; `Request`, `Piece`, `PrimaryAnswers`,
`PrimaryFails`, `GiveUpPrimary`, `FallbackAnswers`, `FallbackFails`, `OtherError` are
the branches of the retry loop, shared by `chat` and `chat_stream`.  Time is the age
of the open circuit.  `requests`, `deadFor` and `received` are history.
`ModelStream` is the client below it: a plain or streamed request of
`OllamaProvider`, line by line, and every way it can end; pieces and calls carry the
number of the request they belong to.

### ContextWindow, TurnRouting, FactMemory
What one turn does under the agent's lock, one call a step.  `ContextWindow` narrows
by count and budget, keeping system blocks, the newest messages and the pending
question; texts are classes (asks, answers, long, looks like a block).  `TurnRouting`
is a sentence as the set of cue lists it hits and its form; the rules are in the
router's order, and `choice` remembers of which decision the schemas in use were chosen.
A tool-call message carries the assistant's text like any other (`ToolRound`).  `FactMemory` is `remember` with its confidence rule, the history
table, merging, forgetting, both readers and the pruning candidates.

### SpeechOutput
Request threads ask for ids of registered texts; `Admit`, `LookUp`, `GetModel`,
`TakeLoadLock`, `TakeVoice`, `Loaded`, `Spoke`, `Keep` are the engine's stations,
with the double-checked load lock and the inference lock; the warm-up thread loads
beside them, `CloseVoice`, `Join`, `DropModel` are `close`.

### MonitorAnnounce
Monitor, bus and announcer composed.  `BeginPass` is the snapshot a loop collects
(all keys of the thread at once); `Emit`, `Clear`, `Skip` judge one key of it: the
lock section of `_emit` and `_clear` is the step, and the event it publishes is in
`publishing` until `DecideTrouble` or `DecideRecovery`, the announcer's lock
section, and the sentence in `speaking` until `Speak`.  `publish` is synchronous:
`Busy` keeps the thread in that chain until it ends, while other threads, the clock
and the hours move.  `severity`, `clears`, `emitAge` are `_issues`; `announced` and
`spokeAge` are `_duyurulan` and `_son_duyuru`; ages stop at the bound the code
compares them with.  A key has one reporter: the telemetry loop, the health loop, or
the turns, which the agent serialises.  That is so for every key that can become
critical; `voice.*`, warnings of several request threads, are left out.  A service
without a success event (`service.jarvis`) is a key whose levels lack `"ok"`.
`heard` is history: what the ear was told since the trouble last ended.

## 3. Runs

| Run | Question | Bounds | Answer |
|---|---|---|---|
| `approval_tools` | Can any overlap of requests run a call it has no authority for, use another turn's tick, lose or keep a spoken floor without an overlap of spoken requests, or leave a request waiting?  Is a refusal of the web ever told as an empty result, a hop followed unexamined, or a thing reported open against the word of a better opener? | one typed, one ticked, two spoken requests, one call each, floor LOW; two redirects, two results, one name that may move; a catalogue of three, three owner's files | no |
| `approval_floor_leaked` | Does the floor always come back? | two spoken requests | **no** (finding) |
| `agent_turn` | Are turns serial, at rest afterwards, symmetric in both histories, grounded, shown as recorded or as the model wrote it, delivered, and an implementation of the service? | one plain, one streamed caller, two tools, three steps, one piece, failing store | yes |
| `agent_turn_notice` | Does a caller whose turn is recorded as a failure see that notice? | one streamed caller, two pieces | **no** (finding) |
| `panel_state` | Does the machine rest in STANDBY whatever overlaps?  Is a health report recent and never better than a vital part allows? | two turns, a hearing, a synthesis, a frame; two askers, three units of time | yes |
| `panel_server` | With turns only: do late and connected panels agree with the machine at rest, is none blank, does every activity end though no panel reads?  Does the panel's process serve only whom it may, close nothing under a loop, and stop?  Does the console say one answer at a time, end it and report its failure? | two turns, two model calls, one panel, queue of two; two loops, the choices about the voice apart from those about the token; two answers of one piece, queue of one, one retry | yes |
| `core_state_stale` | Does the retained state agree with the machine at rest when a turn, a synthesis and a frame overlap? | one of each | **no** (finding) |
| `stores` | With crashes, refused writes and a second writer: are reminders told once and at last, is each diagnosis explained, does the index agree with itself and catch up, are archives whole and restores complete, is the rotated trail one journal without a hole, is what was promised or written read at the next start? | see the cfg: one item, one case, two mishaps (restarts and failing writes); one case, one session, two technicians, four answers; two documents, two edits; three files, one kill; nine records in four files, two troubles; two phrases; two keys, two lines | yes |
| `reminders_crowded` | Is every near case told when more are near than the limit? | two cases, limit one, nothing fails | **no** (finding) |
| `reminders_locked` | Is a turn's message always written? | one case, one turn | **no** (finding) |
| `model_path` | One source per answer, budget, last resort, honest report, breaker, end?  Is a stream's result its own?  Is the window faithful, routing clean, the required tool offered?  Does memory keep the owner's word?  Is speech built once, kept and answered? | two retries, cooldown two; three requests of two lines; five texts, seven messages, budget 8; the whole registry with limit 8 and four pairs of cues; two keys, three writes; two browsers, two texts of which one is kept | yes |
| `monitor_announce` | Is an outage announced once, its recovery only after it, nothing remembered that has no issue, and a lasting trouble told at last, whatever the hours, the gap and failing voices? | a measurement (three levels) and a probe (unmeasured or down) of two loops, two clear samples, cooldown one, gap one, settings all on or all off | yes |

**What the properties are.**  Each run checks one conjunction per component (its
type invariant and its safety invariants by name, for instance `WindowIsFaithful` =
`WindowTypeOK`, `IdentityFirstBlocksOnce`, `SentFits`, `NothingFadesUnseen`,
`PendingIsKept`) and its action and liveness properties.  `stores` and `model_path`
also evaluate, as assumptions of the MC module, what the code computes without state
over bounded inputs (`SettingsCompute`, `ClientComputes`).

**Why the bounds are enough.**  The hazards are pairwise: two requests at one
field, one producer and one consumer, one writer and one open transaction, one
kill in one sequence of file operations.  Two actors of the kind that conflicts,
plus one of each other kind, are present in each run.  Two spoken requests are what
a floor needs to be mistaken; one call per turn is enough because each call reads
the fields afresh.  Three model steps give a failing tool, its repair, and the limit;
two tools distinguish "the same tool repaired it" from "another tool succeeded".  A
queue of one or two is full after a single turn.  Two cases with limit one or two are
just above and at the limit (`reminders_crowded`; in `stores` one case is enough,
because the limit's effect is that run's subject).  Two retries have a first, a middle and a last attempt; a
cooldown of two has an age before, at and after.  Two keys of two loops compete for
the gap; two clear samples have a first and a last.  Two technicians at one session
reach every order of their statements; four answers are the longest path of a
playbook and one repeated.  Nine records of two to a file fill journal and three
archives and drop the oldest; two troubles meet in one rotation.  A window of four
messages, of which two are always kept, drops messages by count, by budget and for a
pending question.  Two browsers, a warm-up and a closing meet at each of the
engine's locks.  What the theorems of section 5 prove holds for every value of the
constants.  Activities are served once each: a thread makes one request, and
properties about rest are about states in which all threads that began have ended.

The constants named `Max...` are bounds of the models, not of the code (except
`CoreState.MaxCalls`, which is `Agent.max_steps`, and `MaxRetries`).  Deadlock is
checked where every behaviour can go on: in `approval_tools`, `agent_turn` and
`monitor_announce`, and in the violation runs.  The composites with files, bounded
clocks or closed processes stop when the bound is reached, and say so in their cfg.

## 4. Fairness

Liveness is checked under weak fairness of *the threads' own steps*: a thread that
is past its beginning is scheduled, a `with` lock is released, and model,
transcription and tool calls return or time out (`llm/` and `tools/` pass
timeouts).  Nothing is assumed of the environment: no request has to arrive, no
panel has to read or connect, nobody has to create or close anything.  In the
composites each assumption is that of its module, while that module is the subject.
What deserves a word:

* `ApprovalTurns` and `AgentTurn`: with weak fairness of each request's
  lock-taking step a thread waiting for a lock that is free again and again
  could in principle be passed over; requests are finitely many, so weak fairness
  suffices for each to get it.  A `threading.Lock` is not fair under an endless
  supply of requests, and nothing is claimed for that.
* `SpeechOutput`: strong fairness of the threads' work, because here requests come
  again and a lock that is free again and again is assumed to be won now and then.
* `Reminders`: a notification that is tried again and again is shown at last
  (strong fairness of `NotifyItem(i, TRUE)`).  Without it no retry can promise
  anything; `CaseIsTried` and the safety properties do not rely on it.  Writes that fail
  are bounded by `MaxMishaps`: with a mark that fails for ever an item is told for ever.
* `KnowledgeIndex`: the background loop goes on; `SyncCatchesUp` is conditional on
  the root being there from some time on, and the number of edits is bounded.
* `PanelProcess`: main and the loops are scheduled and a join gives up after its
  time; how long a loop, a frame or a sentence takes is free.  `Playback`: feeder, producer and player run
  on; nobody has to type.
* `MonitorAnnounce`: the background loops go on (`while not _stop`), a judgement
  begun is finished and time passes; turns, levels and hours are free.
  `AnnouncementsSettle` is conditional on what the environment settles to.

## 5. Theorems

All are of the form `Spec => []P` (or `Spec => [][A]_vars`), for every value of the
constants allowed by the modules' named assumptions.

| Module | Theorem | Says |
|---|---|---|
| ApprovalProofs | `GateTypeCorrect`, `ApprovalIsScoped`, `NothingRunsWithoutAuthority` | types; the lenient approver is in force only in the ticked request's own turn; nothing above the default floor runs but a HIGH call of a ticked turn, asked |
| ApprovalProofs | `SpokenTurnsKeepTheirFloor`, `FloorIsRestored`, `SpokenFloorIsScoped` | until two spoken requests overlap, spoken calls stay within the floor and the floor comes back |
| AgentTurnProofs | `TurnsStayWhole`, `AnsweredTurnsAreRecorded`, `AnswersStayTrue` | for any callers, tools and failures: the messages of a turn are in one piece, an ended stream was read, rest is STANDBY; an answered turn is in both histories in order; the answer says what the last calls did; what was shown ends with it or is the model's own text of it |
| AgentTurnProofs | `TurnsImplementTheService` | the initial states and every step of `AgentTurn` map to `TurnService` |
| CoreStateProofs | `CoreStateTypeCorrect`, `MachineRests`, `PanelsAreNeverBlank` | types and queue limits; STANDBY at rest and no blank panel for any mixture of activities |
| CoreStateProofs | `TurnsRetainTheState`, `TurnsReachTheScreens`, `TurnsAgreeWithThePanels` | if only turns make transitions, hub and screens agree with the machine at rest |
| StoreProofs | `RemindersTypeCorrect`, `NoCaseIsToldTwice`, `ItemsAreToldAgainOnlyUnmarked`, `RemindersAreToldOnce` | a case is shown at most once; an item once more than there were restarts and failed writes at most |
| StoreProofs | `DiagnosisStaysExplained` | for any cases, sessions and technicians: the log explains where a session stands, and a session can go on |
| StoreProofs | `IndexStaysSound` | for any files, texts and commands of a second process: the three tables agree whoever wrote between look-up and write, and a chunk lacks its vector only if it was not owed one: no endpoint answered, or the bulk one, known to work, failed |
| StoreProofs | `BackupsStaySound` | for any files, changes and kills: an archive is whole or was damaged by the disk, and a restore that returned restored everything |
| StoreProofs | `TrailStaysWhole` | for any number of archives, wherever a rotation dies or is refused: the newest records, in order, without a gap |
| StoreProofs | `TrailStaysOneJournal` | the initial states and every step of `AuditTrail` map to `Journal`, the fullest form of the same: renames show nothing, only the oldest archive is forgotten and never the last `PerFile` records |
| StoreProofs | `CommandsDoSurvive` | for any phrases and any saves that fail or are killed: what was told saved is what the next start reads |
| StoreProofs | `SettingsAreAlwaysRead` | for any keys, values and `.env` file: what a command says it wrote is what the next start reads, unless a later rewrite was broken off |
| ModelPathProofs | `RouterTypeCorrect`, `AnswersHaveOneSource`, `FallbackComesLast`, `AnswersAreSoundAndReported`, `BreakerHolds` | budget; one source; last resort; an honest report; no request before the cooldown has passed |
| ModelPathProofs | `StreamsStayTheirOwn` | for any calls and lines: what is read after a stream is its own, no step carries tool calls over, thinking is what the operator allowed |
| ModelPathProofs | `WindowStaysFaithful` | for any texts, lengths, budgets and window and summary sizes: the identity once and in front, what is sent fits, no sentence fades without its line, the pending question stays |
| ModelPathProofs | `RoutingStaysClean`, `RequiredToolsAreOffered` | no earlier topic's schemas in a turn; with no limit of schemas, or one of seven or more, every turn for the model, markers included, is offered the tool its intent requires, with the exceptions named below |
| ModelPathProofs | `TheUsersWordStands`, `MemoryIsKept` | for any keys, values and similarity: the owner's word stands unless an inference repeated it; every value a row had is kept; what was shown is never a candidate for pruning |
| ModelPathProofs | `SpeechStaysKept` | for any browsers and bounds: the model is built once, the cache keeps its bound, an id is refused only if newer texts pushed its text out |
| ApprovalProofs | `WebStaysHonest`, `OpeningStaysTrue` | for any names, redirects and results: no refusal that the code can know is told as an empty result, and a connection ends in a private network only if the name changed its answer after its examination; for any catalogue and owner's file the owner's name wins, and a thing is said to be open unopened only on the word of a program that was run, by the two that always succeed only after each better one was tried |
| CoreStateProofs | `ReportsStayHonest` | for any askers and keeping time: no vital failure is averaged away, and a report is recent unless the clock was set back |
| PanelProofs | `PanelStaysOrderly`, `PlaybackStaysOrderly` | for any loops and options: service only to who may, closing only after the loops; for any answers, pieces and retries: one answer is heard at a time and an error of a kept kind is told |
| MonitorAnnounceProofs | `MonitorTypeCorrect`, `AnnouncementsCloseWithTheirIssue`, `RecoveriesAnswerTroubles`, `OutagesAreToldOnce`, `SentencesKeepInStep` | for any keys and threads: the announcer's memory follows the monitor's issues; a recovery answers a trouble of the same outage; one announcement per outage |

The arguments:

* **Gate.**  `ApprovalStaysInItsTurn` is not inductive: that the panel's approver
  is back after a turn depends on what the turn remembered.  `GateInv` adds that
  lock and turn agree, that a turn remembers the panel's approver, and that no
  floor, in force or remembered, is laxer than the default; then every branch of
  `check` is bounded.  For the floor, `MicInv` says that, until an overlap, the
  floor is a *function* of where the one spoken request inside its floor stands.
* **Agent turn.**  `AgentInv` joins what each part of a turn must know of the others.
  `LockInv`: at most the holder of the lock is in a turn, and the shared fields are at
  rest when nobody is.  `HistoryInv`: the history is whole turns and, at its end, the
  messages of the turn in progress, as far as its place in the code says.
  `RecordInv`: what was concluded is in both histories.  `OutcomeInv`: the table of
  tool outcomes is what the results of this turn say about the *last* call of each
  tool.  `PlainInv` and `StreamInv`: what the caller has been shown and what is still
  in its queue, put together, is a run of fragments and at its end the answer and
  the end marker.  One lemma per part, one step per action; the refinement needs
  from them only that no two requests are in a turn and that a caller returns after
  its turn ended.
* **State machine.**  `RestInv`: when every activity is settled (it has not begun, or
  the last transition it asked for was to STANDBY), the machine is in STANDBY.
  Every way out settles an activity by a transition to STANDBY; a turn that ends
  elsewhere reads the machine and recovers it.  `TurnsInv` adds for turns what the
  hub and each queue have been told: what is not yet retained is still on its way
  on the one thread that is in a turn.
* **Reminders.**  A case shown was claimed, and one being told was claimed but not
  shown; an item in the pass is neither marked nor waiting for its mark, and a
  telling without a mark was paid for by a restart or a failed write (`ReminderInv`).
* **Router.**  `RouterInv` relates phase, attempt, requests and pieces: as long as a
  retry is possible nothing was received, the attempt number counts the requests,
  and the age of an open circuit is the time since the server was found dead.
* **Monitor and announcer.**  None of the three properties is inductive: whether a
  key may be announced depends on an event that was decided earlier.  `KeyInv` follows
  one key: one event or sentence of it is on the way at a time, a published trouble
  has its issue, and the announcer remembers the key exactly while what was heard
  of it is open.  `Busy` is what makes it hold: the reporter does not judge a key
  again before the announcer has heard the last event.
* **Facts.**  That the owner's word is not overwritten rests on the row's confidence
  being the highest there is, which only a repetition by a weaker source takes down:
  `WordInv` says so; `KeptInv` and `UsedInv` follow each value and each use through
  rewriting, refusing, merging and forgetting.
* **Diagnosis.**  An answer in flight carries the node it read; the invariant says that
  this node, and the one the note names, are explained by the notes already there, so
  that whichever of two technicians moves the session last, the move is explained.

* **Web, applications.**  `WebInv` adds to `WebIsHonest` that, between an examination
  and its connection, the examined name still answers with public addresses only or has
  moved (`StillExamined`).  `AppInv` remembers why an opener is tried: the entry is what
  the look-up gives for the name and the file of that moment, the openers left are the
  tail of those the system offers, and what came before them was tried in vain
  (`TriedInOrder`).
  That the look-up prefers the owner's entries is a lemma about `Bul`, from the least
  place that matches and the greatest, for catalogues of any length.
* **Health.**  Until the clock is set back it equals the time that passed, so that the
  reading a report carries is its age (`ClockInv`); `VitalOrCritical` shows that each
  vital failure fails a required check, whatever the scores.
* **Panel process, playback.**  `PanelInv` orders the start (token, port, service) and
  the stop (loops, vision, voice).  `PlayInv`: the loop holds the one playback that can
  still be heard; a player's input is closed by a feeder that is through, and an uncut
  player goes only after that; so an error of a kept kind is there when the loop looks
  at an uncut answer.
* **Index.**  The tables agree because a row's id is its own (`OwnIds`): the full-text
  rows a document takes with it are no other document's; and a write is done only
  while the row it looked up is still the document's (`Fits`).  A job that is owed a
  vector has one (`JobsOwe`), because the embedder trusts the bulk endpoint only after
  it worked (`KnownWorked`).
* **Backup, trail.**  What a restore under way has replaced is what it unpacked
  (`ReplacedSoFar`).  `TrailInv` restates the trail file by file: each in order, a
  higher archive older than a lower one, a written record newer than a kept one kept; and a rotation under way has made room ahead of the file it moves next.
  That the files read one after the other are then one ordered list is an induction
  over the number of archives (`ListFacts!Induction`).  The refinement of `Journal` is
  the same induction on two trails at once (`Joins`): a file moved up into the empty
  place above it leaves the concatenation as it was, a line appended to the journal is
  appended to it, and without the oldest archive it is its own rest; that enough is
  left needs the clause of `RoomAhead` that a rotation begins with a full journal.
* **Commands, settings.**  The memory is what was promised but for the change under
  way, and a temporary file holds the memory; a file read back gives the map it was
  written from, for any number of phrases.  For settings, the first line of a key
  that is no comment is what a start reads; `Rewritten` replaces it and drops its
  copies, which leaves every other key's first line what it was.  A rewrite that is
  broken off leaves a prefix of the lines, the last perhaps torn: a key then reads as it
  was promised, as the default, or torn, until it is written again.
* **Streams.**  While a stream is read, the result and the failure of the one before
  are gone and what was read is what the caller has (`NothingLeftWhileReading`).
* **Window.**  `WindowInv`: the system blocks are clean, every sentence said is in the
  window or has its line unless the summary is full (and a full summary stays full),
  the question the owner answers is in the window, and what was narrowed fits.  Under
  it lie the sums of lengths over any set of positions, monotone in the set and
  additive over lists, and the narrowing: kept and dropped together are the history.
* **Routing.**  The rules name only tools of the registry, and a rule that requires a
  tool has an intent whose allowlist contains it.  The allowlists of such intents
  have at most seven places in the registry, which is why seven is enough; with a
  limit of five TLC finds `uygulama_ac` cut off.  A marker keeps the schemas of the
  decision they were chosen for (`choice`), and its own decision differs from that one
  only in the two ways the property names (`ToolsInv`).
* **Speech.**  The texts kept are the newest in order (`TextsAreNewest`), so that an id
  that is missing is older than all of them; the model is loaded by the holder of the
  lock, who found it missing (`LoadsUnderLock`); `move_to_end` permutes the cache.

**What the provers do not have, and how the proofs do without.**  They have no rule for
induction and know nothing of folds.  `ListFacts` derives induction over the naturals,
in a form about sets, from the well-foundedness of `<`, and from it the equations of
the recursive functions the models use (`ElementsAt`, `Length`, the look-up from the
end of a file).  The models are written with these functions where the code has a
comprehension or a sum.

**Assumptions.**  The theorems assume what the modules' `ASSUME`s say: bounds are
natural numbers (positive where the code clamps or fixes them), sets of requests or of
activities of different kinds are disjoint, model values are not values, the catalogue
is a list of entries, the phrases are finitely many.  Two theorems have a hypothesis of
their own: `OnlyTurns` (the panels agree when only turns make transitions; the other
mixtures are finding 3) and `Limit = 0 \/ Limit >= 7` (the default limit is eight).

**Only model-checked:** liveness (`EveryRequestAnswered`, `EveryActivityEnds`,
`ShutdownEnds`, `PlaybackEnds`, `ItemIsTold`, `CaseIsTried`, `SyncCatchesUp`,
`EveryCallEnds`, `EveryRequestIsAnswered`, `AnnouncementsSettle`, and the fairness part
of `ImplementsService`, whose safety part is `TurnsImplementTheService`), because
liveness under fairness is outside what the prover handles; and the properties of the
runs that expect a violation.

## 6. Findings

1. *A leaked or lost spoken floor* (`approval_floor_leaked`): `konus` raises the floor
   before the agent lock is taken.  Of two overlapping spoken requests the first to
   leave puts the default floor back under the second, and the second restores the
   raised one for good.
2. *The failure notice a stream never shows* (`agent_turn_notice`): with a streaming
   provider the pieces are out before `ground_tool_failures` replaces the text.
3. *A stale panel state* (`core_state_stale`): listeners run outside the lock, so two
   transitions can be published in the opposite order, and at rest nothing
   publishes again.
4. *A crowded-out case* (`reminders_crowded`): the 50-row limit counts cases that
   were already told.
5. *A lock left behind* (`reminders_locked`): the refused claim is not rolled back,
   and keeps SQLite's write lock until the agenda's next commit.

Met while modelling, without a run of their own:

* A case is claimed *before* its notification, so one that is not shown is never tried
  again; a sentence counts as announced before it is spoken, so a voice that fails
  loses the trouble and still tells the recovery; `service.jarvis` is cleared by no
  event, so after its first announcement no later failed turn is announced.
* `jarvis-bilgi durum` advises to add a folder again in order to embed it
  (`rag/cli.py:114`); a document whose signature has not changed is skipped, so one
  that was indexed while the server was down keeps no vector.
* An inference that repeats the owner's own value takes the row's confidence down to
  its own, and a later inference may then replace it (`memory/store.py`).
* Two technicians may take the two branches of one question; a completed diagnosis may
  become active again when the slower one's move arrives last (`diagnostics/engine.py`).
* Ctrl-C while the loops are being started reaches `shutdown`, which waits for a
  server that never began to serve (`web/server.py:957`).
* A rotation drops the oldest archive, so that the journal of `security/audit.py` is
  whole only from some record on; its head says that entries are never deleted.
* A marker ("tamam") after a topicless turn is decided as conversation but keeps the
  schemas chosen last (`core/agent.py:207`).  It may go to the model without the tool its
  intent requires: in the training mode a bare "tamam" is a fact to save, and
  `remember_fact` need not be among the schemas it keeps; after a control sentence with a
  cue in it, the marker takes over an intent no schemas were chosen for.
* An error of the synthesiser that is a `ValueError` or an `OSError` is swallowed with
  those of a dead player's pipe (`voice/tts.py:450`): such an answer ends untold.
* A streamed caller has the model's raw words, the record their rendered and redacted
  form (`core/agent.py:811,845`).
* A refusal in words that `engellendi_mi` does not know, on a page with the markup of
  results, is told as an empty result (`internet/arama.py`).
* A fetch resolves a name once to examine it and once more to connect
  (`internet/guvenlik.py:103`, `internet/getir.py:102`): a name that answers differently
  the second time leads to a connection nobody examined.
* The exit code of an opener is not looked at (`apps/ac.py:45`, `internet/ac.py:63`):
  a thing may be said to be open though the program that was run opened nothing.
* `shutdown` waits without a limit for a frame in analysis and for a sentence in
  synthesis (`vision/pipeline.py:119`, `voice/xtts.py:236`); after `close` a thread that
  waited for the load lock may load the model once more.
* An item whose mark cannot be written is told again at the next pass; the loop swallows
  the error (`web/server.py:925`).
* `.env` is rewritten in place (`voice/cli.py:338`): a kill or a full disk loses lines
  whose commands had said they were written.  A command run in another folder that has a
  `.env` or a `pyproject.toml` of its own writes there without a warning (`cli.py:290`).
* `index_text` looks the document up before the lock of the file is taken, so the other
  process may remove or insert it meanwhile; the refused write of the panel leaves its
  transaction open, and `jarvis-bilgi` cannot write until the panel's next commit.  A
  bulk call that fails after one worked leaves chunks without vectors on a server that
  answers (`rag/embed.py:156`), and the same signature is never embedded again.
* A row of the custom commands that cannot be read ends the reading, and the next save
  drops the rows behind it.

## 7. Not modelled, and why

Contents of texts, prompts and rankings (a property about them would be about
wording); the word lists of the classifiers (each list is one cue); external engines
(speech, vision, search, the operating system), which are nondeterministic where a
model uses them; most settings, which are independent defaults; speech input and the
vision providers, wrappers around recognisers; the individual tools, calls with a policy
check and I/O whose decision and outcome are modelled; the Windows launcher; the
offline evaluation and acceptance tools.  Several server processes on one data
directory (except the index's command line) and SQLite's own durability are taken as
given.  In the modelled parts: the case, knowledge and suggestion blocks of a turn,
counters and wording of the model client, event kinds of the hub other than `state`,
documents of several chunks, keys of the monitor that several threads report; a journal
line torn by a full disk, an answer of the embedding server that is no JSON, a commit
that a long reader refuses and that leaves its statement in an open transaction.

**What some properties do not say.**  `DeadServerIsLeftAlone` is about the primary: a
fallback that meets the server dead opens no circuit.  `MemoryKeepsItsWord` excepts a
value that an inference repeated, `RecoveryAnswersTrouble` a trouble whose voice failed,
`ModelIsBuiltOnce` what happens after `close`.
`SyncCatchesUp` is about a root that is there in the end: that nothing is forgotten while
it is *not* there holds only up to the check at the walk's beginning (a root that goes
after it is listed as empty and its documents are forgotten, until it comes back).

## 8. Where it could go on

1. `voice.*` keys in `MonitorAnnounce`, with two reporters of a key.
2. More abstract services of the kind of `TurnService` and `Journal`, for the other
   stores and for the speech engine, and proofs that their steps are those of the services.
3. A second agent turn beside `KnowledgeIndex` and `FactMemory` reading while the loop
   writes, where they share the process's cached vectors.

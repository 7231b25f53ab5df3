---------------------------- MODULE SpeechOutput ----------------------------
(* An answer or an announcement becomes sound: the panel keeps the last texts  *)
(* under an id (server.py:774-791), a browser asks for one of them on a thread *)
(* of its own (server.py:1494-1566), and the resident XTTS engine              *)
(* (voice/xtts.py) loads its model once, speaks one text at a time and keeps   *)
(* recent sound, while a warm-up thread may still be loading and the process   *)
(* may be shutting down.                                                       *)
EXTENDS Integers, Sequences, FiniteSets, Lists

CONSTANTS SpeechRequest, \* request threads of the panel
          Warmup,       \* the thread jarvis-xtts-warmup
          NoThread,
          MaxTexts,     \* bound: texts registered, ids 1..MaxTexts
          KeptTexts,    \* server.py:789: ids kept (20)
          CacheSize     \* XTTSTTS.cache_size

ASSUME SpeechAssumption ==
  /\ MaxTexts \in Nat /\ KeptTexts \in Nat \ {0} /\ CacheSize \in Nat
  /\ Warmup \notin SpeechRequest /\ NoThread \notin SpeechRequest \cup {Warmup}

VARIABLES speech,       \* Server._speech: ids in order of arrival
          registered,   \* ids handed out
          stage,        \* where each thread is
          wants,        \* the id a request asked for
          model, load_error, engineClosed,
          loader,       \* the holder of _load_lock
          speaker,      \* the holder of _inference_lock
          cache,        \* _cache, least recently used first
          loads,        \* models built
          closing       \* XTTSTTS.close: "no", "called", "joined", "done"
speechVars == <<speech, registered, stage, wants, model, load_error, engineClosed,
                loader, speaker, cache, loads, closing>>
engineVars == <<model, load_error, engineClosed, loader, speaker, cache, loads>>

Thread == SpeechRequest \cup {Warmup}
Outcomes == {"played", "missing", "unavailable", "failed"}
Steps == {"idle", "found", "lookup", "model", "load", "loading", "infer",
          "speaking", "made"} \cup Outcomes

MoveToEnd(s, x) == Append(KeepOnly(s, InSeq(s) \ {x}), x)
NewestOf(s, n) == IF Len(s) > n THEN SubSeq(s, Len(s) - n + 1, Len(s)) ELSE s
Goes(t, step) == stage' = [stage EXCEPT ![t] = step]

SpeechInit ==
  /\ speech = <<>> /\ registered = 0
  /\ stage = [t \in Thread |-> IF t = Warmup THEN "model" ELSE "idle"]
  /\ wants = [t \in SpeechRequest |-> 0]
  /\ model = FALSE /\ load_error = FALSE /\ engineClosed = FALSE
  /\ loader = NoThread /\ speaker = NoThread
  /\ cache = <<>> /\ loads = 0 /\ closing = "no"

Available == ~engineClosed /\ ~load_error

-----------------------------------------------------------------------------
(* Server._speech_kaydet: no id while there is no voice; else the oldest of    *)
(* more than Kept texts is dropped.                                            *)
Retained_Fault(s) == NewestOf(s, KeptTexts - 1)
Retained(s) == NewestOf(s, KeptTexts)

Register ==
  /\ registered < MaxTexts /\ Available
  /\ registered' = registered + 1
  /\ speech' = Retained(Append(speech, registered + 1))
  /\ UNCHANGED <<stage, wants, engineVars, closing>>

(* GET /speech/<id>: the text, or 404.                                         *)
AskToSpeak(r, id) ==
  /\ stage[r] = "idle" /\ id <= registered
  /\ wants' = [wants EXCEPT ![r] = id]
  /\ Goes(r, IF id \in InSeq(speech) THEN "found" ELSE "missing")
  /\ UNCHANGED <<speech, registered, engineVars, closing>>

(* 503 without a voice; else the synthesis starts.                             *)
Admit(r) ==
  /\ stage[r] = "found"
  /\ Goes(r, IF Available THEN "lookup" ELSE "unavailable")
  /\ UNCHANGED <<speech, registered, wants, engineVars, closing>>

(* The audio cache, under its own lock.                                        *)
LookUp(r) ==
  /\ stage[r] = "lookup"
  /\ IF engineClosed THEN Goes(r, "failed") /\ UNCHANGED cache
     ELSE IF wants[r] \in InSeq(cache)
          THEN Goes(r, "played") /\ cache' = MoveToEnd(cache, wants[r])
          ELSE Goes(r, "model") /\ UNCHANGED cache
  /\ UNCHANGED <<speech, registered, wants, model, load_error, engineClosed,
                 loader, speaker, loads, closing>>

(* What a thread does when the engine fails it: the request answers 502, the   *)
(* warm-up remembers the error for everybody.                                  *)
LoadFails(t) == /\ Goes(t, "failed")
            /\ load_error' = (load_error \/ t = Warmup)

(* XTTSTTS._get_model: a look without the lock,                                *)
GetModel(t) ==
  /\ stage[t] = "model"
  /\ IF engineClosed THEN LoadFails(t)
     ELSE IF model THEN /\ Goes(t, "infer")
                        /\ UNCHANGED load_error
          ELSE Goes(t, "load") /\ UNCHANGED load_error
  /\ UNCHANGED <<speech, registered, wants, model, engineClosed, loader, speaker, cache,
                 loads, closing>>

(* then the same look under it.                                                *)
AlreadyThere_Fault == FALSE
AlreadyThere == model

TakeLoadLock(t) ==
  /\ stage[t] = "load" /\ loader = NoThread
  /\ IF AlreadyThere THEN /\ Goes(t, "infer")
                          /\ UNCHANGED <<loader, load_error>>
     ELSE IF load_error THEN LoadFails(t) /\ UNCHANGED loader
          ELSE /\ Goes(t, "loading") /\ loader' = t
               /\ UNCHANGED load_error
  /\ UNCHANGED <<speech, registered, wants, model, engineClosed, speaker, cache, loads, closing>>

(* The factory returns, or raises; either way the lock is released.            *)
Released_Fault(ok) == IF ok THEN NoThread ELSE loader
Released(ok) == NoThread

Loaded(t, ok) ==
  /\ stage[t] = "loading"
  /\ loader' = Released(ok)
  /\ IF ok THEN /\ model' = TRUE /\ loads' = loads + 1 /\ Goes(t, "infer")
                /\ UNCHANGED load_error
     ELSE load_error' = TRUE /\ Goes(t, "failed") /\ UNCHANGED <<model, loads>>
  /\ UNCHANGED <<speech, registered, wants, engineClosed, speaker, cache, closing>>

(* model.tts, one thread at a time; it may raise.                              *)
TakeVoice(t) ==
  /\ stage[t] = "infer" /\ speaker = NoThread
  /\ speaker' = t /\ Goes(t, "speaking")
  /\ UNCHANGED <<speech, registered, wants, model, load_error, engineClosed, loader,
                 cache, loads, closing>>

Spoke(t, ok) ==
  /\ stage[t] = "speaking"
  /\ speaker' = NoThread
  /\ IF ok THEN Goes(t, IF t = Warmup THEN "played" ELSE "made") /\ UNCHANGED load_error
     ELSE LoadFails(t)
  /\ UNCHANGED <<speech, registered, wants, model, engineClosed, loader, cache, loads, closing>>

(* _cache_put, then the answer.                                                *)
Keep(r) ==
  /\ stage[r] = "made"
  /\ cache' = NewestOf(MoveToEnd(cache, wants[r]), CacheSize) /\ Goes(r, "played")
  /\ UNCHANGED <<speech, registered, wants, model, load_error, engineClosed, loader,
                 speaker, loads, closing>>

Again(r) ==
  /\ stage[r] \in Outcomes /\ Goes(r, "idle")
  /\ UNCHANGED <<speech, registered, wants, engineVars, closing>>

(* XTTSTTS.close: refuse new work, wait for the warm-up (or give up), then     *)
(* drop the model between two inferences and the cache.                        *)
CloseVoice ==
  /\ closing = "no" /\ closing' = "called" /\ engineClosed' = TRUE
  /\ UNCHANGED <<speech, registered, stage, wants, model, load_error, loader,
                 speaker, cache, loads>>
Join ==
  /\ closing = "called" /\ closing' = "joined"
  /\ UNCHANGED <<speech, registered, stage, wants, engineVars>>
DropModel ==
  /\ closing = "joined" /\ speaker = NoThread
  /\ closing' = "done" /\ model' = FALSE /\ cache' = <<>>
  /\ UNCHANGED <<speech, registered, stage, wants, load_error, engineClosed, loader,
                 speaker, loads>>

Work(t) == \/ GetModel(t) \/ TakeLoadLock(t) \/ TakeVoice(t)
           \/ \E ok \in BOOLEAN : Loaded(t, ok) \/ Spoke(t, ok)
           \/ t \in SpeechRequest /\ (Admit(t) \/ LookUp(t) \/ Keep(t))

SpeechNext ==
  \/ Register
  \/ \E r \in SpeechRequest : Again(r) \/ \E id \in 1..MaxTexts : AskToSpeak(r, id)
  \/ \E t \in Thread : Work(t)
  \/ CloseVoice \/ Join \/ DropModel

(* A thread of Python runs on, and a free lock is won by a waiting thread now  *)
(* and then; nobody has to ask, to close, or to finish closing.                *)
SpeechFairness == \A t \in Thread : SF_speechVars(Work(t))
SpeechSpec == SpeechInit /\ [][SpeechNext]_speechVars /\ SpeechFairness

-----------------------------------------------------------------------------
SpeechTypeOK ==
  /\ stage \in [Thread -> Steps] /\ wants \in [SpeechRequest -> 0..MaxTexts]
  /\ {model, load_error, engineClosed} \subseteq BOOLEAN
  /\ loader \in Thread \cup {NoThread} /\ speaker \in Thread \cup {NoThread}
  /\ InSeq(cache) \subseteq 1..MaxTexts /\ Len(cache) <= CacheSize
  /\ closing \in {"no", "called", "joined", "done"}

(* The model, gigabytes of it, is built once however many threads find it      *)
(* missing at the same moment (the double-checked _load_lock).  Closing drops  *)
(* the model, and a thread that waited for the lock before it was closed may   *)
(* build it once more after it: the code does not look again.                  *)
ModelIsBuiltOnce == ~engineClosed => loads <= 1

(* An id given out is served until Kept newer texts have been registered: a    *)
(* browser is told 404 only for a text the limit has really pushed out.        *)
OnlyOldTextsAreMissing ==
  \A r \in SpeechRequest : stage[r] = "missing" => wants[r] <= registered - KeptTexts

(* A request that is being served is answered, whatever fails on the way and   *)
(* whoever closes the engine meanwhile.                                        *)
EveryRequestIsAnswered ==
  \A r \in SpeechRequest : stage[r] = "found" ~> stage[r] \in Outcomes

\* What the panel's speech promises: one model however many ask for it at
\* once, and no text gone but those that newer ones pushed out.
SpeechIsKept == SpeechTypeOK /\ ModelIsBuiltOnce /\ OnlyOldTextsAreMissing
=============================================================================

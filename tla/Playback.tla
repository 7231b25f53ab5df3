------------------------------ MODULE Playback ------------------------------
(* The spoken half of the terminal loop (__main__.py:76-131).  An answer is    *)
(* synthesised piece by piece (voice/tts.py ElevenLabs, voice/edge.py), a      *)
(* feeder thread pipes the pieces into an external player                      *)
(* (voice/tts.py:385-498) and the prompt is back at once: typing cuts what is  *)
(* still being said.  Edge adds a producer thread and a bounded queue.         *)
EXTENDS Naturals, Sequences

CONSTANTS MaxAnswers,   \* bound: answers spoken
          Pieces,       \* pieces of sound in an answer
          SoundQueueLimit, \* edge.py KUYRUK_SINIRI (64)
          Retries       \* ElevenLabsTTS.max_retries

ASSUME PlaybackAssumption == /\ MaxAnswers \in Nat /\ Pieces \in Nat
                             /\ SoundQueueLimit \in Nat \ {0} /\ Retries \in Nat

VARIABLES provider,     \* "edge" or "elevenlabs"
          speak,        \* the loop still speaks
          prompt,       \* the loop: "input", "look" or "ask"
          answers,      \* playbacks started; the last one is the current
          oynatim,      \* the loop holds a playback
          player, feeder, iptal, hata, stdin_open, \* of each playback
          failure,      \* what its synthesiser raised: "none", "kept" or "swallowed" (history)
          sent, attempt, \* the ElevenLabs request
          producer, kutu, \* the Edge thread, queue
          reported      \* the errors the user was told of
playVars == <<provider, speak, prompt, answers, oynatim, player, feeder, iptal, hata,
              stdin_open, failure, sent, attempt, producer, kutu, reported>>
loopVars == <<provider, speak, prompt, answers, oynatim, reported>>
source == <<failure, sent, attempt, producer, kutu>>

Playing == 1..MaxAnswers
Error == Pieces + 1     \* an exception carried through the queue
EndMark == Pieces + 2       \* _BITTI
Set(f, i, x) == [f EXCEPT ![i] = x]

PlayInit ==
  /\ provider \in {"edge", "elevenlabs"}
  /\ speak = TRUE /\ prompt = "input" /\ answers = 0 /\ oynatim = FALSE
  /\ player = [i \in Playing |-> "none"] /\ feeder = [i \in Playing |-> "none"]
  /\ iptal = [i \in Playing |-> FALSE] /\ hata = [i \in Playing |-> FALSE]
  /\ stdin_open = [i \in Playing |-> TRUE] /\ failure = [i \in Playing |-> "none"]
  /\ sent = [i \in Playing |-> 0] /\ attempt = [i \in Playing |-> 0]
  /\ producer = [i \in Playing |-> 0] /\ kutu = [i \in Playing |-> <<>>]
  /\ reported = {}

-----------------------------------------------------------------------------
(* The terminal loop.  A line was typed: a playback that still runs is cut     *)
(* (Oynatim.kes: cancel, kill, wait at most two seconds for the feeder),       *)
Typed ==
  /\ prompt = "input"
  /\ IF oynatim /\ player[answers] = "playing"
     THEN /\ iptal' = Set(iptal, answers, TRUE)
          /\ player' = Set(player, answers, "gone") /\ prompt' = "look"
     ELSE prompt' = "look" /\ UNCHANGED <<iptal, player>>
  /\ UNCHANGED <<provider, speak, answers, oynatim, feeder, hata, stdin_open,
                 source, reported>>

(* then its error is looked at and the playback dropped; an empty line ends    *)
(* there.                                                                      *)
Look(blank) ==
  /\ prompt = "look"
  /\ LET failed == oynatim /\ hata[answers]
     IN /\ speak' = (speak /\ ~failed)
        /\ reported' = IF failed THEN reported \cup {answers} ELSE reported
  /\ oynatim' = FALSE /\ prompt' = IF blank THEN "input" ELSE "ask"
  /\ UNCHANGED <<provider, answers, player, feeder, iptal, hata, stdin_open, source>>

(* The answer is shown and, with a player installed, spoken without waiting.   *)
AnswerArrives ==
  /\ prompt = "ask" /\ prompt' = "input"
  /\ \/ ~speak /\ UNCHANGED <<speak, answers, oynatim, player, feeder>>
     \/ speak /\ speak' = FALSE /\ UNCHANGED <<answers, oynatim, player, feeder>>
     \/ /\ speak /\ answers < MaxAnswers
        /\ answers' = answers + 1 /\ oynatim' = TRUE
        /\ player' = Set(player, answers + 1, "playing")
        /\ feeder' = Set(feeder, answers + 1, "pull")
        /\ UNCHANGED speak
  /\ UNCHANGED <<provider, iptal, hata, stdin_open, source, reported>>

-----------------------------------------------------------------------------
(* EdgeTTS.synthesize, the producer: pieces, possibly an error, then the end   *)
(* mark, each waiting for room in the queue.                                   *)
Produce(i) ==
  /\ provider = "edge" /\ feeder[i] # "none"
  /\ producer[i] <= Pieces + 1 /\ Len(kutu[i]) < SoundQueueLimit
  /\ \/ /\ producer[i] < Pieces
        /\ producer' = Set(producer, i, producer[i] + 1)
        /\ kutu' = Set(kutu, i, Append(kutu[i], producer[i] + 1))
     \/ /\ producer[i] <= Pieces
        /\ producer' = Set(producer, i, Pieces + 1)
        /\ kutu' = Set(kutu, i, Append(kutu[i], Error))
     \/ /\ producer[i] \in {Pieces, Pieces + 1}
        /\ producer' = Set(producer, i, Pieces + 2)
        /\ kutu' = Set(kutu, i, Append(kutu[i], EndMark))
  /\ UNCHANGED <<loopVars, player, feeder, iptal, hata, stdin_open, failure, sent, attempt>>

(* The synthesiser raises.  Both make their own errors of what the network     *)
(* does (TTSError); what else a request can raise, a ValueError for a key no    *)
(* header may hold, passes through ElevenLabs' generator as it is.              *)
Raises(i, kind) == feeder' = Set(feeder, i, "failed") /\ failure' = Set(failure, i, kind)

(* The feeder asks the generator for the next piece.  Edge: the head of the    *)
(* queue, or an error after ZAMAN_ASIMI without one.                           *)
PullEdge(i) ==
  /\ provider = "edge" /\ feeder[i] = "pull"
  /\ \/ /\ kutu[i] # <<>> /\ kutu[i][1] <= Pieces
        /\ feeder' = Set(feeder, i, "write") /\ sent' = Set(sent, i, kutu[i][1])
        /\ kutu' = Set(kutu, i, Tail(kutu[i])) /\ UNCHANGED failure
     \/ /\ kutu[i] # <<>> /\ kutu[i][1] > Pieces
        /\ IF kutu[i][1] = EndMark /\ sent[i] > 0
           THEN feeder' = Set(feeder, i, "close") /\ UNCHANGED failure
           ELSE Raises(i, "kept")
        /\ kutu' = Set(kutu, i, Tail(kutu[i])) /\ UNCHANGED sent
     \/ /\ kutu[i] = <<>> /\ Raises(i, "kept") /\ UNCHANGED <<kutu, sent>>
  /\ UNCHANGED <<loopVars, player, iptal, hata, stdin_open, attempt, producer>>

(* ElevenLabs: the next piece of the response or its end; a transient failure  *)
(* starts the request anew, from its first piece, while attempts are left.     *)
PullEleven(i) ==
  /\ provider = "elevenlabs" /\ feeder[i] = "pull"
  /\ \/ /\ sent[i] < Pieces /\ sent' = Set(sent, i, sent[i] + 1)
        /\ feeder' = Set(feeder, i, "write") /\ UNCHANGED <<attempt, failure>>
     \/ /\ sent[i] = Pieces /\ feeder' = Set(feeder, i, "close")
        /\ UNCHANGED <<sent, attempt, failure>>
     \/ /\ attempt[i] < Retries /\ attempt' = Set(attempt, i, attempt[i] + 1)
        /\ sent' = Set(sent, i, 0) /\ UNCHANGED <<feeder, failure>>
     \/ /\ \E kind \in {"kept", "swallowed"} : Raises(i, kind)
        /\ UNCHANGED <<sent, attempt>>
  /\ UNCHANGED <<loopVars, player, iptal, hata, stdin_open, producer, kutu>>

(* besle: a cancelled playback or a dead player, whose pipe raises, ends the   *)
(* loop.                                                                        *)
Write(i) ==
  /\ feeder[i] = "write"
  /\ feeder' = Set(feeder, i, IF iptal[i] \/ player[i] # "playing" THEN "close" ELSE "pull")
  /\ UNCHANGED <<loopVars, player, iptal, hata, stdin_open, source>>

(* The errors a dead player's pipe raises (BrokenPipeError, ValueError,        *)
(* OSError) are passed over, also when it was the synthesiser that raised one; *)
(* any other is put where the loop will look.  Then the pipe is closed.        *)
KeepError_Fault(i) ==
  /\ feeder[i] = "failed"
  /\ IF stdin_open[i] THEN stdin_open' = Set(stdin_open, i, FALSE) /\ UNCHANGED <<hata, feeder>>
     ELSE /\ hata' = Set(hata, i, failure[i] = "kept") /\ feeder' = Set(feeder, i, "close")
          /\ UNCHANGED stdin_open
  /\ UNCHANGED <<loopVars, player, iptal, source>>
KeepError(i) ==
  /\ feeder[i] = "failed" /\ hata' = Set(hata, i, failure[i] = "kept")
  /\ feeder' = Set(feeder, i, "close")
  /\ UNCHANGED <<loopVars, player, iptal, stdin_open, source>>

StillOpen_Fault(i) == hata[i]
StillOpen(i) == FALSE
CloseStdin(i) ==
  /\ feeder[i] = "close" /\ feeder' = Set(feeder, i, "done")
  /\ stdin_open' = Set(stdin_open, i, StillOpen(i))
  /\ UNCHANGED <<loopVars, player, iptal, hata, source>>

(* The player plays out what it got and ends when its input is closed; it may  *)
(* also die before.  A player is an external program.                          *)
PlayerEnds(i) ==
  /\ player[i] = "playing" /\ ~stdin_open[i] /\ player' = Set(player, i, "gone")
  /\ UNCHANGED <<loopVars, feeder, iptal, hata, stdin_open, source>>
PlayerDies(i) ==
  /\ player[i] = "playing" /\ player' = Set(player, i, "died")
  /\ UNCHANGED <<loopVars, feeder, iptal, hata, stdin_open, source>>

Feeding(i) == \/ PullEdge(i) \/ PullEleven(i) \/ Write(i)
              \/ KeepError(i) \/ CloseStdin(i)

PlayNext ==
  \/ Typed \/ AnswerArrives \/ \E blank \in BOOLEAN : Look(blank)
  \/ \E i \in Playing : Produce(i) \/ Feeding(i) \/ PlayerEnds(i) \/ PlayerDies(i)

(* The threads and the player run on; nobody has to type.                      *)
PlayFairness == \A i \in Playing : /\ WF_playVars(Produce(i)) /\ WF_playVars(Feeding(i))
                                   /\ WF_playVars(PlayerEnds(i))
PlaySpec == PlayInit /\ [][PlayNext]_playVars /\ PlayFairness

-----------------------------------------------------------------------------
PlayTypeOK ==
  /\ player \in [Playing -> {"none", "playing", "gone", "died"}]
  /\ feeder \in [Playing -> {"none", "pull", "write", "failed", "close", "done"}]
  /\ \A i \in Playing : sent[i] \in 0..Pieces /\ Len(kutu[i]) <= SoundQueueLimit
  /\ attempt \in [Playing -> 0..Retries] /\ producer \in [Playing -> 0..(Pieces + 2)]
  /\ failure \in [Playing -> {"none", "kept", "swallowed"}]
  /\ reported \subseteq Playing

(* JARVIS never talks over himself: when an answer is being played, no player  *)
(* of an earlier one is alive (__main__.py:91-107).                            *)
SpeaksAlone ==
  \A i, j \in Playing : player[i] = "playing" /\ player[j] = "playing" => i = j

(* An error of the synthesiser is born on the feeder's thread and must not be  *)
(* lost (tts.py:380-383): it is told of a playback that came to its end by     *)
(* itself once the loop has looked at it, and of no other kind of playback.    *)
(* This is the code's promise for the synthesiser's own errors, TTSError above  *)
(* all: an error of one of the kinds that are passed over ends an answer       *)
(* untold.                                                                     *)
ErrorsAreReported ==
  /\ \A i \in 1..answers :
       (failure[i] = "kept" /\ player[i] = "gone" /\ ~iptal[i] /\ (i < answers \/ ~oynatim))
         => i \in reported
  /\ \A i \in reported : failure[i] = "kept"

(* A playback that was started comes to its end: the feeder stops and the      *)
(* player is gone, whether the sound was complete, failed or cut.              *)
PlaybackEnds ==
  \A i \in Playing : feeder[i] = "pull" ~> feeder[i] = "done" /\ player[i] # "playing"

\* What the console's voice promises: one answer is heard at a time, and an
\* answer the synthesiser gave up with an error of its own is reported.
PlaybackIsOrderly == PlayTypeOK /\ SpeaksAlone /\ ErrorsAreReported
=============================================================================

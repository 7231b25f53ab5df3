---------------------------- MODULE PanelProofs -----------------------------
(***************************************************************************)
(* Theorems about the two programs that own the threads: the panel process *)
(* for any loops and options, and the console's playback for any number of *)
(* answers, pieces, retries and any size of the queue of sound.            *)
(***************************************************************************)
EXTENDS PanelProcess, Playback, TLAPS

-----------------------------------------------------------------------------
(***************************************************************************)
(* PanelProcess. ProcessIsOrderly is inductive with the order of a start:  *)
(* nothing is served before the port is bound, and the port is bound after *)
(* the token was chosen; and of a stop: only a panel past its joins has    *)
(* closed anything.                                                        *)
(***************************************************************************)

\* Nothing is served before the port is bound, and the port is bound after
\* the token was chosen; only a panel past its joins has closed anything.
TokenBeforeService ==
    /\ IF mainAt = "preparing" THEN token = NoToken ELSE token = ChosenToken(options)
    /\ mainAt \in {"preparing", "binding"} => http = "none"
    /\ http = "none" => served.what = "nothing"
PanelInv ==
    /\ ProcessIsOrderly
    /\ TokenBeforeService
    /\ closed => mainAt \in {"closing_vision", "closing_voice", "stopped"}
    /\ mainAt = "closing_voice" => "vision" \notin busy

LEMMA PanelInitInv == PanelInit => PanelInv
  <1>. SUFFICES ASSUME PanelInit PROVE PanelInv
    OBVIOUS
  <1>1. NotServed \in [what : {"nothing"} \cup Open \cup Gated, proved : BOOLEAN,
                      answer : {"none", "answered", "rejected"}]
    BY DEF NotServed
  <1>2. PanelTypeOK
    BY <1>1 DEF PanelInit, PanelTypeOK, NoToken
  <1>3. served.what = "nothing"
    BY DEF PanelInit, NotServed
  <1>. QED
    BY <1>2, <1>3 DEF PanelInit, PanelInv, ProcessIsOrderly, OnlyHoldersAreServed,
                      ClosedAfterItsUsers, TokenBeforeService, Gated

LEMMA PrepareInv ==
    ASSUME PanelInv, NEW ready \in BOOLEAN, Prepare(ready)
    PROVE  PanelInv'
  <1>1. PanelTypeOK'
    BY DEF PanelInv, ProcessIsOrderly, PanelTypeOK, Prepare, ChosenToken, VoiceAfter, NoToken
  <1>2. OnlyHoldersAreServed' /\ TokenBeforeService' /\ ClosedAfterItsUsers'
    BY DEF PanelInv, ProcessIsOrderly, OnlyHoldersAreServed, TokenBeforeService,
           ClosedAfterItsUsers, Prepare, Gated, ChosenToken
  <1>. QED
    BY <1>1, <1>2 DEF PanelInv, ProcessIsOrderly, Prepare

\* The main thread's other steps serve no request and choose no token.
MainStep ==
    \/ \E free \in BOOLEAN : Bind(free)
    \/ \E l \in Loops : StartLoop(l)
    \/ \E l \in Loops : GiveUpOn(l)
    \/ Serve \/ StopServer \/ Close \/ CloseVision \/ CloseVoice \/ Interrupt
    \/ \E what \in {"vision", "voice"} : BeginWork(what) \/ EndWork(what)

LEMMA MainStepInv == PanelInv /\ MainStep => PanelInv'
  <1>. SUFFICES ASSUME PanelInv, MainStep PROVE PanelInv'
    OBVIOUS
  <1>1. PanelTypeOK'
    <2>1. CASE \E what \in {"vision", "voice"} : BeginWork(what) \/ EndWork(what)
      <3>1. busy' \subseteq {"vision", "voice"}
        BY <2>1 DEF PanelInv, ProcessIsOrderly, PanelTypeOK, BeginWork, EndWork
      <3>2. UNCHANGED <<mainAt, prepared, http, stopFlag, loop, givenUp, closed, cookie, served>>
        BY <2>1 DEF BeginWork, EndWork
      <3>. QED
        BY <3>1, <3>2 DEF PanelInv, ProcessIsOrderly, PanelTypeOK, prepared
    <2>2. CASE Interrupt
      BY <2>2 DEF PanelInv, ProcessIsOrderly, PanelTypeOK, Interrupt, prepared
    <2>3. CASE \E free \in BOOLEAN : Bind(free)
      BY <2>3 DEF PanelInv, ProcessIsOrderly, PanelTypeOK, Bind, prepared
    <2>4. CASE \E l \in Loops : StartLoop(l) \/ GiveUpOn(l)
      BY <2>4 DEF PanelInv, ProcessIsOrderly, PanelTypeOK, StartLoop, GiveUpOn, prepared
    <2>5. CASE Serve \/ StopServer \/ Close \/ CloseVision \/ CloseVoice
      BY <2>5 DEF PanelInv, ProcessIsOrderly, PanelTypeOK, Serve, StopServer, Close,
                  CloseVision, CloseVoice, prepared
    <2>. QED
      BY <2>1, <2>2, <2>3, <2>4, <2>5 DEF MainStep
  <1>2. UNCHANGED <<prepared, served>>
    BY DEF MainStep, Bind, StartLoop, GiveUpOn, Serve, StopServer, Close, CloseVision, CloseVoice,
           BeginWork, EndWork, Interrupt
  <1>3. OnlyHoldersAreServed'
    BY <1>2 DEF PanelInv, ProcessIsOrderly, OnlyHoldersAreServed, prepared
  <1>4. TokenBeforeService'
    BY <1>2 DEF PanelInv, ProcessIsOrderly, PanelTypeOK, TokenBeforeService, ChosenToken,
                prepared, MainStep, Bind, StartLoop, GiveUpOn, Serve, StopServer, Close,
                CloseVision, CloseVoice, BeginWork, EndWork, Interrupt
  <1>5. /\ ClosedAfterItsUsers' /\ (mainAt = "closing_voice" => "vision" \notin busy)'
        /\ (closed => mainAt \in {"closing_vision", "closing_voice", "stopped"})'
    BY DEF PanelInv, ProcessIsOrderly, PanelTypeOK, ClosedAfterItsUsers, MainStep, Bind,
           StartLoop, GiveUpOn, Serve, StopServer, Close, CloseVision, CloseVoice, BeginWork, EndWork, Closing,
           Interrupt, Joined, prepared
  <1>. QED
    BY <1>1, <1>3, <1>4, <1>5 DEF PanelInv, ProcessIsOrderly

LEMMA LoopActsInv == PanelInv /\ LoopActs => PanelInv'
  <1>. SUFFICES ASSUME PanelInv, NEW l \in Loops, LoopStep(l) \/ Worked(l)
                PROVE  PanelInv'
    BY DEF LoopActs
  <1>1. UNCHANGED <<mainAt, prepared, http, stopFlag, givenUp, closed, busy, cookie, served>>
    BY DEF LoopStep, Worked
  <1>2. PanelTypeOK'
    BY <1>1 DEF PanelInv, ProcessIsOrderly, PanelTypeOK, LoopStep, Worked, Step, prepared
  <1>3. OnlyHoldersAreServed' /\ TokenBeforeService'
    BY <1>1 DEF PanelInv, ProcessIsOrderly, OnlyHoldersAreServed, TokenBeforeService,
                ChosenToken, prepared
  <1>4. ClosedAfterItsUsers'
    BY <1>1 DEF PanelInv, ProcessIsOrderly, PanelTypeOK, ClosedAfterItsUsers, LoopStep,
                Worked, Step
  <1>. QED
    BY <1>1, <1>2, <1>3, <1>4 DEF PanelInv, ProcessIsOrderly

LEMMA RequestInv ==
    ASSUME PanelInv, NEW what \in Open \cup Gated, NEW c \in Credentials, Request(what, c)
    PROVE  PanelInv'
  <1>1. Authorised(c) \in BOOLEAN
    BY DEF Authorised
  <1>2. PanelTypeOK'
    BY <1>1 DEF PanelInv, ProcessIsOrderly, PanelTypeOK, Request, prepared
  <1>3. TokenBeforeService' /\ mainAt # "preparing"
    BY DEF PanelInv, TokenBeforeService, Request, prepared, ChosenToken
  <1>4. OnlyHoldersAreServed'
    <2>. SUFFICES ASSUME what \in Gated, Admits(what, c), ~options.local, ~options.tokenless
                  PROVE  Authorised(c) /\ token # NoToken
      BY <1>1 DEF OnlyHoldersAreServed, Request, prepared
    <2>1. Authorised(c)
      BY DEF Admits, Open, Gated
    <2>2. token # NoToken
      BY <1>3 DEF PanelInv, TokenBeforeService, ChosenToken, NoToken
    <2>. QED
      BY <2>1, <2>2
  <1>5. /\ ClosedAfterItsUsers' /\ (mainAt = "closing_voice" => "vision" \notin busy)'
        /\ (closed => mainAt \in {"closing_vision", "closing_voice", "stopped"})'
    BY DEF PanelInv, ProcessIsOrderly, ClosedAfterItsUsers, Request
  <1>. QED
    BY <1>2, <1>3, <1>4, <1>5 DEF PanelInv, ProcessIsOrderly

LEMMA PanelStepInv == PanelInv /\ [PanelNext]_processVars => PanelInv'
  <1>. SUFFICES ASSUME PanelInv, [PanelNext]_processVars PROVE PanelInv'
    OBVIOUS
  <1>1. CASE \E ready \in BOOLEAN : Prepare(ready)
    BY <1>1, PrepareInv
  <1>2. CASE MainStep
    BY <1>2, MainStepInv
  <1>3. CASE LoopActs
    BY <1>3, LoopActsInv
  <1>4. CASE \E what \in Open \cup Gated, c \in Credentials : Request(what, c)
    BY <1>4, RequestInv
  <1>5. CASE UNCHANGED processVars
    BY <1>5 DEF PanelInv, ProcessIsOrderly, PanelTypeOK, OnlyHoldersAreServed,
                ClosedAfterItsUsers, TokenBeforeService, ChosenToken, processVars
  <1>. QED
    BY <1>1, <1>2, <1>3, <1>4, <1>5 DEF PanelNext, PanelStep, MainStep

\* From the start to the stop, whatever loops there are: nobody beyond this
\* machine is served without the token, and nothing is closed under a loop
\* that was not given up on or under a request's work.
THEOREM PanelStaysOrderly == PanelSpec => []ProcessIsOrderly
  <1>1. PanelInv => ProcessIsOrderly
    BY DEF PanelInv
  <1>. QED
    BY <1>1, PanelInitInv, PanelStepInv, PTL DEF PanelSpec

-----------------------------------------------------------------------------
(***************************************************************************)
(* Playback. PlaybackIsOrderly is inductive with who may still be heard:   *)
(* the one playback that the loop holds, until it has looked at it; and    *)
(* with the order of an ending: the input of a player is closed by a       *)
(* feeder that is through, and an uncut player goes after that.            *)
(***************************************************************************)

Marks == 0 .. (Pieces + 2)
LoopTypes ==
    /\ provider \in {"edge", "elevenlabs"}
    /\ speak \in BOOLEAN /\ oynatim \in BOOLEAN
    /\ prompt \in {"input", "look", "ask"}
    /\ answers \in 0 .. MaxAnswers
    /\ reported \subseteq Playing
PlayerStates == {"none", "playing", "gone", "died"}
FeederStates == {"none", "pull", "write", "failed", "close", "done"}
ThreadTypes ==
    /\ player \in [Playing -> PlayerStates]
    /\ feeder \in [Playing -> FeederStates]
    /\ iptal \in [Playing -> BOOLEAN]
    /\ hata \in [Playing -> BOOLEAN]
    /\ stdin_open \in [Playing -> BOOLEAN]
Failures == {"none", "kept", "swallowed"}
SoundTypes ==
    /\ failure \in [Playing -> Failures]
    /\ sent \in [Playing -> 0 .. Pieces]
    /\ attempt \in [Playing -> 0 .. Retries]
    /\ producer \in [Playing -> Marks]
    /\ kutu \in [Playing -> {q \in Seq(Marks) : Len(q) <= SoundQueueLimit}]
PlayTypes == LoopTypes /\ ThreadTypes /\ SoundTypes

\* The loop holds a playback only until it has looked at it, and only the
\* playback it holds can still be heard.
HeldAlone ==
    /\ oynatim => answers # 0
    /\ prompt = "ask" => ~oynatim
    /\ \A i \in Playing : player[i] = "playing" => i = answers /\ oynatim /\ prompt = "input"
\* The input of a player is closed by a feeder that is through, and a player
\* that was not cut is gone only after that.
DoneBeforeGone ==
    \A i \in Playing :
      /\ ~stdin_open[i] => feeder[i] = "done"
      /\ player[i] = "gone" /\ ~iptal[i] => ~stdin_open[i]
      /\ i > answers => /\ player[i] = "none" /\ feeder[i] = "none"
                       /\ ~hata[i] /\ stdin_open[i]
\* What the feeder kept is told of a playback that ended by itself, and it
\* has kept what the synthesiser raised, once it is past it.
KeptIsReported ==
    \A i \in 1 .. answers :
      (hata[i] /\ player[i] = "gone" /\ ~iptal[i] /\ (i < answers \/ ~oynatim))
        => i \in reported
FailureIsKept ==
    \A i \in Playing :
      /\ failure[i] # "none" => feeder[i] \in {"failed", "close", "done"}
      /\ failure[i] = "kept" => feeder[i] = "failed" \/ hata[i]
      /\ hata[i] => failure[i] = "kept" /\ feeder[i] \in {"close", "done"}
      /\ i \in reported => hata[i]
PlayInv == PlayTypes /\ HeldAlone /\ DoneBeforeGone /\ KeptIsReported /\ FailureIsKept

LEMMA SetKeeps ==
    ASSUME NEW D, NEW R, NEW f \in [D -> R], NEW i \in D, NEW x \in R
    PROVE  /\ Set(f, i, x) \in [D -> R]
           /\ Set(f, i, x)[i] = x
           /\ \A j \in D : j # i => Set(f, i, x)[j] = f[j]
  BY Zenon DEF Set

LEMMA PlayInvIsEnough == PlayInv => PlaybackIsOrderly
  <1>. SUFFICES ASSUME PlayInv PROVE PlayTypeOK /\ SpeaksAlone /\ ErrorsAreReported
    BY DEF PlaybackIsOrderly
  <1>1. PlayTypeOK
    BY DEF PlayInv, PlayTypes, LoopTypes, ThreadTypes, SoundTypes, PlayTypeOK, Marks,
           PlayerStates, FeederStates, Failures
  <1>2. SpeaksAlone
    BY DEF PlayInv, HeldAlone, SpeaksAlone
  <1>3. ErrorsAreReported
    <2>1. /\ answers \in 0 .. MaxAnswers /\ reported \subseteq Playing
      BY DEF PlayInv, PlayTypes, LoopTypes
    <2>2. ASSUME NEW i \in 1 .. answers, failure[i] = "kept", player[i] = "gone", ~iptal[i]
          PROVE  hata[i]
      <3>1. i \in Playing
        BY <2>1, PlaybackAssumption DEF Playing
      <3>2. feeder[i] = "done"
        BY <2>2, <3>1 DEF PlayInv, DoneBeforeGone
      <3>. QED
        BY <2>2, <3>1, <3>2 DEF PlayInv, FailureIsKept
    <2>3. \A i \in reported : failure[i] = "kept"
      BY <2>1 DEF PlayInv, FailureIsKept
    <2>. QED
      BY <2>2, <2>3 DEF PlayInv, KeptIsReported, ErrorsAreReported
  <1>. QED
    BY <1>1, <1>2, <1>3

LEMMA PlayInitInv == PlayInit => PlayInv
  <1>. SUFFICES ASSUME PlayInit PROVE PlayInv
    OBVIOUS
  <1>0. LoopTypes
    <2>1. speak \in BOOLEAN /\ oynatim \in BOOLEAN
      BY Zenon DEF PlayInit
    <2>. QED
      BY <2>1, PlaybackAssumption DEF PlayInit, LoopTypes
  <1>1. ThreadTypes
    BY Zenon DEF PlayInit, ThreadTypes, PlayerStates, FeederStates
  <1>2. SoundTypes
    BY PlaybackAssumption DEF PlayInit, SoundTypes, Marks, Failures
  <1>3. HeldAlone /\ DoneBeforeGone /\ KeptIsReported /\ FailureIsKept
    BY PlaybackAssumption
    DEF PlayInit, HeldAlone, DoneBeforeGone, KeptIsReported, FailureIsKept, Playing
  <1>. QED
    BY <1>0, <1>1, <1>2, <1>3 DEF PlayInv, PlayTypes

\* What one playback's thread or player may become without losing its type.
LEMMA ThreadSteps ==
    ASSUME ThreadTypes, NEW i \in Playing
    PROVE  /\ \A x \in PlayerStates : Set(player, i, x) \in [Playing -> PlayerStates]
           /\ \A x \in FeederStates : Set(feeder, i, x) \in [Playing -> FeederStates]
           /\ \A x \in BOOLEAN : /\ Set(iptal, i, x) \in [Playing -> BOOLEAN]
                               /\ Set(hata, i, x) \in [Playing -> BOOLEAN]
                               /\ Set(stdin_open, i, x) \in [Playing -> BOOLEAN]
  BY Zenon DEF ThreadTypes, Set

\* The loop's steps.
LEMMA TypedPlays == PlayInv /\ Typed => PlayInv'
  <1>. SUFFICES ASSUME PlayInv, Typed PROVE PlayInv'
    OBVIOUS
  <1>. USE PlaybackAssumption
  <1>. UNCHANGED <<provider, speak, answers, oynatim, feeder, hata, stdin_open, source,
                   reported>> /\ prompt = "input" /\ prompt' = "look"
    BY DEF Typed
  <1>0. LoopTypes' /\ SoundTypes'
    BY DEF PlayInv, PlayTypes, LoopTypes, SoundTypes, source
  <1>1. CASE oynatim /\ player[answers] = "playing"
    <2>1. answers \in Playing
      BY <1>1 DEF PlayInv, PlayTypes, LoopTypes, HeldAlone, Playing
    <2>2. iptal' = Set(iptal, answers, TRUE) /\ player' = Set(player, answers, "gone")
      BY <1>1 DEF Typed
    <2>3. ThreadTypes'
      BY <2>1, <2>2, ThreadSteps DEF PlayInv, PlayTypes, ThreadTypes, PlayerStates
    <2>4. /\ \A j \in Playing : j # answers => player'[j] = player[j] /\ iptal'[j] = iptal[j]
          /\ player'[answers] = "gone" /\ iptal'[answers]
      BY <2>1, <2>2 DEF PlayInv, PlayTypes, ThreadTypes, Set
    <2>7. FailureIsKept'
      BY DEF PlayInv, FailureIsKept, source
    <2>5. HeldAlone' /\ DoneBeforeGone'
      BY <2>1, <2>4 DEF PlayInv, HeldAlone, DoneBeforeGone, PlayTypes, LoopTypes
    <2>6. KeptIsReported'
      BY <2>1, <2>4 DEF PlayInv, KeptIsReported, PlayTypes, LoopTypes, Playing
    <2>. QED
      BY <1>0, <2>3, <2>5, <2>6, <2>7 DEF PlayInv, PlayTypes
  <1>2. CASE ~(oynatim /\ player[answers] = "playing")
    <2>1. UNCHANGED <<iptal, player>>
      BY <1>2 DEF Typed
    <2>2. HeldAlone'
      BY <1>2, <2>1 DEF PlayInv, HeldAlone
    <2>. QED
      BY <1>0, <2>1, <2>2
      DEF PlayInv, PlayTypes, ThreadTypes, DoneBeforeGone, KeptIsReported, FailureIsKept, source
  <1>. QED
    BY <1>1, <1>2

LEMMA LookPlays ==
    ASSUME PlayInv, NEW blank \in BOOLEAN, Look(blank)
    PROVE  PlayInv'
  <1>. USE PlaybackAssumption
  <1>. UNCHANGED <<provider, answers, player, feeder, iptal, hata, stdin_open, source>>
    BY DEF Look
  <1>1. ThreadTypes' /\ SoundTypes' /\ DoneBeforeGone'
    BY DEF PlayInv, PlayTypes, ThreadTypes, SoundTypes, DoneBeforeGone, source
  <1>2. oynatim => answers \in Playing
    BY DEF PlayInv, PlayTypes, LoopTypes, HeldAlone, Playing
  <1>3. LoopTypes'
    BY <1>2 DEF PlayInv, PlayTypes, LoopTypes, Look
  <1>4. HeldAlone'
    BY DEF PlayInv, HeldAlone, Look
  <1>5. KeptIsReported'
    BY DEF PlayInv, PlayTypes, LoopTypes, KeptIsReported, Look
  <1>6. FailureIsKept'
    <2>1. \A i \in reported' : i \in reported \/ hata[i]
      BY DEF Look
    <2>. QED
      BY <2>1 DEF PlayInv, FailureIsKept, source
  <1>. QED
    BY <1>1, <1>3, <1>4, <1>5, <1>6 DEF PlayInv, PlayTypes

LEMMA AnswerPlays == PlayInv /\ AnswerArrives => PlayInv'
  <1>. SUFFICES ASSUME PlayInv, AnswerArrives PROVE PlayInv'
    OBVIOUS
  <1>. USE PlaybackAssumption
  <1>. /\ UNCHANGED <<provider, iptal, hata, stdin_open, source, reported>>
       /\ prompt = "ask" /\ prompt' = "input"
    BY DEF AnswerArrives
  <1>0. SoundTypes'
    BY DEF PlayInv, PlayTypes, SoundTypes, source
  <1>1. CASE UNCHANGED <<answers, oynatim, player, feeder>> /\ speak' \in BOOLEAN
    BY <1>0, <1>1 DEF PlayInv, PlayTypes, LoopTypes, ThreadTypes, HeldAlone, DoneBeforeGone,
                      KeptIsReported, FailureIsKept, source
  <1>2. CASE /\ answers < MaxAnswers /\ answers' = answers + 1 /\ oynatim'
             /\ player' = Set(player, answers + 1, "playing")
             /\ feeder' = Set(feeder, answers + 1, "pull")
             /\ UNCHANGED speak /\ oynatim' \in BOOLEAN
    <2>. DEFINE new == answers + 1
    <2>1. new \in Playing /\ new > answers /\ answers \in Nat
      BY <1>2 DEF PlayInv, PlayTypes, LoopTypes, Playing
    <2>2. ThreadTypes'
      BY <1>2, <2>1, ThreadSteps
      DEF PlayInv, PlayTypes, ThreadTypes, PlayerStates, FeederStates
    <2>3. LoopTypes'
      BY <1>2 DEF PlayInv, PlayTypes, LoopTypes
    <2>4. /\ player'[new] = "playing"
          /\ \A j \in Playing : j # new => player'[j] = player[j] /\ feeder'[j] = feeder[j]
      BY <1>2, <2>1 DEF PlayInv, PlayTypes, ThreadTypes, Set
    <2>. HIDE DEF new
    <2>5. answers' = new /\ oynatim'
      BY <1>2 DEF new
    <2>6. \A j \in Playing : player[j] # "playing"
      BY DEF PlayInv, HeldAlone
    <2>7. HeldAlone'
      BY <2>1, <2>4, <2>5, <2>6 DEF HeldAlone
    <2>8. stdin_open[new] /\ ~hata[new]
      BY <2>1 DEF PlayInv, DoneBeforeGone
    <2>9. DoneBeforeGone'
      BY <2>1, <2>4, <2>5, <2>8 DEF PlayInv, DoneBeforeGone, Playing
    <2>10. ASSUME NEW j \in (1 .. answers)', (player[j] = "gone")'
           PROVE  j \in 1 .. answers /\ player[j] = "gone"
      BY <2>1, <2>4, <2>5, <2>10, <1>2 DEF Playing, new
    <2>11. KeptIsReported'
      BY <2>10 DEF PlayInv, HeldAlone, KeptIsReported
    <2>12. feeder[new] = "none" /\ feeder'[new] # "failed"
      BY <1>2, <2>1 DEF PlayInv, DoneBeforeGone, PlayTypes, ThreadTypes, Set, new
    <2>13. FailureIsKept'
      BY <2>4, <2>12 DEF PlayInv, FailureIsKept, source
    <2>. QED
      BY <1>0, <2>2, <2>3, <2>7, <2>9, <2>11, <2>13 DEF PlayInv, PlayTypes
  <1>. QED
    BY <1>1, <1>2 DEF AnswerArrives, PlayInv, PlayTypes, LoopTypes

\* A step of the threads that only moves sound and feeders that are not
\* through.
LEMMA SoundPlays ==
    ASSUME PlayInv, SoundTypes', ThreadTypes',
           UNCHANGED <<loopVars, player, iptal, hata, stdin_open>>,
           \A j \in Playing : feeder[j] \in {"none", "done"} => feeder'[j] = feeder[j],
           FailureIsKept'
    PROVE  PlayInv'
  <1>1. LoopTypes' /\ HeldAlone' /\ KeptIsReported'
    BY DEF PlayInv, PlayTypes, LoopTypes, HeldAlone, KeptIsReported, loopVars
  <1>2. DoneBeforeGone'
    BY DEF PlayInv, DoneBeforeGone, loopVars
  <1>. QED
    BY <1>1, <1>2 DEF PlayInv, PlayTypes

\* A pull that ends in an error, and one that does not.
LEMMA FailureMoves ==
    ASSUME PlayInv, NEW i \in Playing, feeder[i] \in {"pull", "write"},
           UNCHANGED <<hata, loopVars>>,
           \/ \E kind \in {"kept", "swallowed"} : Raises(i, kind)
           \/ UNCHANGED failure /\ \E x \in FeederStates : feeder' = Set(feeder, i, x)
    PROVE  FailureIsKept' /\ failure' \in [Playing -> Failures]
  <1>. /\ failure \in [Playing -> Failures] /\ feeder \in [Playing -> FeederStates]
       /\ FailureIsKept /\ UNCHANGED <<hata, reported>>
    BY DEF PlayInv, PlayTypes, ThreadTypes, SoundTypes, loopVars
  <1>0. failure[i] = "none" /\ ~hata[i]
    BY DEF FailureIsKept, Failures
  <1>1. \A j \in Playing : j # i => feeder'[j] = feeder[j] /\ failure'[j] = failure[j]
    BY DEF Raises, Set
  <1>2. ASSUME NEW kind \in {"kept", "swallowed"}, Raises(i, kind)
        PROVE  FailureIsKept' /\ failure' \in [Playing -> Failures]
    <2>1. failure'[i] = kind /\ feeder'[i] = "failed"
      BY <1>2 DEF Raises, Set
    <2>2. failure' \in [Playing -> Failures]
      BY <1>2 DEF Raises, Set, Failures
    <2>. QED
      BY <1>0, <1>1, <2>1, <2>2 DEF FailureIsKept
  <1>3. CASE UNCHANGED failure
    BY <1>0, <1>1, <1>3 DEF FailureIsKept
  <1>. QED
    BY <1>2, <1>3

LEMMA ProducePlays ==
    ASSUME PlayInv, NEW i \in Playing, Produce(i)
    PROVE  PlayInv'
  <1>. USE PlaybackAssumption
  <1>1. PICK m \in Marks : kutu' = Set(kutu, i, Append(kutu[i], m))
    BY DEF PlayInv, PlayTypes, SoundTypes, Produce, Marks, Error, EndMark
  <1>2. Append(kutu[i], m) \in {q \in Seq(Marks) : Len(q) <= SoundQueueLimit}
    BY DEF PlayInv, PlayTypes, SoundTypes, Produce
  <1>3. PICK p \in Marks : producer' = Set(producer, i, p)
    BY DEF PlayInv, PlayTypes, SoundTypes, Produce, Marks
  <1>4. SoundTypes'
    BY <1>1, <1>2, <1>3 DEF PlayInv, PlayTypes, SoundTypes, Produce, Set
  <1>5. FailureIsKept'
    BY DEF Produce, PlayInv, FailureIsKept, loopVars
  <1>. QED
    BY <1>4, <1>5, SoundPlays DEF Produce, PlayInv, PlayTypes, ThreadTypes

LEMMA FeederMoves ==
    ASSUME PlayInv, NEW i \in Playing, NEW x \in FeederStates, feeder[i] \notin {"none", "done"},
           feeder' = Set(feeder, i, x)
    PROVE  /\ feeder' \in [Playing -> FeederStates]
           /\ \A j \in Playing : feeder[j] \in {"none", "done"} => feeder'[j] = feeder[j]
  BY DEF PlayInv, PlayTypes, ThreadTypes, Set

LEMMA PullEdgePlays ==
    ASSUME PlayInv, NEW i \in Playing, PullEdge(i)
    PROVE  PlayInv'
  <1>. USE PlaybackAssumption
  <1>1. kutu[i] # <<>> => /\ kutu[i][1] \in Marks
                          /\ Tail(kutu[i]) \in Seq(Marks)
                          /\ Len(Tail(kutu[i])) <= SoundQueueLimit
    BY DEF PlayInv, PlayTypes, SoundTypes
  <1>2. kutu' \in [Playing -> {q \in Seq(Marks) : Len(q) <= SoundQueueLimit}]
    BY <1>1 DEF PlayInv, PlayTypes, SoundTypes, PullEdge, Set
  <1>3. sent' \in [Playing -> 0 .. Pieces]
    <2>1. kutu[i] # <<>> /\ kutu[i][1] <= Pieces => kutu[i][1] \in 0 .. Pieces
      BY <1>1 DEF Marks
    <2>2. UNCHANGED sent \/ \E x \in 0 .. Pieces : sent' = Set(sent, i, x)
      BY <2>1 DEF PullEdge
    <2>. QED
      BY <2>2 DEF PlayInv, PlayTypes, SoundTypes, Set
  <1>5. \E x \in FeederStates : feeder' = Set(feeder, i, x)
    BY DEF PullEdge, Raises, FeederStates
  <1>7. FailureIsKept' /\ failure' \in [Playing -> Failures]
    BY FailureMoves DEF PullEdge, FeederStates
  <1>4. SoundTypes'
    BY <1>2, <1>3, <1>7 DEF PlayInv, PlayTypes, SoundTypes, PullEdge
  <1>6. feeder[i] \notin {"none", "done"} /\ UNCHANGED <<loopVars, player, iptal, hata, stdin_open>>
    BY DEF PullEdge
  <1>. QED
    BY <1>4, <1>5, <1>6, <1>7, FeederMoves, SoundPlays DEF PlayInv, PlayTypes, ThreadTypes

LEMMA PullElevenPlays ==
    ASSUME PlayInv, NEW i \in Playing, PullEleven(i)
    PROVE  PlayInv'
  <1>. USE PlaybackAssumption
  <1>0. UNCHANGED <<producer, kutu>> /\ sent[i] \in 0 .. Pieces /\ attempt[i] \in 0 .. Retries
    BY DEF PlayInv, PlayTypes, SoundTypes, PullEleven
  <1>4. Set(feeder, i, "pull") = feeder
    BY DEF PlayInv, PlayTypes, ThreadTypes, PullEleven, Set
  <1>5. FailureIsKept' /\ failure' \in [Playing -> Failures]
    BY <1>4, FailureMoves DEF PullEleven, FeederStates
  <1>1. SoundTypes'
    <2>1. UNCHANGED sent \/ \E x \in 0 .. Pieces : sent' = Set(sent, i, x)
      BY <1>0 DEF PullEleven
    <2>2. UNCHANGED attempt \/ \E x \in 0 .. Retries : attempt' = Set(attempt, i, x)
      BY <1>0 DEF PullEleven
    <2>3. sent' \in [Playing -> 0 .. Pieces]
      BY <2>1 DEF PlayInv, PlayTypes, SoundTypes, Set
    <2>4. attempt' \in [Playing -> 0 .. Retries]
      BY <2>2 DEF PlayInv, PlayTypes, SoundTypes, Set
    <2>. QED
      BY <1>0, <1>5, <2>3, <2>4 DEF PlayInv, PlayTypes, SoundTypes
  <1>2. feeder[i] \notin {"none", "done"} /\ UNCHANGED <<loopVars, player, iptal, hata, stdin_open>>
    BY DEF PullEleven
  <1>3. (\E x \in FeederStates : feeder' = Set(feeder, i, x)) \/ UNCHANGED feeder
    BY DEF PullEleven, Raises, FeederStates
  <1>. QED
    BY <1>1, <1>2, <1>3, <1>5, FeederMoves, SoundPlays DEF PlayInv, PlayTypes, ThreadTypes

LEMMA WritePlays ==
    ASSUME PlayInv, NEW i \in Playing, Write(i)
    PROVE  PlayInv'
  <1>1. SoundTypes'
    BY DEF PlayInv, PlayTypes, SoundTypes, Write, source
  <1>2. feeder[i] \notin {"none", "done"} /\ UNCHANGED <<loopVars, player, iptal, hata, stdin_open>>
    BY DEF Write
  <1>3. \E x \in FeederStates : feeder' = Set(feeder, i, x)
    BY DEF Write, FeederStates
  <1>4. FailureIsKept'
    BY <1>3, FailureMoves DEF Write, source
  <1>. QED
    BY <1>1, <1>2, <1>3, <1>4, FeederMoves, SoundPlays DEF PlayInv, PlayTypes, ThreadTypes

\* An error reaches the loop's side before the player's input is closed, so
\* no player can have ended by itself without it.
LEMMA KeepErrorPlays ==
    ASSUME PlayInv, NEW i \in Playing, KeepError(i)
    PROVE  PlayInv'
  <1>. UNCHANGED <<loopVars, player, iptal, stdin_open, source>>
    BY DEF KeepError
  <1>0. i \in Nat /\ answers \in Nat /\ feeder[i] = "failed"
    BY PlaybackAssumption DEF PlayInv, PlayTypes, LoopTypes, Playing, KeepError
  <1>1. stdin_open[i] /\ i <= answers
    BY <1>0 DEF PlayInv, DoneBeforeGone
  <1>2. LoopTypes' /\ SoundTypes' /\ HeldAlone'
    BY DEF PlayInv, PlayTypes, LoopTypes, SoundTypes, HeldAlone, loopVars, source
  <1>3. ThreadTypes'
    BY ThreadSteps DEF PlayInv, PlayTypes, ThreadTypes, KeepError, FeederStates
  <1>4. \A j \in Playing : j # i => hata'[j] = hata[j] /\ feeder'[j] = feeder[j]
    BY DEF PlayInv, PlayTypes, ThreadTypes, KeepError, Set
  <1>5. DoneBeforeGone'
    BY <1>0, <1>1, <1>4 DEF PlayInv, DoneBeforeGone, loopVars
  <1>6. ASSUME NEW j \in 1 .. answers, j # i PROVE j \in Playing /\ hata'[j] = hata[j]
    <2>1. j \in Playing
      BY PlaybackAssumption DEF PlayInv, PlayTypes, LoopTypes, Playing
    <2>. QED
      BY <1>4, <1>6, <2>1
  <1>7. KeptIsReported'
    BY <1>1, <1>6 DEF PlayInv, DoneBeforeGone, KeptIsReported, loopVars
  <1>8. hata'[i] = (failure[i] = "kept") /\ feeder'[i] = "close"
    BY DEF PlayInv, PlayTypes, ThreadTypes, KeepError, Set
  <1>9. FailureIsKept'
    BY <1>0, <1>4, <1>8 DEF PlayInv, FailureIsKept, loopVars, source
  <1>. QED
    BY <1>2, <1>3, <1>5, <1>7, <1>9 DEF PlayInv, PlayTypes

LEMMA CloseStdinPlays ==
    ASSUME PlayInv, NEW i \in Playing, CloseStdin(i)
    PROVE  PlayInv'
  <1>. UNCHANGED <<loopVars, player, iptal, hata, source>>
    BY DEF CloseStdin
  <1>1. LoopTypes' /\ SoundTypes' /\ HeldAlone' /\ KeptIsReported'
    BY DEF PlayInv, PlayTypes, LoopTypes, SoundTypes, HeldAlone, KeptIsReported, loopVars,
           source
  <1>2. ThreadTypes'
    BY ThreadSteps DEF PlayInv, PlayTypes, ThreadTypes, CloseStdin, StillOpen, FeederStates
  <1>0. i \in Nat /\ answers \in Nat /\ feeder[i] = "close"
    BY PlaybackAssumption DEF PlayInv, PlayTypes, LoopTypes, Playing, CloseStdin
  <1>. i <= answers
    BY <1>0 DEF PlayInv, DoneBeforeGone
  <1>3. /\ feeder'[i] = "done"
        /\ \A j \in Playing : j # i => /\ stdin_open'[j] = stdin_open[j]
                                      /\ feeder'[j] = feeder[j]
    BY DEF PlayInv, PlayTypes, ThreadTypes, CloseStdin, Set
  <1>4. ~stdin_open'[i]
    BY DEF PlayInv, PlayTypes, ThreadTypes, CloseStdin, StillOpen, Set
  <1>5. DoneBeforeGone'
    BY <1>0, <1>3, <1>4 DEF PlayInv, DoneBeforeGone, loopVars
  <1>6. FailureIsKept'
    BY <1>0, <1>3 DEF PlayInv, FailureIsKept, loopVars, source
  <1>. QED
    BY <1>1, <1>2, <1>5, <1>6 DEF PlayInv, PlayTypes

LEMMA PlayerPlays ==
    ASSUME PlayInv, NEW i \in Playing, PlayerEnds(i) \/ PlayerDies(i)
    PROVE  PlayInv'
  <1>. UNCHANGED <<loopVars, feeder, iptal, hata, stdin_open, source>>
    BY DEF PlayerEnds, PlayerDies
  <1>0. i = answers /\ oynatim /\ answers \in Nat
    BY DEF PlayInv, PlayTypes, LoopTypes, HeldAlone, PlayerEnds, PlayerDies
  <1>1. LoopTypes' /\ SoundTypes'
    BY DEF PlayInv, PlayTypes, LoopTypes, SoundTypes, loopVars, source
  <1>2. ThreadTypes'
    BY ThreadSteps DEF PlayInv, PlayTypes, ThreadTypes, PlayerEnds, PlayerDies, PlayerStates
  <1>3. \A j \in Playing : j # i => player'[j] = player[j]
    BY DEF PlayInv, PlayTypes, ThreadTypes, PlayerEnds, PlayerDies, Set
  <1>4. \/ player'[i] = "gone" /\ ~stdin_open[i]
        \/ player'[i] = "died"
    BY DEF PlayInv, PlayTypes, ThreadTypes, PlayerEnds, PlayerDies, Set
  <1>5. HeldAlone'
    BY <1>3, <1>4 DEF PlayInv, HeldAlone, loopVars
  <1>6. DoneBeforeGone'
    BY <1>0, <1>3, <1>4 DEF PlayInv, DoneBeforeGone, loopVars
  <1>7. ASSUME NEW j \in 1 .. answers, j # i PROVE j \in Playing /\ player'[j] = player[j]
    <2>1. j \in Playing
      BY PlaybackAssumption DEF PlayInv, PlayTypes, LoopTypes, Playing
    <2>. QED
      BY <1>3, <1>7, <2>1
  <1>8. KeptIsReported'
    BY <1>0, <1>7 DEF PlayInv, KeptIsReported, loopVars
  <1>9. FailureIsKept'
    BY DEF PlayInv, FailureIsKept, loopVars, source
  <1>. QED
    BY <1>1, <1>2, <1>5, <1>6, <1>8, <1>9 DEF PlayInv, PlayTypes

LEMMA PlayStepInv == PlayInv /\ [PlayNext]_playVars => PlayInv'
  <1>. SUFFICES ASSUME PlayInv, [PlayNext]_playVars PROVE PlayInv'
    OBVIOUS
  <1>1. CASE Typed \/ AnswerArrives \/ \E blank \in BOOLEAN : Look(blank)
    BY <1>1, TypedPlays, AnswerPlays, LookPlays
  <1>2. ASSUME NEW i \in Playing, Produce(i) \/ Feeding(i) \/ PlayerEnds(i) \/ PlayerDies(i)
        PROVE  PlayInv'
    BY <1>2, ProducePlays, PullEdgePlays, PullElevenPlays, WritePlays, KeepErrorPlays,
       CloseStdinPlays, PlayerPlays DEF Feeding
  <1>3. CASE UNCHANGED playVars
    BY <1>3 DEF PlayInv, PlayTypes, LoopTypes, ThreadTypes, SoundTypes, HeldAlone,
                DoneBeforeGone, KeptIsReported, FailureIsKept, playVars, source
  <1>. QED
    BY <1>1, <1>2, <1>3 DEF PlayNext

\* The console's voice, for any number of answers, pieces, retries and any
\* size of the queue of sound: one answer is heard at a time, and an error of
\* the synthesiser's own in an answer that ended by itself is told to the user,
\* and nothing else is.
THEOREM PlaybackStaysOrderly == PlaySpec => []PlaybackIsOrderly
  BY PlayInitInv, PlayStepInv, PlayInvIsEnough, PTL DEF PlaySpec
=============================================================================

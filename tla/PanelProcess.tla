---------------------------- MODULE PanelProcess ----------------------------
(***************************************************************************)
(* The panel's process: how main prepares it, who may ask it for anything, *)
(* and how it stops.                                                       *)
(*                                                                         *)
(* main prepares the parts in turn, each of which may fail without         *)
(* stopping the start, then PanelServer.serve_forever binds the port,      *)
(* starts the background loops and serves.  Ctrl-C may come at any moment; *)
(* from serve_forever on it leads to shutdown, which stops the loops, waits*)
(* a while for each, and closes what they use.  The loops' work (external) *)
(* may take longer than anyone waits.  Closing the vision pipeline and a   *)
(* local voice waits, without a limit, for what a request has them do.     *)
(*                                                                         *)
(* An operator named X_Fault is X with a seeded fault.  The specification  *)
(* never uses it: it shows that the properties notice the fault.           *)
(***************************************************************************)
EXTENDS Integers, FiniteSets

CONSTANT Loops   (* telemetry, monitor, reminders, knowledge sync           *)

VARIABLES
    mainAt,      (* where the main thread stands                         *)
    options,     (* the command line's and the environment's choices     *)
    token,       (* PanelServer.token: NoToken, or whose it is           *)
    voice,       (* "silent", "cold" or "warm"                           *)
    http,        (* the HTTP server: "none", "bound", "serving", "ended" *)
    stopFlag,    (* PanelServer._stop                                    *)
    loop,        (* what each background loop does                       *)
    givenUp,     (* the loops whose join timed out (history)             *)
    closed,      (* whether shutdown closed what the loops use           *)
    busy,        (* of "vision" and "voice" what a request has at work   *)
    cookie,      (* whether the browser got the token as a cookie        *)
    served       (* the last request: what it was and what it proved     *)

processVars == <<mainAt, options, token, voice, http, stopFlag, loop, givenUp, closed,
               busy, cookie, served>>
prepared == <<options, token, voice>>

NoToken == "none"
Options == [local : BOOLEAN, tokenless : BOOLEAN, given : BOOLEAN, inEnv : BOOLEAN,
            mute : BOOLEAN, xtts : BOOLEAN]
NotServed == [what |-> "nothing", proved |-> FALSE, answer |-> "none"]

PanelInit ==
    /\ mainAt = "preparing"
    /\ options \in Options
    /\ token = NoToken
    /\ voice = "silent"
    /\ http = "none"
    /\ stopFlag = FALSE
    /\ loop = [l \in Loops |-> "unstarted"]
    /\ givenUp = {}
    /\ closed = FALSE
    /\ busy = {}
    /\ cookie = FALSE
    /\ served = NotServed

-----------------------------------------------------------------------------
(* main.                                                                   *)

\* A local model is warmed up before the panel listens; when that fails the
\* panel starts without a voice.
VoiceAfter(ready) ==
    IF options.mute THEN "silent"
    ELSE IF ~options.xtts THEN "cold"
    ELSE IF ready THEN "warm" ELSE "silent"

\* An address beyond this machine gets a token unless it was switched off.
ChosenToken_Fault(o) == IF o.given THEN "given" ELSE IF o.inEnv THEN "environment" ELSE NoToken
ChosenToken(o) ==
    IF o.tokenless THEN NoToken
    ELSE IF o.given THEN "given"
    ELSE IF o.inEnv THEN "environment"
    ELSE IF o.local THEN NoToken ELSE "generated"

Prepare(ready) ==
    /\ mainAt = "preparing"
    /\ mainAt' = "binding"
    /\ voice' = VoiceAfter(ready)
    /\ token' = ChosenToken(options)
    /\ UNCHANGED <<options, http, stopFlag, loop, givenUp, closed, busy, cookie, served>>

\* Another program may have the port: the process ends with the error.
Bind(free) ==
    /\ mainAt = "binding"
    /\ mainAt' = IF free THEN "starting" ELSE "failed"
    /\ http' = IF free THEN "bound" ELSE "none"
    /\ UNCHANGED <<prepared, stopFlag, loop, givenUp, closed, busy, cookie, served>>

StartLoop(l) ==
    /\ mainAt = "starting"
    /\ loop[l] = "unstarted"
    /\ loop' = [loop EXCEPT ![l] = "checking"]
    /\ UNCHANGED <<mainAt, prepared, http, stopFlag, givenUp, closed, busy, cookie, served>>

Serve ==
    /\ mainAt = "starting"
    /\ \A l \in Loops : loop[l] # "unstarted"
    /\ mainAt' = "serving"
    /\ http' = "serving"
    /\ UNCHANGED <<prepared, stopFlag, loop, givenUp, closed, busy, cookie, served>>

-----------------------------------------------------------------------------
(* A background loop: while not stopped, work, then wait for the stop flag *)
(* or the next round.                                                      *)

Step(l, from, to) == loop[l] = from /\ loop' = [loop EXCEPT ![l] = to]
LoopStep(l) ==
    /\ \/ Step(l, "checking", IF stopFlag THEN "ended" ELSE "working")
       \/ Step(l, "waiting", "checking")
    /\ UNCHANGED <<mainAt, prepared, http, stopFlag, givenUp, closed, busy, cookie, served>>
Worked(l) ==
    /\ Step(l, "working", "waiting")
    /\ UNCHANGED <<mainAt, prepared, http, stopFlag, givenUp, closed, busy, cookie, served>>

-----------------------------------------------------------------------------
(* Requests.                                                               *)

\* What a caller shows: the token in the address or a header, or the cookie
\* the panel page set.  The first one that is there is compared, alone.
Credentials == [address : {"absent", "right", "wrong"}, header : {"absent", "right", "wrong"}]
Shown(c) == IF c.address # "absent" THEN c.address
            ELSE IF c.header # "absent" THEN c.header
            ELSE IF cookie THEN "right" ELSE "absent"
Authorised(c) == token = NoToken \/ Shown(c) = "right"

\* Liveness, the icon and the install data answer before the token is asked
\* for; the liveness answer has the assistant's state for a holder only.
Open == {"health", "icon", "manifest"}
Gated == {"page", "read", "command"}
Admits_Fault(what, c) == what = "command" \/ what \in Open \/ Authorised(c)
Admits(what, c) == what \in Open \/ Authorised(c)
Request(what, c) ==
    /\ http = "serving"
    /\ served' = [what |-> what, proved |-> Authorised(c),
                  answer |-> IF Admits(what, c) THEN "answered" ELSE "rejected"]
    /\ cookie' = (cookie \/ (what = "page" /\ Authorised(c) /\ token # NoToken))
    /\ UNCHANGED <<mainAt, prepared, http, stopFlag, loop, givenUp, closed, busy>>

\* A request has a frame analysed or, with a local model, something spoken;
\* also one whose thread outlives the server's loop, until that is closed.
Closing(what) ==
    CASE what = "vision" -> {"closing_vision", "closing_voice", "stopped"}
      [] what = "voice" -> {"closing_voice", "stopped"}
BeginWork(what) ==
    /\ http \in {"serving", "ended"}
    /\ mainAt \notin Closing(what)
    /\ what = "voice" => voice = "warm"
    /\ busy' = busy \cup {what}
    /\ UNCHANGED <<mainAt, prepared, http, stopFlag, loop, givenUp, closed, cookie, served>>
EndWork(what) ==
    /\ what \in busy
    /\ busy' = busy \ {what}
    /\ UNCHANGED <<mainAt, prepared, http, stopFlag, loop, givenUp, closed, cookie, served>>

-----------------------------------------------------------------------------
(* Ctrl-C and shutdown.                                                    *)

\* While the server serves, the interrupt ends its loop and sets the stop
\* flag.  Before, while the background loops are being started, nothing does.
Interrupt ==
    /\ mainAt \in {"starting", "serving"}
    /\ mainAt' = "stopping"
    /\ stopFlag' = (mainAt = "serving")
    /\ http' = IF mainAt = "serving" THEN "ended" ELSE http
    /\ UNCHANGED <<prepared, loop, givenUp, closed, busy, cookie, served>>

\* shutdown: set the flag, cut the panel off the core's events, and wait for
\* the server's loop to have ended - for ever when it never ran.
StopServer ==
    /\ mainAt = "stopping"
    /\ stopFlag' = TRUE
    /\ IF http = "bound" THEN UNCHANGED mainAt ELSE mainAt' = "joining"
    /\ UNCHANGED <<prepared, http, loop, givenUp, closed, busy, cookie, served>>

\* A loop that does not end in time is left to itself.
MayGiveUp_Fault(l) == FALSE
MayGiveUp(l) == loop[l] # "ended"
GiveUpOn(l) ==
    /\ mainAt = "joining"
    /\ MayGiveUp(l)
    /\ l \notin givenUp
    /\ givenUp' = givenUp \cup {l}
    /\ UNCHANGED <<mainAt, prepared, http, stopFlag, loop, closed, busy, cookie, served>>

\* Monitor and announcer are closed after the loops, then the vision pipeline
\* after the frames in its hands, then the voice after the sentence it is at.
Joined_Fault == TRUE
Joined == \A l \in Loops : loop[l] \in {"ended", "unstarted"} \/ l \in givenUp
Close ==
    /\ mainAt = "joining"
    /\ Joined
    /\ closed' = TRUE
    /\ mainAt' = "closing_vision"
    /\ UNCHANGED <<prepared, http, stopFlag, loop, givenUp, busy, cookie, served>>
CloseVision ==
    /\ mainAt = "closing_vision"
    /\ "vision" \notin busy
    /\ mainAt' = "closing_voice"
    /\ UNCHANGED <<prepared, http, stopFlag, loop, givenUp, closed, busy, cookie, served>>
CloseVoice ==
    /\ mainAt = "closing_voice"
    /\ "voice" \notin busy
    /\ mainAt' = "stopped"
    /\ UNCHANGED <<prepared, http, stopFlag, loop, givenUp, closed, busy, cookie, served>>

PanelStep ==
    \/ \E ready \in BOOLEAN : Prepare(ready)
    \/ \E free \in BOOLEAN : Bind(free)
    \/ \E l \in Loops : StartLoop(l)
    \/ Serve \/ StopServer \/ Close \/ CloseVision \/ CloseVoice
LoopActs == \E l \in Loops : LoopStep(l) \/ Worked(l)
PanelNext ==
    \/ PanelStep \/ LoopActs \/ Interrupt
    \/ \E l \in Loops : GiveUpOn(l)
    \/ \E what \in Open \cup Gated, c \in Credentials : Request(what, c)
    \/ \E what \in {"vision", "voice"} : BeginWork(what) \/ EndWork(what)

\* The main thread goes on, a join times out, and a loop that is not working
\* takes its steps.  Work may last for ever, a loop's and a request's.
PanelFairness ==
    /\ WF_processVars(PanelStep)
    /\ \A l \in Loops : WF_processVars(LoopStep(l)) /\ WF_processVars(GiveUpOn(l))
PanelSpec == PanelInit /\ [][PanelNext]_processVars /\ PanelFairness

-----------------------------------------------------------------------------
(* Properties.                                                             *)

\* Every variable keeps its type.
PanelTypeOK ==
    /\ mainAt \in {"preparing", "binding", "starting", "serving", "failed", "stopping",
               "joining", "closing_vision", "closing_voice", "stopped"}
    /\ options \in Options
    /\ token \in {NoToken, "given", "environment", "generated"}
    /\ voice \in {"silent", "cold", "warm"}
    /\ http \in {"none", "bound", "serving", "ended"}
    /\ {stopFlag, closed, cookie} \subseteq BOOLEAN
    /\ loop \in [Loops -> {"unstarted", "checking", "working", "waiting", "ended"}]
    /\ givenUp \subseteq Loops
    /\ busy \subseteq {"vision", "voice"}
    /\ served \in [what : {"nothing"} \cup Open \cup Gated, proved : BOOLEAN,
                   answer : {"none", "answered", "rejected"}]

\* "The panel can run terminal commands, so anything beyond this machine
\* needs a token": unless the owner switched it off, whoever reaches the panel
\* from elsewhere has shown the token before anything but its liveness, its
\* icon and its install data is answered.
OnlyHoldersAreServed ==
    served.what \in Gated /\ served.answer = "answered"
        /\ ~options.local /\ ~options.tokenless
        => served.proved /\ token # NoToken

\* What the loops use is closed after them: only a loop whose work outlasted
\* the wait can still be at it when the monitor and the voice are closed.  And
\* a panel that has stopped has nothing analysed or spoken any more.
ClosedAfterItsUsers ==
    /\ closed => \A l \in Loops : loop[l] \in {"ended", "unstarted"} \/ l \in givenUp
    /\ mainAt = "stopped" => busy = {}

\* However long a loop works, a shutdown of a panel that was serving ends, or
\* it waits for a request's frame or sentence: that wait has no limit.
ShutdownEnds ==
    (mainAt = "stopping" /\ http = "ended")
        ~> \/ mainAt = "stopped"
           \/ mainAt = "closing_vision" /\ "vision" \in busy
           \/ mainAt = "closing_voice" /\ "voice" \in busy

\* From the start to the stop: nobody is served without the token, and
\* nothing is closed under a loop that still uses it.
ProcessIsOrderly == PanelTypeOK /\ OnlyHoldersAreServed /\ ClosedAfterItsUsers
=============================================================================

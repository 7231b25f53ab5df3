--------------------------- MODULE MCPanelServer ----------------------------
(* The server's process: the machine and the panels it is shown on,       *)
(* starting and stopping, and the playback of the console, for TLC.  They *)
(* share no state here: a behaviour is about one of them, its subject,    *)
(* from any initial state of that component, while the others keep one    *)
(* initial state.                                                         *)
EXTENDS CoreState, PanelProcess, Playback

VARIABLE subject

ServerInit ==
  /\ subject \in {"core", "process", "playback"}
  /\ subject # "process" =>
       options = [o \in {"local", "tokenless", "given", "inEnv",
                                "mute", "xtts"} |-> FALSE]
  /\ subject # "playback" => provider = "edge"
  /\ Init /\ PanelInit /\ PlayInit
  \* The choices about the voice and those about the token do not meet.
  /\ options.mute \/ options.xtts =>
       ~(options.local \/ options.tokenless \/ options.given \/ options.inEnv)

ServerNext ==
  /\ UNCHANGED subject
  /\ \/ /\ subject = "core" /\ Next
        /\ UNCHANGED <<processVars, playVars>>
     \/ /\ subject = "process" /\ PanelNext
        /\ UNCHANGED <<vars, playVars>>
     \/ /\ subject = "playback" /\ PlayNext
        /\ UNCHANGED <<vars, processVars>>

ServerVars == <<subject, vars, processVars, playVars>>

(* The fairness of CoreState, where it is the subject.                    *)
CoreIsFair ==
  \A a \in Activity :
    WF_vars(subject = "core" /\ (Act(a) \/ Tell(a) \/ (Begun(a) /\ Outside(a))))

(* The fairness of PanelProcess, where it is the subject.                 *)
ProcessIsFair ==
  /\ WF_processVars(subject = "process" /\ PanelStep)
  /\ \A l \in Loops : /\ WF_processVars(subject = "process" /\ LoopStep(l))
                      /\ WF_processVars(subject = "process" /\ GiveUpOn(l))

(* The fairness of Playback, where it is the subject.                     *)
PlaybackIsFair ==
  \A i \in Playing : /\ WF_playVars(subject = "playback" /\ Produce(i))
                     /\ WF_playVars(subject = "playback" /\ Feeding(i))
                     /\ WF_playVars(subject = "playback" /\ PlayerEnds(i))

ServerSpec == /\ ServerInit /\ [][ServerNext]_ServerVars
              /\ CoreIsFair /\ ProcessIsFair /\ PlaybackIsFair
=============================================================================

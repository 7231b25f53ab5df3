---------------------------- MODULE MCPanelState ----------------------------
(* The two things the panel shows at once, the state of the machine and   *)
(* the health report, for TLC.  They share no state here: a behaviour is  *)
(* about one of them, its subject, from any initial state of that         *)
(* component, while the others keep one initial state.                    *)
EXTENDS CoreState, HealthPanel

VARIABLE subject

PanelInit ==
  /\ subject \in {"core", "health"}
  /\ subject # "health" =>
       world = [model |-> "online", broken |-> "nothing", lesser |-> "fine"]
  /\ Init /\ HealthInit

PanelNext ==
  /\ UNCHANGED subject
  /\ \/ /\ subject = "core" /\ Next
        /\ UNCHANGED <<healthVars>>
     \/ /\ subject = "health" /\ HealthNext
        /\ UNCHANGED <<vars>>

PanelVars == <<subject, vars, healthVars>>

PanelSpec == /\ PanelInit /\ [][PanelNext]_PanelVars
=============================================================================

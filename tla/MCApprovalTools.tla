-------------------------- MODULE MCApprovalTools ---------------------------
(* The gate that decides whether a tool runs, and two families of tools   *)
(* behind it, for TLC.  They share no state here: a behaviour is about    *)
(* one of them, its subject, from any initial state of that component,    *)
(* while the others keep one initial state.                               *)
EXTENDS ApprovalTurns, WebAccess, Applications

VARIABLE subject

(* The catalogue: names as sequences of letters.  Two owners' files overlap *)
(* the built-in names, whole and in part.                                   *)
Named(title, kind, names) == [title |-> title, kind |-> kind, names |-> names]
SmallCatalogue == << Named("video", "web", {<<1, 2, 3>>, <<4>>}),
                     Named("notes", "windows", {<<1, 2, 3, 1>>, <<2, 2>>}),
                     Named("settings", "uri", {<<3, 3, 3>>}) >>
SmallFiles == { <<>>, << Named("mine", "web", {<<1, 2, 3>>}) >>,
                << Named("own", "windows", {<<3, 3, 3>>, <<4>>}),
                   Named("own2", "web", {<<3, 3, 3>>}) >> }
SmallRequests == { <<1, 2, 3>>, <<4>>, <<1, 2, 3, 1>>, <<3, 3, 3>>, <<2, 3, 1>>, <<2>>,
                   <<3, 1, 2, 3>>, <<5, 5, 5>> }

ToolsInit ==
  /\ subject \in {"gate", "web", "apps"}
  /\ subject # "web" => engine = "off" /\ answers = [name \in Names |-> {}]
  /\ subject # "apps" => system = "linux" /\ installed = {} /\ ownFile = <<>>
  /\ Init /\ WebInit /\ AppInit

ToolsNext ==
  /\ UNCHANGED subject
  /\ \/ /\ subject = "gate" /\ Next
        /\ UNCHANGED <<webVars, appVars>>
     \/ /\ subject = "web" /\ WebNext
        /\ UNCHANGED <<vars, appVars>>
     \/ /\ subject = "apps" /\ AppNext
        /\ UNCHANGED <<vars, webVars>>

ToolsVars == <<subject, vars, webVars, appVars>>

(* The fairness of ApprovalTurns, where it is the subject.                *)
GateIsFair ==
  \A r \in Request : WF_vars(subject = "gate" /\ Progress(r))

ToolsSpec == /\ ToolsInit /\ [][ToolsNext]_ToolsVars
             /\ GateIsFair
=============================================================================

---------------------------- MODULE MCModelPath -----------------------------
(* The way of a question to the model, and of the answer back to the ear, *)
(* for TLC.  They share no state here: a behaviour is about one of them,  *)
(* its subject, from any initial state of that component, while the       *)
(* others keep one initial state.                                         *)
EXTENDS FallbackProvider, ModelStream, ContextWindow, TurnRouting,
        FactMemory, SpeechOutput, TLC

VARIABLE subject

(* The texts of the window: one long, one that is a reply to a pending      *)
(* question, one that asks, one that has the form of an injected block.     *)
SmallSize == ("duz" :> 1) @@ ("uzun" :> 3) @@ ("evet" :> 1) @@ ("soru" :> 1) @@ ("bilgi" :> 1)

(* Cues that occur together in one sentence.                                *)
SmallCuePairs == {{"kod", "yaz"}, {"kod", "testleri calistir"}, {"vaka", "donanim"},
                  {"artik", "web"}}

(* Two keys whose values look alike.                                        *)
SmallSimilar == {<<k, k>> : k \in Key} \cup {<<"a", "b">>}

(* What the client computes without state, over bounded inputs.             *)
ASSUME ClientComputes == WindowIsPositive /\ ProbeIsHonest

PathInit ==
  /\ subject \in {"fallback", "stream", "window", "routing", "facts",
                 "speech"}
  /\ subject # "stream" => baseThink = FALSE
  /\ subject # "routing" => kb_empty = FALSE
  /\ Init /\ StreamInit /\ WindowInit /\ RoutingInit /\ FactInit
  /\ SpeechInit

PathNext ==
  /\ UNCHANGED subject
  /\ \/ /\ subject = "fallback" /\ Next
        /\ UNCHANGED <<streamVars, windowVars, routingVars, factVars,
                      speechVars>>
     \/ /\ subject = "stream" /\ StreamNext
        /\ UNCHANGED <<vars, windowVars, routingVars, factVars, speechVars>>
     \/ /\ subject = "window" /\ WindowNext
        /\ UNCHANGED <<vars, streamVars, routingVars, factVars, speechVars>>
     \/ /\ subject = "routing" /\ RoutingNext
        /\ UNCHANGED <<vars, streamVars, windowVars, factVars, speechVars>>
     \/ /\ subject = "facts" /\ FactNext
        /\ UNCHANGED <<vars, streamVars, windowVars, routingVars, speechVars>>
     \/ /\ subject = "speech" /\ SpeechNext
        /\ UNCHANGED <<vars, streamVars, windowVars, routingVars, factVars>>

PathVars == <<subject, vars, streamVars, windowVars, routingVars, factVars,
              speechVars>>

(* The fairness of FallbackProvider, where it is the subject.             *)
FallbackIsFair ==
  /\ WF_vars(subject = "fallback" /\ (Request \/ Respond))
  /\ WF_vars(subject = "fallback" /\ Tick)

(* The fairness of SpeechOutput, where it is the subject.                 *)
SpeechIsFair ==
  \A t \in Thread : SF_speechVars(subject = "speech" /\ Work(t))

PathSpec == /\ PathInit /\ [][PathNext]_PathVars
            /\ FallbackIsFair /\ SpeechIsFair
=============================================================================

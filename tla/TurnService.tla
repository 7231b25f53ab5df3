---------------------------- MODULE TurnService ----------------------------
(***************************************************************************)
(* What an Agent promises to the callers of ask and ask_stream: turns are  *)
(* served one at a time, each request is settled once, with an answer or   *)
(* with an error that its own caller sees, and every request is settled.   *)
(***************************************************************************)
CONSTANT Request

VARIABLE phase

Phases == {"new", "pending", "serving", "answered", "failed",
           "got_answer", "got_error"}

Init == phase = [r \in Request |-> "new"]

Move(r, from, to) == phase[r] = from /\ phase' = [phase EXCEPT ![r] = to]

Ask(r) == Move(r, "new", "pending")

Serve(r) ==
    /\ \A s \in Request : phase[s] # "serving"
    /\ Move(r, "pending", "serving")

Settle(r) == Move(r, "serving", "answered") \/ Move(r, "serving", "failed")

Return(r) == Move(r, "answered", "got_answer") \/ Move(r, "failed", "got_error")

Next == \E r \in Request : Ask(r) \/ Serve(r) \/ Settle(r) \/ Return(r)

Spec ==
    /\ Init
    /\ [][Next]_phase
    /\ \A r \in Request : WF_phase(Serve(r)) /\ WF_phase(Settle(r) \/ Return(r))
=============================================================================

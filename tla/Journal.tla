------------------------------ MODULE Journal ------------------------------
(***************************************************************************)
(* What the journals promise to whoever reads them: the records are        *)
(* numbered as they are made, each is written at the end or lost, and only *)
(* the oldest are forgotten, never so many that fewer than Keep are left.  *)
(***************************************************************************)
EXTENDS Naturals, Sequences

CONSTANT Keep

VARIABLES made, log, lost
vars == <<made, log, lost>>

Init == made = 0 /\ log = <<>> /\ lost = {}

Write == made' = made + 1 /\ log' = Append(log, made + 1) /\ UNCHANGED lost

Lose == made' = made + 1 /\ lost' = lost \cup {made + 1} /\ UNCHANGED log

Forget ==
  /\ \E n \in 1 .. Len(log) : /\ Len(log) - n >= Keep
                              /\ log' = SubSeq(log, n + 1, Len(log))
  /\ UNCHANGED <<made, lost>>

Next == Write \/ Lose \/ Forget

Spec == Init /\ [][Next]_vars
=============================================================================

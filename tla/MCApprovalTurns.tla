-------------------------- MODULE MCApprovalTurns --------------------------
(* ApprovalTurns for TLC.  Requests of one kind are interchangeable, so the *)
(* runs that check invariants only may permute them.                        *)
EXTENDS ApprovalTurns, TLC

Interchangeable == Permutations(Typed) \cup Permutations(Spoken)
=============================================================================

---------------------------- MODULE MCCoreState ----------------------------
(* CoreState for TLC.                                                       *)
EXTENDS CoreState, TLC
=============================================================================

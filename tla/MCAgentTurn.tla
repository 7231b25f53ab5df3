---------------------------- MODULE MCAgentTurn ----------------------------
(* AgentTurn for TLC.                                                       *)
EXTENDS AgentTurn
=============================================================================

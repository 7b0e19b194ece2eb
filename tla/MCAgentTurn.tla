---------------------------- MODULE MCAgentTurn ----------------------------
(* An instance of AgentTurn for model checking: its bounds are in the cfg. *)
EXTENDS AgentTurn
=============================================================================

--------------------------- MODULE MCAgentSession ---------------------------
(* AgentSession for TLC.  No symmetry: rows, turns and tasks are numbered   *)
(* in the order of their creation.                                          *)
EXTENDS AgentSession
=============================================================================

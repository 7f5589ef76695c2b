--------------------------- MODULE MCAgentConfigs ---------------------------
(* Names of a session, of a built-in agent and of the specs that the       *)
(* administrator writes.                                                   *)
EXTENDS AgentConfigs

CONSTANTS s1, d1, login1, untyped
=============================================================================

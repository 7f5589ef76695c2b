----------------------------- MODULE MCPlanner -----------------------------
(* Values of the constants of Planner for TLC.                             *)
EXTENDS Planner, TLC

CONSTANTS a1, a2, ghost

NoAgents == {}
OneAgent == {a1}
TwoAgents == {a1, a2}
AgentsAndGhost == {a1, ghost}
=============================================================================

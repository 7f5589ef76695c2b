---------------------------- MODULE PlanContract ----------------------------
(***************************************************************************)
(* What the planner promises about the plan of a conversation, whatever    *)
(* the agents, the user and the connection do: a plan that needs the       *)
(* user's consent is carried out only after it is given, its subtasks are  *)
(* completed one by one, it ends only when all of them are, and a plan     *)
(* that stopped goes on from where it stopped or from its start.           *)
(***************************************************************************)
EXTENDS Naturals

CONSTANTS MaxSize,           \* the largest plan
          ConsentRequired    \* whether plans of several subtasks need consent

VARIABLES phase,   \* none | proposed | running | stopped | finished
          size,    \* subtasks of the plan
          done     \* how many of them are completed, from the first on

contract == <<phase, size, done>>

Init == phase = "none" /\ size = 0 /\ done = 0

\* A plan replaces the one before it, if any.
Draft(n) ==
    /\ size' = n /\ done' = 0
    /\ phase' = IF ConsentRequired /\ n > 1 THEN "proposed" ELSE "running"

Consent == phase = "proposed" /\ phase' = "running" /\ UNCHANGED <<size, done>>

Complete ==
    /\ phase = "running" /\ done < size
    /\ done' = done + 1
    /\ phase' = IF done' = size THEN "finished" ELSE "running"
    /\ UNCHANGED size

\* A subtask failed, or the user declined its confirmation.
Halt == phase = "running" /\ phase' = "stopped" /\ UNCHANGED <<size, done>>

Retry == phase = "stopped" /\ phase' = "running" /\ UNCHANGED <<size, done>>

Restart == phase = "stopped" /\ phase' = "running" /\ done' = 0 /\ UNCHANGED size

\* The plan is answered, rejected, cancelled or stopped for good.
Discard == phase' = "none" /\ size' = 0 /\ done' = 0

Next == \/ \E n \in 1..MaxSize : Draft(n)
        \/ Consent \/ Complete \/ Halt \/ Retry \/ Restart \/ Discard

Spec == Init /\ [][Next]_contract
=============================================================================

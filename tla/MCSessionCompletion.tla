-------------------------- MODULE MCSessionCompletion --------------------------
(* Instances of SessionCompletion: background jobs, detached subagents, both. *)
EXTENDS SessionCompletion

CONSTANTS job1, agent1

=============================================================================

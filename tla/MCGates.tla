------------------------------- MODULE MCGates -------------------------------
(***************************************************************************)
(* The completion gates: the turn engine against a model that changes,     *)
(* verifies and claims to be done (the constants of the configuration), or *)
(* one that repeats itself, and the gate of the whole session over a job   *)
(* or over a detached subagent.  They share nothing; an initial state      *)
(* picks one.                                                              *)
(***************************************************************************)
EXTENDS MCAgentTurn, MCSessionCompletion

VARIABLE world

Spin == INSTANCE AgentTurn WITH
  Batches <- SpinBatches, Faults <- {"overflow"}, Replies <- {},
  Hooks <- {"none"}, Nudges <- {"none"}, MaxSteers <- 1,
  MaxDoneCorrections <- 3, MaxTransient <- 1, BaseSteps <- 8, HardCap <- 8

GatesInit ==
  \/ world = "claims" /\ Init /\ SessionInit /\ ~goal
  \/ world = "repeats" /\ Spin!Init /\ SessionInit /\ ~goal
  \/ world \in {"jobs", "agents"} /\ Init /\ SessionInit

GatesNext ==
  \/ world = "claims" /\ Next /\ UNCHANGED <<world, sessionVars>>
  \/ world = "repeats" /\ Spin!Next /\ UNCHANGED <<world, sessionVars>>
  \/ world = "jobs" /\ SessionNext /\ Launched' = {} /\ UNCHANGED <<world, vars>>
  \/ world = "agents" /\ SessionNext /\ Started' = {} /\ UNCHANGED <<world, vars>>

GatesSpec == GatesInit /\ [][GatesNext]_<<world, vars, sessionVars>>
=============================================================================

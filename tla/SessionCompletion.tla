--------------------------- MODULE SessionCompletion ---------------------------
(***************************************************************************)
(* The completion gate of a launch session over everything that may still  *)
(* change the workspace: foreground calls, background jobs and detached    *)
(* subagents (launch.ts onEvidence and onBeforeDone, job-tool.ts,          *)
(* subagent-tool.ts, task-tool.ts), composed of Evidence, JobRegistry and  *)
(* SubagentRegistry.                                                       *)
(*                                                                         *)
(* A turn is a sequence of batches of calls, one call at a time (a job     *)
(* await or cancel and a verification take time); after each batch the     *)
(* evidence is folded into two flags that outlive the engine run and the   *)
(* turn.  A sandboxed session runs the job tool in the guest, over the     *)
(* guest's own registry: the gate asks the session's, which stays empty.   *)
(* Monitors keep the same sets as jobs, todos and the goal's judge can     *)
(* only refuse more, and hooks are AgentTurn's: they are left out.         *)
(***************************************************************************)
EXTENDS Evidence, JobRegistry, SubagentRegistry

CONSTANT Sandboxed  \* the session runs its tools in a sandbox

ASSUME SandboxedBool == Sandboxed \in BOOLEAN

VARIABLES
  turn,         \* "open", "done" (completion accepted) or "stopped"
  inBatch,      \* calls ran since the last onEvidence
  engineEvid,         \* the engine run's evidence
  turnPending,  \* turnPendingMutation
  pendingVerif, \* pendingMutationVerification
  goal,         \* a goal is set
  call,         \* the call that is executing
  unverified,   \* ghost: who wrote since the last passing verification began
  since         \* ghost: who wrote since the running verification began

sessionOwn == <<turn, inBatch, engineEvid, turnPending, pendingVerif, goal, call,
                unverified, since>>
sessionVars == <<sessionOwn, jobVars, agentVars>>

NoCall == [op |-> "none", targets |-> {}, hit |-> FALSE]
Turn == "turn"  \* the writer that stands for the foreground calls

SessionInit ==
  /\ JobsInit /\ AgentsInit
  /\ turn = "stopped" /\ inBatch = FALSE /\ engineEvid = NoEvidence
  /\ turnPending = FALSE /\ pendingVerif \in BOOLEAN /\ goal \in BOOLEAN
  /\ pendingVerif => goal
  /\ call = NoCall /\ since = {}
  /\ unverified = IF pendingVerif THEN {Turn} ELSE {}

Idle == turn = "open" /\ call = NoCall

\* The bookkeeping of the engine's nudges (cycles, definite) is left out.
Observes(kind, r) ==
  engineEvid' = [AfterCall(engineEvid, kind, r) EXCEPT !.cycles = 0, !.definite = FALSE]
Plain(flagged) == [ok |-> TRUE, flagged |-> flagged, proof |-> FALSE, wrote |-> FALSE]

Writers(w) == unverified' = unverified \cup w /\ since' = since \cup w

---------------------------------------------------------------------------
(* Turns                                                                   *)

\* Without a goal, what an earlier turn left unverified no longer counts; work
\* still in the background does.
TurnBegins ==
  /\ turn # "open" /\ turn' = "open" /\ engineEvid' = NoEvidence
  /\ turnPending' = (goal /\ pendingVerif)
  /\ unverified' = IF goal THEN unverified ELSE unverified \cap (Unobserved \cup InFlight)
  /\ UNCHANGED <<inBatch, pendingVerif, goal, call, since, jobVars, agentVars>>

\* Another model takes over within the turn: a new engine run.
Reroutes ==
  /\ Idle /\ ~inBatch /\ engineEvid' = NoEvidence
  /\ UNCHANGED <<turn, inBatch, turnPending, pendingVerif, goal, call, unverified,
                 since, jobVars, agentVars>>

TurnStops ==
  /\ Idle /\ ~inBatch /\ turn' = "stopped"
  /\ UNCHANGED <<inBatch, engineEvid, turnPending, pendingVerif, goal, call, unverified,
                 since, jobVars, agentVars>>

Fresh == engineEvid.sawVerification /\ ~Stale(engineEvid)
PendingAfter(flag) == IF Fresh THEN FALSE ELSE flag \/ engineEvid.sawMutation

\* onEvidence, once per batch.
BatchEnds ==
  /\ Idle /\ inBatch /\ inBatch' = FALSE
  /\ turnPending' = PendingAfter(turnPending)
  /\ pendingVerif' = PendingAfter(pendingVerif)
  /\ UNCHANGED <<turn, engineEvid, goal, call, unverified, since, jobVars, agentVars>>

\* The registries the gate asks.
JobsStandIn(jobs) == ~Sandboxed /\ jobs # {}

\* Defect: the gate waits for running jobs only.
RefusedWhileRunning ==
  \/ JobsStandIn(Running) \/ InFlight # {}
  \/ (turnPending \/ (goal /\ pendingVerif) \/ engineEvid.sawMutation) /\ ~Fresh
  \/ GateBlocks(engineEvid)

\* onBeforeDone and the engine's own gate.
Refused ==
  \/ JobsStandIn(Running) \/ JobsStandIn(Unobserved) \/ InFlight # {}
  \/ (turnPending \/ (goal /\ pendingVerif) \/ engineEvid.sawMutation) /\ ~Fresh
  \/ GateBlocks(engineEvid)

TurnCompletes ==
  /\ Idle /\ ~inBatch /\ ~Refused /\ turn' = "done"
  /\ UNCHANGED <<inBatch, engineEvid, turnPending, pendingVerif, goal, call, unverified,
                 since, jobVars, agentVars>>

\* The goal tool within a turn, /goal between two.
SetsGoal ==
  /\ call = NoCall /\ goal' = ~goal
  /\ UNCHANGED <<turn, inBatch, engineEvid, turnPending, pendingVerif, call, unverified,
                 since, jobVars, agentVars>>

---------------------------------------------------------------------------
(* Foreground calls                                                        *)

Writes ==
  /\ Idle /\ inBatch' = TRUE
  /\ \E kind \in {"write", "shell"} : \E r \in ResultsOf(kind) :
       r.wrote /\ Observes(kind, r)
  /\ Writers({Turn})
  /\ UNCHANGED <<turn, turnPending, pendingVerif, goal, call, jobVars, agentVars>>

VerifyBegins ==
  /\ Idle /\ call' = [NoCall EXCEPT !.op = "verify"] /\ since' = {}
  /\ UNCHANGED <<turn, inBatch, engineEvid, turnPending, pendingVerif, goal, unverified,
                 jobVars, agentVars>>

\* A pass covers what was written before it began.
VerifyEnds ==
  /\ call.op = "verify" /\ call' = NoCall /\ inBatch' = TRUE
  /\ \E r \in ResultsOf("verify") :
       /\ Observes("verify", r)
       /\ unverified' = IF Verifies("verify", r) THEN since
                        ELSE IF r.wrote THEN unverified \cup {Turn} ELSE unverified
  /\ UNCHANGED <<turn, turnPending, pendingVerif, goal, since, jobVars, agentVars>>

---------------------------------------------------------------------------
(* The job tool                                                            *)

StartJob(j) ==
  /\ Idle /\ inBatch' = TRUE /\ JobStarts(j) /\ Observes("start", Plain(FALSE))
  /\ UNCHANGED <<turn, turnPending, pendingVerif, goal, call, unverified, since, agentVars>>

\* Defect: list and tail show the completion without raising the flag.
ReadJobsQuietly(targets) ==
  /\ Idle /\ inBatch' = TRUE /\ targets \subseteq Started
  /\ Consumes(targets) /\ Observes("delegate", Plain(FALSE))
  /\ UNCHANGED <<turn, turnPending, pendingVerif, goal, call, unverified, since,
                 phase, status, killed, incomplete, active, reported, agentVars>>

\* list (every job) and tail.
ReadJobs(targets) ==
  /\ Idle /\ inBatch' = TRUE /\ targets \subseteq Started
  /\ Consumes(targets) /\ Observes("delegate", Plain(Flagged(targets)))
  /\ UNCHANGED <<turn, turnPending, pendingVerif, goal, call, unverified, since,
                 phase, status, killed, incomplete, active, reported, agentVars>>

AwaitJobs(targets) ==
  /\ Idle /\ targets \subseteq Started /\ targets # {}
  /\ call' = [op |-> "await", targets |-> targets, hit |-> FALSE]
  /\ UNCHANGED <<turn, inBatch, engineEvid, turnPending, pendingVerif, goal, unverified,
                 since, jobVars, agentVars>>

\* All targets settled or the time is up: those not running count as reported.
AwaitEnds ==
  /\ call.op = "await" /\ call' = NoCall /\ inBatch' = TRUE
  /\ reported' = reported \cup (call.targets \ Running)
  /\ Consumes(call.targets) /\ Observes("delegate", Plain(Flagged(call.targets)))
  /\ UNCHANGED <<turn, turnPending, pendingVerif, goal, unverified, since,
                 phase, status, killed, incomplete, active, agentVars>>

CancelJobs(targets) ==
  /\ Idle /\ targets \subseteq Started /\ targets # {}
  /\ call' = [op |-> "cancel", targets |-> targets,
              hit |-> targets \cap Cancellable # {}]
  /\ JobsCancelled(targets)
  /\ UNCHANGED <<turn, inBatch, engineEvid, turnPending, pendingVerif, goal, unverified,
                 since, phase, active, pending, reported, agentVars>>

\* The cancelled jobs settled or the tool no longer waits for them.
CancelEnds ==
  /\ call.op = "cancel" /\ call' = NoCall /\ inBatch' = TRUE
  /\ Consumes(call.targets)
  /\ Observes("delegate", Plain(call.hit \/ Flagged(call.targets)))
  /\ UNCHANGED <<turn, turnPending, pendingVerif, goal, unverified, since,
                 phase, status, killed, incomplete, active, reported, agentVars>>

\* /jobs start and /jobs cancel between turns: nothing is reported to an engine.
SlashStarts(j) ==
  /\ turn # "open" /\ JobStarts(j) /\ UNCHANGED <<sessionOwn, agentVars>>

SlashCancels(targets) ==
  /\ turn # "open" /\ targets \subseteq Started /\ JobsCancelled(targets)
  /\ UNCHANGED <<sessionOwn, phase, active, pending, reported, agentVars>>

---------------------------------------------------------------------------
(* The task and subagent tools                                             *)

LaunchAgent(a) ==
  /\ Idle /\ inBatch' = TRUE /\ AgentLaunched(a) /\ Observes("delegate", Plain(TRUE))
  /\ UNCHANGED <<turn, turnPending, pendingVerif, goal, call, unverified, since, jobVars>>

\* list, inspect, or await when it returns.
CollectAgents(targets) ==
  /\ Idle /\ inBatch' = TRUE /\ targets \subseteq Launched /\ targets # {}
  /\ Observes("delegate", Plain(targets \cap mayHave # {}))
  /\ UNCHANGED <<turn, turnPending, pendingVerif, goal, call, unverified, since,
                 jobVars, agentVars>>

CancelsAgents(targets) ==
  /\ Idle /\ inBatch' = TRUE /\ CancelAgents(targets)
  /\ Observes("delegate", Plain(targets \cap mayHave # {}))
  /\ UNCHANGED <<turn, turnPending, pendingVerif, goal, call, unverified, since, jobVars>>

---------------------------------------------------------------------------
(* The background                                                          *)

JobWrites(j) ==
  /\ MayWrite(j) /\ Writers({j})
  /\ UNCHANGED <<turn, inBatch, engineEvid, turnPending, pendingVerif, goal, call, jobVars, agentVars>>

AgentChanges(a) ==
  /\ AgentWrites(a) /\ Writers({a})
  /\ UNCHANGED <<turn, inBatch, engineEvid, turnPending, pendingVerif, goal, call, jobVars>>

AgentSettles(a) ==
  /\ AgentThrows(a) \/ \E success \in BOOLEAN : AgentReturns(a, success)
  /\ UNCHANGED <<sessionOwn, jobVars>>

JobsMove == JobSteps /\ UNCHANGED <<sessionOwn, agentVars>>

JobTool ==
  \/ \E j \in Jobs : StartJob(j) \/ SlashStarts(j)
  \/ \E targets \in SUBSET Jobs :
       ReadJobs(targets) \/ AwaitJobs(targets) \/ CancelJobs(targets) \/ SlashCancels(targets)
  \/ AwaitEnds \/ CancelEnds

AgentTools ==
  \/ \E a \in Agents : LaunchAgent(a)
  \/ \E targets \in SUBSET Agents : CollectAgents(targets) \/ CancelsAgents(targets)

Background ==
  \/ JobsMove
  \/ \E j \in Jobs : JobWrites(j)
  \/ \E a \in Agents : AgentChanges(a) \/ AgentSettles(a)

SessionNext ==
  \/ TurnBegins \/ Reroutes \/ TurnStops \/ BatchEnds \/ TurnCompletes \/ SetsGoal
  \/ Writes \/ VerifyBegins \/ VerifyEnds
  \/ JobTool \/ AgentTools \/ Background

SessionSpec == SessionInit /\ [][SessionNext]_sessionVars

---------------------------------------------------------------------------
(* Properties                                                              *)

\* Type invariant of the gate.
SessionTypeOK ==
  /\ JobsTypeOK /\ AgentsTypeOK
  /\ turn \in {"open", "done", "stopped"} /\ engineEvid \in EvidenceType
  /\ {inBatch, turnPending, pendingVerif, goal} \subseteq BOOLEAN
  /\ call.op \in {"none", "verify", "await", "cancel"} /\ call.targets \subseteq Started
  /\ call.hit \in BOOLEAN
  /\ unverified \cup since \subseteq {Turn} \cup Jobs \cup Agents

Accepts == turn = "open" /\ turn' = "done"

\* When a completion is accepted, every change a foreground call or a background
\* job made, in this turn or (under a goal) an earlier one, was there before a
\* verification that passed began.  (onBeforeDone, onEvidence, job-tool.ts)
CompletionCoversWrites == [][Accepts => unverified \subseteq Agents]_sessionVars

\* When a completion is accepted, no job may still write or has a completion the
\* engine has not seen, and no detached run is in flight (onBeforeDone).
CompletionWaits == [][Accepts => Unobserved = {} /\ InFlight = {}]_sessionVars

\* "the parent cannot claim a clean workspace before collecting and verifying the
\* settled result": the same for what detached subagents change (task-tool.ts).
CompletionCoversAgents == [][Accepts => unverified \cap Agents = {}]_sessionVars
=============================================================================

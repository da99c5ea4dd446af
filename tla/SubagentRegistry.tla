--------------------------- MODULE SubagentRegistry ---------------------------
(***************************************************************************)
(* Detached subagents of one session: SubagentRegistry                     *)
(* (src/src/agent/subagent-registry.ts) and the runner behind each record. *)
(*                                                                         *)
(* A run works, drains its steering inbox between its steps and settles    *)
(* with a report or by throwing; meanwhile its parent, another subagent or *)
(* a remote client steers, pauses, resumes and cancels it.  Reports,       *)
(* activity labels and read-only runs (which no gate waits for) are left   *)
(* out; a message is only counted.                                         *)
(***************************************************************************)
EXTENDS Integers, FiniteSets

CONSTANTS Agents,   \* the detached runs the session may launch
          MaxInbox  \* bound: messages waiting in one inbox

ASSUME InboxBound == MaxInbox \in Nat \ {0}

VARIABLES
  record,   \* record.status
  settled,  \* the runner's promise settled
  aborted,  \* the run's AbortController fired
  mayHave,  \* record.mutationMayHaveOccurred
  inbox,    \* messages in the steering inbox
  wrote,    \* ghost: the run changed the workspace
  over      \* the session was torn down

agentVars == <<record, settled, aborted, mayHave, inbox, wrote, over>>

RecordStatus == {"none", "running", "paused", "completed", "failed", "cancelled"}

AgentsInit ==
  /\ record = [a \in Agents |-> "none"] /\ inbox = [a \in Agents |-> 0]
  /\ settled = {} /\ aborted = {} /\ mayHave = {} /\ wrote = {} /\ over = FALSE

Launched == {a \in Agents : record[a] # "none"}
InFlight == Launched \ settled
RunningAgents == {a \in Agents : record[a] = "running"}

AgentLaunched(a) ==
  /\ record[a] = "none"
  /\ record' = [record EXCEPT ![a] = "running"]
  /\ UNCHANGED <<settled, aborted, mayHave, inbox, wrote, over>>

---------------------------------------------------------------------------
(* The runner                                                              *)

AgentWrites(a) ==
  /\ a \in InFlight
  /\ wrote' = wrote \cup {a}
  /\ UNCHANGED <<record, settled, aborted, mayHave, inbox, over>>

AgentDrains(a) ==
  /\ a \in InFlight /\ inbox[a] > 0
  /\ inbox' = [inbox EXCEPT ![a] = 0]
  /\ UNCHANGED <<record, settled, aborted, mayHave, wrote, over>>

\* The runner returned: its own evidence covers at least what it wrote.  A
\* cancellation noted in the record stands.
AgentReturns(a, success) ==
  /\ a \in InFlight
  /\ \E changed \in BOOLEAN :
       /\ a \in wrote => changed
       /\ mayHave' = IF changed THEN mayHave \cup {a} ELSE mayHave
  /\ record' = [record EXCEPT ![a] = IF @ = "cancelled" THEN @
                                     ELSE IF success THEN "completed" ELSE "failed"]
  /\ settled' = settled \cup {a} /\ inbox' = [inbox EXCEPT ![a] = 0]
  /\ UNCHANGED <<aborted, wrote, over>>

\* Defect: evidence is recorded only for a run that was not cancelled.
AgentThrowsUnlessCancelled(a) ==
  /\ a \in InFlight
  /\ mayHave' = IF record[a] = "cancelled" THEN mayHave ELSE mayHave \cup {a}
  /\ record' = [record EXCEPT ![a] = IF @ = "cancelled" THEN @ ELSE "failed"]
  /\ settled' = settled \cup {a} /\ inbox' = [inbox EXCEPT ![a] = 0]
  /\ UNCHANGED <<aborted, wrote, over>>

AgentThrows(a) ==
  /\ a \in InFlight
  /\ mayHave' = mayHave \cup {a}
  /\ record' = [record EXCEPT ![a] = IF @ = "cancelled" THEN @ ELSE "failed"]
  /\ settled' = settled \cup {a} /\ inbox' = [inbox EXCEPT ![a] = 0]
  /\ UNCHANGED <<aborted, wrote, over>>

---------------------------------------------------------------------------
(* Control                                                                 *)

\* steer: only a record that reads "running" and whose inbox exists.
Queued(a) == IF a \in settled \/ inbox[a] = MaxInbox THEN inbox
             ELSE [inbox EXCEPT ![a] = @ + 1]

AgentSteered(a) ==
  /\ record[a] = "running" /\ inbox' = Queued(a)
  /\ UNCHANGED <<record, settled, aborted, mayHave, wrote, over>>

\* The run is only asked to stop; it goes on until it yields.
AgentPaused(a) ==
  /\ record[a] = "running"
  /\ inbox' = Queued(a) /\ record' = [record EXCEPT ![a] = "paused"]
  /\ UNCHANGED <<settled, aborted, mayHave, wrote, over>>

\* Whatever the record says, it reads "running" afterwards.
AgentResumed(a) ==
  /\ a \in Launched
  /\ inbox' = Queued(a) /\ record' = [record EXCEPT ![a] = "running"]
  /\ UNCHANGED <<settled, aborted, mayHave, wrote, over>>

AgentsCancelled(targets) ==
  LET doomed == {a \in targets : record[a] \in {"running", "paused"}} IN
  /\ record' = [a \in Agents |-> IF a \in doomed THEN "cancelled" ELSE record[a]]
  /\ aborted' = aborted \cup doomed

CancelAgents(targets) ==
  /\ targets \subseteq Launched /\ targets # {} /\ AgentsCancelled(targets)
  /\ UNCHANGED <<settled, mayHave, inbox, wrote, over>>

\* cancelAll at session teardown.
TearDown ==
  /\ ~over /\ over' = TRUE /\ AgentsCancelled(RunningAgents)
  /\ UNCHANGED <<settled, mayHave, inbox, wrote>>

AgentSteps ==
  \E a \in Agents : AgentWrites(a) \/ AgentDrains(a) \/ AgentThrows(a)
                    \/ \E success \in BOOLEAN : AgentReturns(a, success)

AgentControls ==
  \/ \E a \in Agents : AgentSteered(a) \/ AgentPaused(a) \/ AgentResumed(a)
  \/ \E targets \in SUBSET Agents : CancelAgents(targets)

AgentsNext ==
  \/ AgentSteps
  \/ ~over /\ (AgentControls \/ \E a \in Agents : AgentLaunched(a))
  \/ TearDown

AgentsSpec == AgentsInit /\ [][AgentsNext]_agentVars

---------------------------------------------------------------------------
(* Properties                                                              *)

\* Type invariant of the registry.
AgentsTypeOK ==
  /\ record \in [Agents -> RecordStatus] /\ inbox \in [Agents -> 0 .. MaxInbox]
  /\ {settled, aborted, mayHave, wrote} \subseteq SUBSET Launched /\ over \in BOOLEAN

\* However a run was steered, paused, resumed and cancelled, once it has settled
\* its record carries mutation evidence if it changed the workspace (launch:
\* evidence is kept before a cancellation can hide it).
EvidenceSurvivesCancel == settled \cap wrote \subseteq mayHave
=============================================================================

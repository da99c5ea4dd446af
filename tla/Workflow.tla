-------------------------------- MODULE Workflow --------------------------------
(***************************************************************************)
(* The planning workflow of a workspace: `jeo ralplan` writes a plan and   *)
(* has it reviewed (src/src/commands/ralplan.ts), `jeo approve` approves   *)
(* the reviewed bytes (approve.ts) and `jeo team` executes them under a run*)
(* lock, task by task, resuming from team-state.json (team.ts, and the     *)
(* lock and the state files in src/src/agent/state.ts).                    *)
(*                                                                         *)
(* A plan's bytes are a number, 0 the bytes of an edit by hand; every plan *)
(* has the tasks 1 .. Tasks, of which the last Parallel form a group that  *)
(* runs in worktrees.  State files are replaced by a rename: one step.     *)
(***************************************************************************)
EXTENDS Naturals, FiniteSets

CONSTANTS Runner,    \* processes that run `jeo team`, each once
          Tasks,     \* tasks of a plan
          Parallel,  \* how many of them, at the end, share a parallel_group
          MaxPlans   \* bound: plans drafted or revised

ASSUME TaskCount == Tasks \in Nat

VARIABLES
  planFile,   \* the bytes of the plan file
  ralplan,    \* ralplan-state.json
  drafting,   \* the planner: "idle", "drafting", "review" or "revising"
  drafts,     \* plans written so far
  approving,  \* the state an approval has read and checked, or NoState
  teamState,  \* team-state.json, or NoTeam
  runLock,    \* the file team.lock: who wrote it, and whether it is complete
  beating,    \* runs whose heartbeat has emptied the lock file
  runAt,      \* where each run stands
  plan,       \* the state and bytes each run read
  mine,       \* the team state each run holds in memory
  merged,     \* how many steps of the group each run has merged
  reviewed,   \* ghost: bytes the critic accepted
  approved,   \* ghost: bytes an approval accepted
  succeeded,  \* ghost: tasks that succeeded, with their plan
  recorded,   \* ghost: tasks recorded since the state was made for another plan
  overlapped  \* ghost: two runs were in the loop at once

planVars == <<planFile, ralplan, drafting, drafts, approving, reviewed, approved>>
runLockVars == <<runLock, beating>>
teamVars == <<teamState, mine, merged, succeeded, recorded>>
workVars == <<planVars, runLockVars, teamVars, runAt, plan, overlapped>>

Edited == 0
NoState == [phase |-> "none", hash |-> Edited, okay |-> FALSE, approved |-> FALSE]
NoTeam == [hash |-> Edited, done |-> 0, phase |-> "missing"]
NoLock == [by |-> "nobody", whole |-> FALSE]

WorkInit ==
  /\ planFile = Edited /\ ralplan = NoState /\ drafting = "idle" /\ drafts = 0
  /\ approving = NoState /\ teamState = NoTeam /\ runLock = NoLock /\ beating = {}
  /\ runAt = [r \in Runner |-> "idle"]
  /\ plan = [r \in Runner |-> Edited] /\ mine = [r \in Runner |-> NoTeam]
  /\ merged = [r \in Runner |-> 0]
  /\ reviewed = {} /\ approved = {} /\ succeeded = {} /\ recorded = {} /\ overlapped = FALSE

---------------------------------------------------------------------------
(* Planning and approval                                                   *)

StartsPlanning ==
  /\ drafting = "idle" /\ drafts < MaxPlans /\ drafting' = "drafting"
  /\ ralplan' = [NoState EXCEPT !.phase = "planning"]
  /\ UNCHANGED <<planFile, drafts, approving, reviewed, approved>>

\* The critic's final draft, or the one revision that [ITERATE] allows.
WritesPlan ==
  /\ drafting \in {"drafting", "revising"} /\ drafts < MaxPlans
  /\ drafts' = drafts + 1 /\ planFile' = drafts' /\ drafting' = "review"
  /\ UNCHANGED <<ralplan, approving, reviewed, approved>>

AsksRevision ==
  /\ drafting = "review" /\ drafts < MaxPlans /\ drafting' = "revising"
  /\ UNCHANGED <<planFile, ralplan, drafts, approving, reviewed, approved>>

\* The verdict is on the bytes in the planner's memory, and so is the hash.
RecordsVerdict(okay) ==
  /\ drafting = "review" /\ drafting' = "idle"
  /\ ralplan' = [phase |-> IF okay THEN "complete" ELSE "planning",
                 hash |-> IF okay THEN drafts ELSE Edited, okay |-> okay, approved |-> FALSE]
  /\ reviewed' = IF okay THEN reviewed \cup {drafts} ELSE reviewed
  /\ UNCHANGED <<planFile, drafts, approving, approved>>

\* The planner is aborted, or dies: its state file stays as it is.
PlannerStops ==
  /\ drafting # "idle" /\ drafting' = "idle"
  /\ UNCHANGED <<planFile, ralplan, drafts, approving, reviewed, approved>>

EditsPlan ==
  /\ planFile # Edited /\ planFile' = Edited
  /\ UNCHANGED <<ralplan, drafting, drafts, approving, reviewed, approved>>

\* approvePlan reads the state, then the bytes, and checks them.
ApprovalReads ==
  /\ approving = NoState /\ ralplan.okay /\ ~ralplan.approved /\ planFile = ralplan.hash
  /\ approving' = ralplan
  /\ UNCHANGED <<planFile, ralplan, drafting, drafts, reviewed, approved>>

\* It writes back the state it read, whatever a planner wrote since.
ApprovalWrites ==
  /\ approving # NoState /\ approving' = NoState
  /\ ralplan' = [approving EXCEPT !.approved = TRUE] /\ approved' = approved \cup {approving.hash}
  /\ UNCHANGED <<planFile, drafting, drafts, reviewed>>

PlanSteps ==
  /\ \/ StartsPlanning \/ WritesPlan \/ AsksRevision \/ PlannerStops \/ EditsPlan
     \/ ApprovalReads \/ ApprovalWrites \/ \E okay \in BOOLEAN : RecordsVerdict(okay)
  /\ UNCHANGED <<runLockVars, teamVars, runAt, plan, overlapped>>

---------------------------------------------------------------------------
(* The run lock                                                            *)

Goes(r, from, to) == runAt[r] = from /\ runAt' = [runAt EXCEPT ![r] = to]

InLoop == {"load", "next", "work", "merge", "record"}
Looping == {r \in Runner : runAt[r] \in InLoop}
Dead(p) == p \notin Runner \/ runAt[p] = "done"

\* fs.writeFile with "wx": creates an empty file, or meets one.
Claims(r) ==
  /\ \/ runLock = NoLock /\ runLock' = [by |-> r, whole |-> FALSE]
        /\ runAt[r] \in {"claim", "again"} /\ runAt' = [runAt EXCEPT ![r] = "stamp"]
     \/ runLock # NoLock /\ UNCHANGED runLock
        /\ (Goes(r, "claim", "look") \/ Goes(r, "again", "last look"))
  /\ UNCHANGED <<beating, overlapped>>

\* The content goes to the file that was opened; then the run is in.
StampsRun(r) ==
  /\ Goes(r, "stamp", "load")
  /\ runLock' = IF runLock.by = r THEN [runLock EXCEPT !.whole = TRUE] ELSE runLock
  /\ overlapped' = (overlapped \/ Looping # {}) /\ UNCHANGED beating

\* A complete lock of a live process refuses; a torn or dead one is removed, and
\* the creation is tried once more.
LooksAtRun(r) ==
  /\ runAt[r] \in {"look", "last look"}
  /\ IF runLock.whole /\ ~Dead(runLock.by)
     THEN runAt' = [runAt EXCEPT ![r] = "done"] /\ UNCHANGED runLock
     ELSE /\ runAt' = [runAt EXCEPT ![r] = IF runAt[r] = "look" THEN "unlink" ELSE "last unlink"]
          /\ UNCHANGED runLock
  /\ UNCHANGED <<beating, overlapped>>

UnlinksRun(r) ==
  /\ Goes(r, "unlink", "again") \/ Goes(r, "last unlink", "done")
  /\ runLock' = NoLock /\ UNCHANGED <<beating, overlapped>>

\* The heartbeat writes to the path, not to a file it holds: it empties what is
\* there or creates it, and then writes.
BeatOpens(r) ==
  /\ r \in Looping \ beating /\ beating' = beating \cup {r}
  /\ runLock' = [by |-> r, whole |-> FALSE] /\ UNCHANGED <<runAt, overlapped>>

BeatWrites(r) ==
  /\ r \in beating /\ beating' = beating \ {r}
  /\ runLock' = IF runLock.by = r THEN [runLock EXCEPT !.whole = TRUE] ELSE runLock
  /\ UNCHANGED <<runAt, overlapped>>

\* Removes whatever is at the path.
ReleasesRun(r) ==
  /\ Goes(r, "release", "done") /\ runLock' = NoLock /\ UNCHANGED <<beating, overlapped>>

RunLockSteps(r) ==
  /\ \/ Claims(r) \/ StampsRun(r) \/ LooksAtRun(r) \/ UnlinksRun(r) \/ BeatOpens(r) \/ BeatWrites(r)
     \/ ReleasesRun(r)
  /\ UNCHANGED <<planVars, teamVars, plan>>

---------------------------------------------------------------------------
(* Execution                                                               *)

\* The state file first: complete and approved, or the run ends.
ReadsState(r) ==
  /\ Goes(r, "idle", IF ralplan.phase = "complete" /\ ralplan.approved THEN "bytes" ELSE "done")
  /\ plan' = [plan EXCEPT ![r] = ralplan.hash]
  /\ UNCHANGED teamVars

\* Defect: the bytes that are read are executed.
TakesBytes(r) ==
  /\ Goes(r, "bytes", "claim") /\ plan' = [plan EXCEPT ![r] = planFile]
  /\ UNCHANGED teamVars

\* Then the bytes, which must be the reviewed ones.
ReadsBytes(r) ==
  /\ Goes(r, "bytes", IF planFile = plan[r] THEN "claim" ELSE "done")
  /\ UNCHANGED <<plan, teamVars>>

Fresh(r) == [hash |-> plan[r], done |-> 0, phase |-> "executing"]

Again == IF teamState.phase = "failed" THEN [teamState EXCEPT !.phase = "executing"] ELSE teamState

\* Defect: the state of another plan is continued.
LoadsAny(r) ==
  /\ Goes(r, "load", "next")
  /\ mine' = [mine EXCEPT ![r] = IF teamState = NoTeam THEN Fresh(r)
                                 ELSE [Again EXCEPT !.hash = plan[r]]]
  /\ teamState' = mine'[r] /\ UNCHANGED <<plan, merged, succeeded, recorded>>

\* The state of the same plan is continued, any other is replaced; what is loaded
\* is written back.
Loads(r) ==
  /\ Goes(r, "load", "next")
  /\ mine' = [mine EXCEPT ![r] = IF teamState.hash # plan[r] THEN Fresh(r) ELSE Again]
  /\ recorded' = IF teamState.hash # plan[r] THEN {} ELSE recorded
  /\ teamState' = mine'[r] /\ UNCHANGED <<plan, merged, succeeded>>

Ahead(r) == mine[r].done + 1
InGroup(t) == Parallel > 1 /\ t > Tasks - Parallel
\* The next tasks: one, or the group, which is all pending when its first task is.
Batch(r) == IF InGroup(Ahead(r)) THEN Ahead(r) .. Tasks ELSE {Ahead(r)}
Pairs(r, tasks) == {<<plan[r], t>> : t \in tasks}

StartsBatch(r) ==
  /\ mine[r].done < Tasks /\ Goes(r, "next", "work")
  /\ merged' = [merged EXCEPT ![r] = 0]
  /\ UNCHANGED <<plan, teamState, mine, succeeded, recorded>>

\* The verdict on the batch.  A group has committed in its worktrees by now and is
\* merged step by step; a serial task worked in place.
Succeeds(r) ==
  /\ IF InGroup(Ahead(r)) THEN Goes(r, "work", "merge") /\ UNCHANGED succeeded
     ELSE Goes(r, "work", "record") /\ succeeded' = succeeded \cup Pairs(r, Batch(r))
  /\ UNCHANGED <<plan, teamState, mine, merged, recorded>>

Merges(r) ==
  LET step == Ahead(r) + merged[r] IN
  /\ runAt[r] = "merge" /\ succeeded' = succeeded \cup Pairs(r, {step})
  /\ merged' = [merged EXCEPT ![r] = @ + 1]
  /\ runAt' = IF step = Tasks THEN [runAt EXCEPT ![r] = "record"] ELSE runAt
  /\ UNCHANGED <<plan, teamState, mine, recorded>>

\* A failed verdict, or a merge conflict, which leaves the earlier merges.
Fails(r) ==
  /\ Goes(r, "work", "release") \/ Goes(r, "merge", "release")
  /\ mine' = [mine EXCEPT ![r].phase = "failed"] /\ teamState' = mine'[r]
  /\ UNCHANGED <<plan, merged, succeeded, recorded>>

\* Defect: the record stays in memory.
RecordsNothing(r) ==
  /\ Goes(r, "record", "next")
  /\ mine' = [mine EXCEPT ![r].done = @ + Cardinality(Batch(r))]
  /\ recorded' = recorded \cup Pairs(r, Batch(r)) /\ UNCHANGED <<plan, merged, succeeded, teamState>>

Records(r) ==
  /\ Goes(r, "record", "next")
  /\ mine' = [mine EXCEPT ![r].done = @ + Cardinality(Batch(r))] /\ teamState' = mine'[r]
  /\ recorded' = recorded \cup Pairs(r, Batch(r)) /\ UNCHANGED <<plan, merged, succeeded>>

Completes(r) ==
  /\ mine[r].done >= Tasks /\ Goes(r, "next", "release")
  /\ mine' = [mine EXCEPT ![r].phase = "complete"] /\ teamState' = mine'[r]
  /\ UNCHANGED <<plan, merged, succeeded, recorded>>

\* The signal is looked at before a batch and behind its work, before the record.
RunAborts(r) ==
  /\ (mine[r].done < Tasks /\ Goes(r, "next", "release")) \/ Goes(r, "record", "release")
  /\ UNCHANGED <<plan, teamVars>>

RunSteps(r) ==
  /\ \/ ReadsState(r) \/ ReadsBytes(r) \/ Loads(r) \/ StartsBatch(r) \/ Succeeds(r) \/ Merges(r)
     \/ Fails(r) \/ Records(r) \/ Completes(r) \/ RunAborts(r)
  /\ UNCHANGED <<planVars, runLockVars, overlapped>>

\* A process that dies leaves the files as they are.
RunDies(r) ==
  /\ runAt[r] \notin {"idle", "done"} /\ runAt' = [runAt EXCEPT ![r] = "done"]
  /\ beating' = beating \ {r}
  /\ plan' = [plan EXCEPT ![r] = Edited] /\ mine' = [mine EXCEPT ![r] = NoTeam]
  /\ merged' = [merged EXCEPT ![r] = 0]
  /\ UNCHANGED <<planVars, teamState, succeeded, recorded, runLock, overlapped>>

WorkNext ==
  \/ PlanSteps
  \/ \E r \in Runner : RunLockSteps(r) \/ RunSteps(r) \/ RunDies(r)

WorkSpec == WorkInit /\ [][WorkNext]_workVars

---------------------------------------------------------------------------
(* Properties                                                              *)

\* What a run executes is bytes that the critic accepted and that were approved,
\* whatever was drafted, edited and approved while it started (runTeamEngine:
\* "execution requires the exact reviewed bytes").
ExecutesApproved == \A r \in Looping : plan[r] \in reviewed \cap approved

\* An execution that reads complete has carried every task of its plan to success,
\* over crashes, failures, conflicts and changes of the plan (a state "left over
\* from a previous plan" would make the next plan "a false success").
NothingSkipped ==
  teamState.phase = "complete" => \A t \in 1 .. Tasks : <<teamState.hash, t>> \in succeeded

\* As long as runs do not overlap, a task that was recorded is not started again,
\* unless a run has executed another plan in between: a run checks its plan before it
\* waits for the lock (runTeamEngine), so an older plan may still take over the state.
RecordedOnce ==
  [][\A r \in Runner : runAt[r] = "next" /\ runAt'[r] = "work" /\ ~overlapped =>
       Pairs(r, Batch(r)) \cap recorded = {}]_workVars

\* The loop belongs to one run at a time (acquireWorkflowRunLock: "a LIVE holder
\* refuses").
OneRun == Cardinality(Looping) <= 1
=============================================================================

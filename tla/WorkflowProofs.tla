---------------------------- MODULE WorkflowProofs ----------------------------
(***************************************************************************)
(* What a run executes and what a complete execution has done, for any     *)
(* number of runs, tasks and plans.                                        *)
(*                                                                         *)
(* The run lock does not exclude a second run, so no proof uses it: every  *)
(* run acts on a plan and a state that were right when it read them, and   *)
(* what was accepted, approved or carried out never ceases to be.  Only    *)
(* that no recorded task is started again needs runs that do not overlap.  *)
(***************************************************************************)
EXTENDS Workflow, FiniteSetTheorems, TLAPS

Standing == {"idle", "bytes", "claim", "again", "look", "last look", "unlink", "last unlink",
             "stamp", "load", "next", "work", "merge", "record", "release", "done"}

Allowed == reviewed \cap approved

\* The bytes a state calls accepted were accepted, those it calls approved were approved.
Founded(state) ==
  /\ state.okay => state.hash \in reviewed
  /\ state.approved => state.okay /\ state.hash \in approved

\* Whoever has read a complete and approved state acts on allowed bytes to its end.
PlanInv ==
  /\ runAt \in [Runner -> Standing] /\ plan \in [Runner -> Nat] /\ drafts \in Nat
  /\ ralplan \in [phase : {"none", "planning", "complete"}, hash : Nat, okay : BOOLEAN, approved : BOOLEAN]
  /\ approving \in [phase : {"none", "planning", "complete"}, hash : Nat, okay : BOOLEAN, approved : BOOLEAN]
  /\ Founded(ralplan)
  /\ approving # NoState => approving.okay /\ approving.hash \in reviewed
  /\ \A r \in Runner : runAt[r] \notin {"idle", "done"} => plan[r] \in Allowed

---------------------------------------------------------------------------
(* Plans                                                                   *)

\* Nothing is accepted, approved or run yet.
LEMMA PlanStarts == WorkInit => PlanInv
BY DEF WorkInit, PlanInv, NoState, Founded, Standing, Edited

\* Planning and approving only add to what is accepted and approved.
LEMMA PlanningKeeps == ASSUME PlanInv, PlanSteps PROVE PlanInv'
<1> USE DEF PlanInv, Founded, Allowed, NoState, Edited
<1>1. UNCHANGED <<runAt, plan>>
  BY DEF PlanSteps
<1>2. CASE StartsPlanning BY <1>1, <1>2 DEF StartsPlanning
<1>3. CASE WritesPlan BY <1>1, <1>3 DEF WritesPlan
<1>4. CASE AsksRevision BY <1>1, <1>4 DEF AsksRevision
<1>5. CASE PlannerStops BY <1>1, <1>5 DEF PlannerStops
<1>6. CASE EditsPlan BY <1>1, <1>6 DEF EditsPlan
<1>7. CASE ApprovalReads BY <1>1, <1>7 DEF ApprovalReads
<1>8. CASE ApprovalWrites BY <1>1, <1>8 DEF ApprovalWrites
<1>9. ASSUME NEW okay \in BOOLEAN, RecordsVerdict(okay) PROVE PlanInv'
  BY <1>1, <1>9 DEF RecordsVerdict
<1>10. QED BY <1>2, <1>3, <1>4, <1>5, <1>6, <1>7, <1>8, <1>9 DEF PlanSteps

\* The lock steps move runs on and leave their plans alone.
LEMMA LockingKeeps == ASSUME PlanInv, NEW r \in Runner, RunLockSteps(r) PROVE PlanInv'
<1>1. UNCHANGED <<planVars, plan>>
  BY DEF RunLockSteps
<1>2. runAt' \in [Runner -> Standing] /\ \A p \in Runner : runAt'[p] \notin {"idle", "done"} => runAt[p] \notin {"idle", "done"}
  <2> USE DEF PlanInv, Standing, Goes
  <2>1. CASE Claims(r) BY <2>1 DEF Claims
  <2>2. CASE StampsRun(r) BY <2>2 DEF StampsRun
  <2>3. CASE LooksAtRun(r) BY <2>3 DEF LooksAtRun
  <2>4. CASE UnlinksRun(r) BY <2>4 DEF UnlinksRun
  <2>5. CASE BeatOpens(r) \/ BeatWrites(r) BY <2>5 DEF BeatOpens, BeatWrites
  <2>6. CASE ReleasesRun(r) BY <2>6 DEF ReleasesRun
  <2>7. QED BY <2>1, <2>2, <2>3, <2>4, <2>5, <2>6 DEF RunLockSteps
<1>3. QED BY <1>1, <1>2 DEF PlanInv, planVars, Founded, Allowed

\* A run takes the hash from a complete and approved state, and stays with it.
LEMMA RunningKeeps == ASSUME PlanInv, NEW r \in Runner, RunSteps(r) PROVE PlanInv'
<1>1. UNCHANGED planVars
  BY DEF RunSteps
<1>2. CASE ReadsState(r)
  BY <1>1, <1>2 DEF ReadsState, PlanInv, planVars, Founded, Allowed, Goes, Standing
<1>3. ASSUME UNCHANGED plan, runAt' \in [Runner -> Standing],
             \A p \in Runner : runAt'[p] \notin {"idle", "done"} => runAt[p] \notin {"idle", "done"}
      PROVE  PlanInv'
  BY <1>1, <1>3 DEF PlanInv, planVars, Founded, Allowed
<1> USE DEF PlanInv, Goes, Standing
<1>4. CASE ReadsBytes(r) BY <1>3, <1>4 DEF ReadsBytes
<1>5. CASE Loads(r) BY <1>3, <1>5 DEF Loads
<1>6. CASE StartsBatch(r) BY <1>3, <1>6 DEF StartsBatch
<1>7. CASE Succeeds(r) BY <1>3, <1>7 DEF Succeeds
<1>8. CASE Merges(r) BY <1>3, <1>8 DEF Merges
<1>9. CASE Fails(r) BY <1>3, <1>9 DEF Fails
<1>10. CASE Records(r) BY <1>3, <1>10 DEF Records
<1>11. CASE Completes(r) BY <1>3, <1>11 DEF Completes
<1>12. CASE RunAborts(r) BY <1>3, <1>12 DEF RunAborts
<1>13. QED BY <1>2, <1>4, <1>5, <1>6, <1>7, <1>8, <1>9, <1>10, <1>11, <1>12 DEF RunSteps

\* The invariant is inductive; a death only ends a run.
LEMMA PlanStep == PlanInv /\ [WorkNext]_workVars => PlanInv'
<1> SUFFICES ASSUME PlanInv, [WorkNext]_workVars PROVE PlanInv'
  OBVIOUS
<1>1. ASSUME NEW r \in Runner, RunDies(r) PROVE PlanInv'
  BY <1>1 DEF RunDies, PlanInv, planVars, Founded, Allowed, Standing, Edited
<1>2. CASE UNCHANGED workVars
  BY <1>2 DEF workVars, planVars, PlanInv, Founded, Allowed
<1>3. QED BY <1>1, <1>2, PlanningKeeps, LockingKeeps, RunningKeeps DEF WorkNext

\* A run that has passed its checks executes bytes that the critic accepted and that were
\* approved (runTeamEngine), whatever planners, editors and approvals do meanwhile.
THEOREM OnlyApproved == WorkSpec => []ExecutesApproved
<1>1. PlanInv => ExecutesApproved
  BY DEF PlanInv, ExecutesApproved, Looping, InLoop, Allowed
<1>2. QED BY <1>1, PlanStarts, PlanStep, PTL DEF WorkSpec

---------------------------------------------------------------------------
(* Tasks                                                                   *)

TeamState == [hash : Nat, done : Nat, phase : {"missing", "executing", "failed", "complete"}]

\* What a state counts as done was carried to success, and it is complete with all.
Carried(state) ==
  /\ \A t \in 1 .. state.done : <<state.hash, t>> \in succeeded
  /\ state.phase = "complete" => state.done >= Tasks

\* A run works on the tasks behind those of its state, and what it is about to count
\* has succeeded.
WorkingOn(r) ==
  /\ runAt[r] \in {"next", "work", "merge", "record"} => mine[r].hash = plan[r]
  /\ runAt[r] \in {"work", "merge", "record"} => mine[r].done < Tasks
  /\ runAt[r] = "work" => merged[r] = 0
  /\ runAt[r] = "merge" => /\ InGroup(Ahead(r)) /\ mine[r].done + merged[r] < Tasks
                        /\ Pairs(r, Ahead(r) .. mine[r].done + merged[r]) \subseteq succeeded
  /\ runAt[r] = "record" => Pairs(r, Batch(r)) \subseteq succeeded

DoneTypes ==
  /\ runAt \in [Runner -> Standing] /\ plan \in [Runner -> Nat] /\ merged \in [Runner -> Nat]
  /\ mine \in [Runner -> TeamState] /\ teamState \in TeamState

DoneInv ==
  /\ DoneTypes /\ Carried(teamState)
  /\ \A r \in Runner : Carried(mine[r]) /\ WorkingOn(r)

\* No task is recorded, and no run has one at hand.
LEMMA WorkStarts == WorkInit => DoneInv
BY DEF WorkInit, DoneInv, DoneTypes, NoTeam, Edited, Standing, TeamState, Carried, WorkingOn

\* A batch is one task or all that are left.
LEMMA BatchSize ==
  ASSUME DoneInv, Tasks \in Nat, NEW r \in Runner, mine[r].done < Tasks
  PROVE  /\ mine[r].done \in Nat /\ Cardinality(Batch(r)) \in Nat
         /\ Batch(r) = Ahead(r) .. mine[r].done + Cardinality(Batch(r))
<1>1. mine[r].done \in Nat /\ Ahead(r) = mine[r].done + 1
  BY DEF DoneInv, DoneTypes, TeamState, Ahead
<1>2. CASE InGroup(Ahead(r))
  <2>1. Batch(r) = Ahead(r) .. Tasks
    BY <1>2 DEF Batch
  <2>2. Cardinality(Batch(r)) = Tasks - mine[r].done
    BY <1>1, <2>1, FS_Interval
  <2>3. QED BY <1>1, <2>1, <2>2
<1>3. CASE ~InGroup(Ahead(r))
  <2>1. Batch(r) = {Ahead(r)}
    BY <1>3 DEF Batch
  <2>2. Cardinality(Batch(r)) = 1
    BY <2>1, FS_Singleton
  <2>3. QED BY <1>1, <2>1, <2>2
<1>4. QED BY <1>2, <1>3

\* A step that changes no state of the tasks, and takes no run to another of the places
\* that speak of them, keeps everything.
LEMMA StandsStill ==
  ASSUME DoneInv, UNCHANGED <<plan, teamVars>>, runAt' \in [Runner -> Standing],
         \A r \in Runner : runAt'[r] \in {"next", "work", "merge", "record"} => runAt'[r] = runAt[r]
  PROVE  DoneInv'
BY DEF DoneInv, DoneTypes, teamVars, Carried, WorkingOn, Ahead, Batch, Pairs, InGroup

\* What has succeeded stays so, whoever adds to it.
LEMMA OthersKeep ==
  ASSUME DoneInv, NEW r \in Runner, UNCHANGED plan, succeeded \subseteq succeeded', DoneTypes',
         \A p \in Runner \ {r} : runAt'[p] = runAt[p] /\ mine'[p] = mine[p] /\ merged'[p] = merged[p],
         teamState' \in {teamState, mine'[r]}, Carried(mine[r])', WorkingOn(r)'
  PROVE  DoneInv'
<1>1. \A p \in Runner \ {r} : Carried(mine[p])'
  BY DEF DoneInv, Carried
<1>2. \A p \in Runner \ {r} : WorkingOn(p)'
  BY DEF DoneInv, WorkingOn, Ahead, Batch, Pairs, InGroup
<1>3. Carried(teamState)'
  BY DEF DoneInv, Carried
<1>4. QED BY <1>1, <1>2, <1>3 DEF DoneInv

\* The state of the same plan is continued from what it counts.
LEMMA LoadKeeps == ASSUME DoneInv, NEW r \in Runner, Loads(r) PROVE DoneInv'
<1>1. mine'[r] \in {Fresh(r), Again} /\ mine'[r].hash = plan[r] /\ teamState' = mine'[r]
  BY DEF Loads, DoneInv, DoneTypes, Fresh, Again, TeamState
<1>2. mine'[r] \in TeamState /\ mine' \in [Runner -> TeamState]
  BY DEF Loads, DoneInv, DoneTypes, Fresh, Again, TeamState
<1>3. Carried(mine[r])'
  BY <1>1, <1>2 DEF Loads, DoneInv, DoneTypes, Fresh, Again, TeamState, Carried
<1>4. WorkingOn(r)'
  BY <1>1 DEF Loads, Goes, WorkingOn, DoneInv, DoneTypes
<1>5. DoneTypes'
  BY <1>1, <1>2 DEF Loads, Goes, DoneInv, DoneTypes, Standing
<1>6. QED BY <1>1, <1>3, <1>4, <1>5, OthersKeep DEF Loads, Goes, DoneInv, DoneTypes

\* A batch begins behind what is counted.
LEMMA StartKeeps == ASSUME DoneInv, NEW r \in Runner, StartsBatch(r) PROVE DoneInv'
<1>1. DoneTypes'
  BY DEF StartsBatch, Goes, DoneInv, DoneTypes, Standing
<1>2. Carried(mine[r])' /\ WorkingOn(r)'
  BY DEF StartsBatch, Goes, DoneInv, DoneTypes, Carried, WorkingOn
<1>3. QED BY <1>1, <1>2, OthersKeep DEF StartsBatch, Goes, DoneInv, DoneTypes

\* A serial task has succeeded before it is counted; a group is merged first.
LEMMA SuccessKeeps ==
  ASSUME DoneInv, Tasks \in Nat, NEW r \in Runner, Succeeds(r)
  PROVE  DoneInv'
<1>1. DoneTypes' /\ UNCHANGED <<plan, mine, teamState, merged>> /\ succeeded \subseteq succeeded'
  BY DEF Succeeds, Goes, DoneInv, DoneTypes, Standing
<1>2. Carried(mine[r])'
  BY <1>1 DEF DoneInv, Carried
<1>3. \A p \in Runner \ {r} : runAt'[p] = runAt[p]
  BY DEF Succeeds, Goes, DoneInv, DoneTypes
<1>4. WorkingOn(r)'
  <2>1. CASE ~InGroup(Ahead(r))
    BY <1>1, <2>1 DEF Succeeds, Goes, WorkingOn, DoneInv, DoneTypes, Ahead, Batch, Pairs, InGroup
  <2>2. CASE InGroup(Ahead(r))
    BY <1>1, <2>2 DEF Succeeds, Goes, WorkingOn, DoneInv, DoneTypes, TeamState, Ahead, Batch, Pairs, InGroup
  <2>3. QED BY <2>1, <2>2
<1>5. QED BY <1>1, <1>2, <1>3, <1>4, OthersKeep

\* A merged step has succeeded, and the last one completes the group.
LEMMA MergeKeeps ==
  ASSUME DoneInv, Tasks \in Nat, NEW r \in Runner, Merges(r)
  PROVE  DoneInv'
<1> DEFINE step == Ahead(r) + merged[r]
<1>1. /\ runAt[r] = "merge" /\ UNCHANGED <<plan, mine, teamState>> /\ merged'[r] = merged[r] + 1
      /\ succeeded' = succeeded \cup Pairs(r, {step})
      /\ mine[r].done \in Nat /\ merged[r] \in Nat /\ mine[r].done + merged[r] < Tasks
      /\ InGroup(Ahead(r)) /\ Ahead(r) = mine[r].done + 1
      /\ Pairs(r, Ahead(r) .. mine[r].done + merged[r]) \subseteq succeeded
  BY DEF Merges, DoneInv, DoneTypes, TeamState, WorkingOn, Ahead
<1>2. DoneTypes' /\ runAt'[r] = IF step = Tasks THEN "record" ELSE "merge"
  <2>1. runAt' = [runAt EXCEPT ![r] = IF step = Tasks THEN "record" ELSE "merge"]
    BY <1>1 DEF Merges, DoneInv, DoneTypes
  <2>2. merged' = [merged EXCEPT ![r] = merged[r] + 1]
    BY DEF Merges
  <2>3. DoneTypes
    BY DEF DoneInv
  <2> HIDE DEF step
  <2>4. runAt' \in [Runner -> Standing] /\ runAt'[r] = IF step = Tasks THEN "record" ELSE "merge"
    BY <2>1, <2>3 DEF DoneTypes, Standing
  <2>5. merged' \in [Runner -> Nat]
    BY <1>1, <2>2, <2>3 DEF DoneTypes
  <2>6. QED BY <1>1, <2>3, <2>4, <2>5 DEF DoneTypes
<1>3. Carried(mine[r])'
  BY <1>1 DEF DoneInv, Carried
<1>4. Pairs(r, Ahead(r) .. mine[r].done + merged'[r]) \subseteq succeeded'
  <2>1. \A t \in Ahead(r) .. mine[r].done + merged'[r] : t \in Ahead(r) .. mine[r].done + merged[r] \/ t = step
    BY <1>1
  <2> HIDE DEF step
  <2>2. QED BY <1>1, <2>1 DEF Pairs
<1>5. WorkingOn(r)'
  <2>1. CASE step = Tasks
    <3>1. runAt'[r] = "record" /\ mine[r].done + merged'[r] = Tasks
      BY <1>1, <1>2, <2>1
    <3>2. Batch(r)' = Ahead(r) .. Tasks
      BY <1>1 DEF Batch, Ahead, InGroup
    <3>3. Pairs(r, Batch(r))' \subseteq succeeded'
      BY <1>1, <1>4, <3>1, <3>2 DEF Pairs
    <3>4. mine'[r].hash = plan'[r] /\ mine'[r].done < Tasks
      BY <1>1 DEF DoneInv, WorkingOn
    <3>5. QED BY <3>1, <3>3, <3>4 DEF WorkingOn
  <2>2. CASE step # Tasks
    <3>1. runAt'[r] = "merge" /\ mine[r].done + merged'[r] < Tasks
      BY <1>1, <1>2, <2>2
    <3>2. Ahead(r)' = Ahead(r) /\ InGroup(Ahead(r))' /\ mine'[r].done + merged'[r] < Tasks
      BY <1>1, <3>1 DEF Ahead, InGroup
    <3>3. Pairs(r, Ahead(r) .. mine[r].done + merged[r])' \subseteq succeeded'
      BY <1>1, <1>4, <3>2 DEF Pairs
    <3>4. mine'[r].hash = plan'[r] /\ mine'[r].done < Tasks
      BY <1>1 DEF DoneInv, WorkingOn
    <3>5. QED BY <3>1, <3>2, <3>3, <3>4 DEF WorkingOn
  <2>3. QED BY <2>1, <2>2
<1>6. QED BY <1>1, <1>2, <1>3, <1>5, OthersKeep DEF Merges, DoneInv, DoneTypes

\* A failed state counts what it counted.
LEMMA FailureKeeps == ASSUME DoneInv, NEW r \in Runner, Fails(r) PROVE DoneInv'
<1>1. DoneTypes' /\ runAt'[r] = "release" /\ mine'[r] = [mine[r] EXCEPT !.phase = "failed"]
  BY DEF Fails, Goes, DoneInv, DoneTypes, TeamState, Standing
<1>2. Carried(mine[r])' /\ WorkingOn(r)'
  BY <1>1 DEF Fails, DoneInv, DoneTypes, TeamState, Carried, WorkingOn
<1>3. QED BY <1>1, <1>2, OthersKeep DEF Fails, Goes, DoneInv, DoneTypes

\* A run counts a batch that has succeeded.
LEMMA RecordKeeps ==
  ASSUME DoneInv, Tasks \in Nat, NEW r \in Runner, Records(r)
  PROVE  DoneInv'
<1> DEFINE size == Cardinality(Batch(r))
<1>1. /\ runAt[r] = "record" /\ runAt'[r] = "next" /\ UNCHANGED <<plan, succeeded, merged>>
      /\ mine[r] \in TeamState /\ mine[r].hash = plan[r] /\ mine[r].done < Tasks
      /\ Pairs(r, Batch(r)) \subseteq succeeded /\ teamState' = mine'[r]
      /\ \A t \in 1 .. mine[r].done : <<mine[r].hash, t>> \in succeeded
      /\ mine[r].phase = "complete" => mine[r].done >= Tasks
  BY DEF Records, Goes, DoneInv, DoneTypes, Carried, WorkingOn
<1>2. /\ mine[r].done \in Nat /\ size \in Nat /\ Batch(r) = Ahead(r) .. mine[r].done + size
      /\ Ahead(r) = mine[r].done + 1
  BY <1>1, BatchSize DEF Ahead
<1>3. mine' = [mine EXCEPT ![r].done = @ + size]
  BY DEF Records
<1> HIDE DEF size
<1>4. /\ mine'[r] \in TeamState /\ mine'[r].done = mine[r].done + size
      /\ mine'[r].hash = mine[r].hash /\ mine'[r].phase = mine[r].phase
      /\ mine' \in [Runner -> TeamState]
  <2>1. mine'[r] = [mine[r] EXCEPT !.done = @ + size] /\ \A p \in Runner \ {r} : mine'[p] = mine[p]
    BY <1>3 DEF DoneInv, DoneTypes
  <2>2. mine'[r].done = mine[r].done + size /\ mine'[r].hash = mine[r].hash
        /\ mine'[r].phase = mine[r].phase /\ mine'[r] \in TeamState
    BY <1>1, <1>2, <2>1 DEF TeamState
  <2>3. mine' \in [Runner -> TeamState]
    BY <1>3, <2>1, <2>2 DEF DoneInv, DoneTypes
  <2>4. QED BY <2>2, <2>3
<1>5. \A t \in 1 .. mine'[r].done : t \in 1 .. mine[r].done \/ t \in Batch(r)
  BY <1>2, <1>4
<1>6. Carried(mine[r])'
  BY <1>1, <1>2, <1>4, <1>5 DEF Carried, Pairs
<1>7. WorkingOn(r)'
  BY <1>1, <1>4 DEF WorkingOn
<1>8. DoneTypes'
  BY <1>1, <1>4 DEF Records, Goes, DoneInv, DoneTypes, Standing
<1>9. QED BY <1>1, <1>6, <1>7, <1>8, OthersKeep DEF Records, Goes, DoneInv, DoneTypes

\* Only a state that counts every task is called complete.
LEMMA CompletionKeeps == ASSUME DoneInv, NEW r \in Runner, Completes(r) PROVE DoneInv'
<1>1. DoneTypes' /\ runAt'[r] = "release" /\ mine'[r] = [mine[r] EXCEPT !.phase = "complete"]
  BY DEF Completes, Goes, DoneInv, DoneTypes, TeamState, Standing
<1>2. Carried(mine[r])' /\ WorkingOn(r)'
  BY <1>1 DEF Completes, DoneInv, DoneTypes, TeamState, Carried, WorkingOn
<1>3. QED BY <1>1, <1>2, OthersKeep DEF Completes, Goes, DoneInv, DoneTypes

\* The lock steps end before the loop, in it leave the runs where they are.
LEMMA LocksKeepTasks == ASSUME DoneInv, NEW r \in Runner, RunLockSteps(r) PROVE DoneInv'
<1>1. UNCHANGED <<plan, teamVars>>
  BY DEF RunLockSteps
<1>2. /\ runAt' \in [Runner -> Standing]
      /\ \A p \in Runner : runAt'[p] \in {"next", "work", "merge", "record"} => runAt'[p] = runAt[p]
  <2> USE DEF DoneInv, DoneTypes, Standing, Goes
  <2>1. CASE Claims(r) BY <2>1 DEF Claims
  <2>2. CASE StampsRun(r) BY <2>2 DEF StampsRun
  <2>3. CASE LooksAtRun(r) BY <2>3 DEF LooksAtRun
  <2>4. CASE UnlinksRun(r) BY <2>4 DEF UnlinksRun
  <2>5. CASE BeatOpens(r) \/ BeatWrites(r) BY <2>5 DEF BeatOpens, BeatWrites
  <2>6. CASE ReleasesRun(r) BY <2>6 DEF ReleasesRun
  <2>7. QED BY <2>1, <2>2, <2>3, <2>4, <2>5, <2>6 DEF RunLockSteps
<1>3. QED BY <1>1, <1>2, StandsStill

\* The steps of a run.
LEMMA RunsKeepTasks ==
  ASSUME PlanInv, DoneInv, Tasks \in Nat, NEW r \in Runner, RunSteps(r)
  PROVE  DoneInv'
<1>1. CASE ReadsState(r)
  <2>1. DoneTypes' /\ UNCHANGED teamVars /\ runAt'[r] \in {"bytes", "done"}
    <3>1. ralplan.hash \in Nat
      BY DEF PlanInv
    <3>2. QED BY <1>1, <3>1 DEF ReadsState, Goes, DoneInv, DoneTypes, teamVars, Standing
  <2>2. Carried(teamState)' /\ \A p \in Runner : Carried(mine[p])'
    BY <2>1 DEF DoneInv, teamVars, Carried
  <2>3. \A p \in Runner \ {r} : plan'[p] = plan[p] /\ runAt'[p] = runAt[p]
    BY <1>1 DEF ReadsState, Goes, DoneInv, DoneTypes
  <2>4. \A p \in Runner : WorkingOn(p)'
    BY <2>1, <2>3 DEF DoneInv, teamVars, WorkingOn, Ahead, Batch, Pairs, InGroup
  <2>5. QED BY <2>1, <2>2, <2>4 DEF DoneInv
<1>2. CASE ReadsBytes(r)
  BY <1>2, StandsStill DEF ReadsBytes, Goes, DoneInv, DoneTypes, Standing
<1>3. CASE RunAborts(r)
  BY <1>3, StandsStill DEF RunAborts, Goes, DoneInv, DoneTypes, Standing
<1>4. QED BY <1>1, <1>2, <1>3, LoadKeeps, StartKeeps, SuccessKeeps, MergeKeeps, FailureKeeps,
             RecordKeeps, CompletionKeeps DEF RunSteps

\* The invariant is inductive.
LEMMA TaskStep ==
  ASSUME Tasks \in Nat, PlanInv, DoneInv, [WorkNext]_workVars
  PROVE  DoneInv'
<1>1. CASE PlanSteps
  BY <1>1, StandsStill DEF PlanSteps, DoneInv, DoneTypes
<1>2. ASSUME NEW r \in Runner, RunDies(r) PROVE DoneInv'
  <2>1. DoneTypes' /\ mine'[r] = NoTeam /\ runAt'[r] = "done"
    BY <1>2 DEF RunDies, DoneInv, DoneTypes, NoTeam, TeamState, Edited, Standing
  <2>2. UNCHANGED <<teamState, succeeded>>
    BY <1>2 DEF RunDies
  <2>3. \A p \in Runner \ {r} : UNCHANGED <<runAt[p], plan[p], mine[p], merged[p]>>
    BY <1>2 DEF RunDies, DoneInv, DoneTypes
  <2>4. \A p \in Runner : Carried(mine[p])' /\ WorkingOn(p)'
    <3>1. Carried(mine[r])' /\ WorkingOn(r)'
      BY <2>1 DEF Carried, WorkingOn, NoTeam
    <3>2. QED BY <2>2, <2>3, <3>1 DEF DoneInv, Carried, WorkingOn, Ahead, Batch, Pairs, InGroup
  <2>5. QED BY <2>1, <2>2, <2>4 DEF DoneInv, Carried
<1>3. CASE UNCHANGED workVars
  BY <1>3, StandsStill DEF workVars, DoneInv, DoneTypes
<1>4. QED BY <1>1, <1>2, <1>3, LocksKeepTasks, RunsKeepTasks DEF WorkNext

\* An execution that reads complete has carried every task of its plan to success,
\* however many runs, crashes, failures and conflicts it took.
THEOREM CompleteMeansDone == WorkSpec => []NothingSkipped
<1>1. WorkInit => PlanInv /\ DoneInv
  BY PlanStarts, WorkStarts
<1>2. (PlanInv /\ DoneInv) /\ [WorkNext]_workVars => (PlanInv /\ DoneInv)'
  BY TaskCount, PlanStep, TaskStep
<1>3. PlanInv /\ DoneInv => NothingSkipped
  BY TaskCount DEF DoneInv, DoneTypes, TeamState, Carried, NothingSkipped
<1>4. QED BY <1>1, <1>2, <1>3, PTL DEF WorkSpec

---------------------------------------------------------------------------
(* Records                                                                 *)

\* A run alone in the loop holds in memory what the state file counts, and everything
\* recorded is counted there.
AloneInv ==
  /\ overlapped \in BOOLEAN
  /\ ~overlapped =>
       /\ \A p, q \in Looping : p = q
       /\ \A r \in Looping : runAt[r] # "load" =>
            mine[r].hash = teamState.hash /\ mine[r].done = teamState.done
       /\ \A x \in recorded : \E t \in 1 .. teamState.done : x = <<teamState.hash, t>>

\* A step that lets nobody into the loop and leaves the tasks alone keeps it.
LEMMA NobodyEnters ==
  ASSUME AloneInv, UNCHANGED <<teamState, mine, recorded, overlapped>>,
         \A r \in Runner : runAt'[r] \in InLoop =>
           runAt[r] \in InLoop /\ (runAt'[r] # "load" => runAt[r] # "load")
  PROVE  AloneInv'
BY DEF AloneInv, Looping

\* Entering beside another run is an overlap; a first one finds an empty loop.
LEMMA LocksKeepAlone ==
  ASSUME DoneInv, AloneInv, NEW r \in Runner, RunLockSteps(r)
  PROVE  AloneInv'
<1>1. UNCHANGED <<teamState, mine, recorded>>
  BY DEF RunLockSteps, teamVars
<1>2. CASE StampsRun(r)
  <2>1. /\ overlapped' = (overlapped \/ Looping # {})
        /\ runAt[r] = "stamp" /\ runAt' = [runAt EXCEPT ![r] = "load"]
    BY <1>2 DEF StampsRun, Goes
  <2>2. CASE Looping = {}
    <3>1. \A p \in Looping' : p = r
      BY <2>1, <2>2 DEF Looping, DoneInv, DoneTypes
    <3>2. runAt'[r] = "load"
      BY <2>1 DEF DoneInv, DoneTypes
    <3>3. overlapped' = overlapped
      BY <2>1, <2>2 DEF AloneInv
    <3>. QED BY <1>1, <3>1, <3>2, <3>3 DEF AloneInv
  <2>3. CASE Looping # {}
    BY <2>1, <2>3 DEF AloneInv
  <2>. QED BY <2>2, <2>3
<1>3. CASE ~StampsRun(r)
  <2>. USE DEF DoneInv, DoneTypes, Goes, InLoop
  <2>1. CASE Claims(r) BY <1>1, <2>1, NobodyEnters DEF Claims
  <2>2. CASE LooksAtRun(r) BY <1>1, <2>2, NobodyEnters DEF LooksAtRun
  <2>3. CASE UnlinksRun(r) BY <1>1, <2>3, NobodyEnters DEF UnlinksRun
  <2>4. CASE BeatOpens(r) \/ BeatWrites(r)
    BY <1>1, <2>4, NobodyEnters DEF BeatOpens, BeatWrites
  <2>5. CASE ReleasesRun(r) BY <1>1, <2>5, NobodyEnters DEF ReleasesRun
  <2>. QED BY <1>3, <2>1, <2>2, <2>3, <2>4, <2>5 DEF RunLockSteps
<1>. QED BY <1>2, <1>3

\* A run in the loop writes the state it holds; alone, it is the one the file counts.
LEMMA WritesAlone ==
  ASSUME DoneInv, AloneInv, NEW r \in Looping, runAt'[r] \in {"next", "release"},
         UNCHANGED overlapped, teamState' = mine'[r],
         \A p \in Runner \ {r} : runAt'[p] = runAt[p] /\ mine'[p] = mine[p],
         ~overlapped => \A x \in recorded' : \E t \in 1 .. mine'[r].done : x = <<mine'[r].hash, t>>
  PROVE  AloneInv'
<1>1. Looping' \subseteq Looping
  BY DEF Looping, InLoop
<1>2. CASE overlapped
  BY <1>2 DEF AloneInv
<1>3. CASE ~overlapped
  <2>1. \A p \in Looping : p = r
    BY <1>3 DEF AloneInv
  <2>. QED BY <1>1, <1>3, <2>1 DEF AloneInv
<1>. QED BY <1>2, <1>3

LEMMA LoadKeepsAlone ==
  ASSUME DoneInv, AloneInv, NEW r \in Runner, Loads(r), UNCHANGED overlapped
  PROVE  AloneInv'
<1>1. /\ r \in Looping /\ runAt'[r] = "next" /\ teamState' = mine'[r]
      /\ \A p \in Runner \ {r} : runAt'[p] = runAt[p] /\ mine'[p] = mine[p]
  BY DEF Loads, Goes, Looping, InLoop, DoneInv, DoneTypes
<1>2. mine'[r] = IF teamState.hash # plan[r] THEN Fresh(r) ELSE Again
  BY DEF Loads, DoneInv, DoneTypes
<1>3. recorded' = IF teamState.hash # plan[r] THEN {} ELSE recorded
  BY DEF Loads
<1>4. Again.done = teamState.done /\ Again.hash = teamState.hash
  BY DEF Again, DoneInv, DoneTypes, TeamState
<1>5. ~overlapped => \A x \in recorded' : \E t \in 1 .. mine'[r].done : x = <<mine'[r].hash, t>>
  BY <1>2, <1>3, <1>4 DEF AloneInv
<1>. QED BY <1>1, <1>5, WritesAlone

LEMMA RecordKeepsAlone ==
  ASSUME Tasks \in Nat, DoneInv, AloneInv, NEW r \in Runner, Records(r), UNCHANGED overlapped
  PROVE  AloneInv'
<1>. DEFINE size == Cardinality(Batch(r))
<1>1. /\ r \in Looping /\ runAt[r] = "record" /\ runAt'[r] = "next" /\ teamState' = mine'[r]
      /\ \A p \in Runner \ {r} : runAt'[p] = runAt[p] /\ mine'[p] = mine[p]
      /\ mine[r].hash = plan[r] /\ mine[r].done < Tasks
  BY DEF Records, Goes, Looping, InLoop, DoneInv, DoneTypes, WorkingOn
<1>2. /\ mine[r].done \in Nat /\ size \in Nat /\ Batch(r) = Ahead(r) .. mine[r].done + size
      /\ Ahead(r) = mine[r].done + 1
  BY <1>1, BatchSize DEF Ahead
<1>3. mine' = [mine EXCEPT ![r].done = @ + size] /\ recorded' = recorded \cup Pairs(r, Batch(r))
  BY DEF Records
<1>. HIDE DEF size
<1>4. mine'[r].done = mine[r].done + size /\ mine'[r].hash = mine[r].hash
  BY <1>3 DEF DoneInv, DoneTypes, TeamState
<1>5. ASSUME ~overlapped, NEW x \in recorded'
      PROVE  \E t \in 1 .. mine'[r].done : x = <<mine'[r].hash, t>>
  <2>1. mine[r].hash = teamState.hash /\ mine[r].done = teamState.done
    BY <1>1, <1>5 DEF AloneInv
  <2>2. CASE x \in recorded
    BY <1>2, <1>4, <1>5, <2>1, <2>2 DEF AloneInv
  <2>3. CASE x \in Pairs(r, Batch(r))
    BY <1>1, <1>2, <1>4, <2>3 DEF Pairs
  <2>. QED BY <1>3, <2>2, <2>3
<1>. QED BY <1>1, <1>5, WritesAlone

\* A run that fails or has completed changes the phase alone.
LEMMA LeavesAlone ==
  ASSUME DoneInv, AloneInv, NEW r \in Runner, Fails(r) \/ Completes(r), UNCHANGED overlapped
  PROVE  AloneInv'
<1>1. /\ r \in Looping /\ runAt[r] # "load" /\ runAt'[r] = "release" /\ teamState' = mine'[r]
      /\ \A p \in Runner \ {r} : runAt'[p] = runAt[p] /\ mine'[p] = mine[p]
      /\ recorded' = recorded
  BY DEF Fails, Completes, Goes, Looping, InLoop, DoneInv, DoneTypes
<1>2. mine'[r].done = mine[r].done /\ mine'[r].hash = mine[r].hash
  BY DEF Fails, Completes, DoneInv, DoneTypes, TeamState
<1>. QED BY <1>1, <1>2, WritesAlone DEF AloneInv

LEMMA AloneStep ==
  ASSUME Tasks \in Nat, DoneInv, AloneInv, [WorkNext]_workVars
  PROVE  AloneInv'
<1>. USE DEF DoneInv, DoneTypes, Goes, InLoop
<1>1. CASE PlanSteps \/ UNCHANGED workVars
  BY <1>1, NobodyEnters DEF PlanSteps, workVars, teamVars
<1>2. ASSUME NEW r \in Runner, RunDies(r) PROVE AloneInv'
  <2>1. /\ UNCHANGED <<teamState, recorded, overlapped>> /\ Looping' \subseteq Looping \ {r}
        /\ \A p \in Runner \ {r} : runAt'[p] = runAt[p] /\ mine'[p] = mine[p]
    BY <1>2 DEF RunDies, Looping
  <2>. QED BY <2>1 DEF AloneInv, Looping
<1>3. ASSUME NEW r \in Runner, RunSteps(r) PROVE AloneInv'
  <2>1. UNCHANGED overlapped
    BY <1>3 DEF RunSteps
  <2>2. CASE ReadsState(r) BY <2>1, <2>2, NobodyEnters DEF ReadsState, teamVars
  <2>3. CASE ReadsBytes(r) BY <2>1, <2>3, NobodyEnters DEF ReadsBytes, teamVars
  <2>4. CASE StartsBatch(r) BY <2>1, <2>4, NobodyEnters DEF StartsBatch
  <2>5. CASE Succeeds(r) BY <2>1, <2>5, NobodyEnters DEF Succeeds
  <2>6. CASE Merges(r) BY <2>1, <2>6, NobodyEnters DEF Merges
  <2>7. CASE RunAborts(r) BY <2>1, <2>7, NobodyEnters DEF RunAborts, teamVars
  <2>. QED
    BY <1>3, <2>1, <2>2, <2>3, <2>4, <2>5, <2>6, <2>7, LoadKeepsAlone, RecordKeepsAlone, LeavesAlone
    DEF RunSteps
<1>. QED BY <1>1, <1>2, <1>3, LocksKeepAlone DEF WorkNext

\* As long as runs do not overlap, no recorded task is started again unless another plan
\* was executed in between (runTeamEngine), for any number of runs, tasks and plans and
\* over every failure, abort and death.
THEOREM NothingRepeated == WorkSpec => RecordedOnce
<1>1. WorkInit => PlanInv /\ DoneInv /\ AloneInv
  <2>1. WorkInit => AloneInv
    BY DEF WorkInit, AloneInv, Looping, InLoop
  <2>. QED BY <2>1, PlanStarts, WorkStarts
<1>2. (PlanInv /\ DoneInv /\ AloneInv) /\ [WorkNext]_workVars => (PlanInv /\ DoneInv /\ AloneInv)'
  BY TaskCount, PlanStep, TaskStep, AloneStep
<1>3. DoneInv /\ AloneInv /\ [WorkNext]_workVars =>
        [\A r \in Runner : runAt[r] = "next" /\ runAt'[r] = "work" /\ ~overlapped =>
           Pairs(r, Batch(r)) \cap recorded = {}]_workVars
  <2>. SUFFICES ASSUME DoneInv, AloneInv, [WorkNext]_workVars, workVars' # workVars,
                       NEW r \in Runner, runAt[r] = "next", runAt'[r] = "work", ~overlapped
                PROVE  Pairs(r, Batch(r)) \cap recorded = {}
    BY Zenon
  <2>1. mine[r].done < Tasks
    <3>. USE DEF DoneInv, DoneTypes, Goes
    <3>1. ASSUME NEW p \in Runner, RunSteps(p) PROVE mine[r].done < Tasks
      BY <3>1 DEF RunSteps, ReadsState, ReadsBytes, Loads, StartsBatch, Succeeds, Merges, Fails,
         Records, Completes, RunAborts
    <3>2. ASSUME NEW p \in Runner, RunLockSteps(p) PROVE FALSE
      BY <3>2 DEF RunLockSteps, Claims, StampsRun, LooksAtRun, UnlinksRun, BeatOpens, BeatWrites,
         ReleasesRun
    <3>3. ASSUME NEW p \in Runner, RunDies(p) PROVE FALSE
      BY <3>3 DEF RunDies
    <3>4. CASE PlanSteps
      BY <3>4 DEF PlanSteps
    <3>. QED BY <3>1, <3>2, <3>3, <3>4 DEF WorkNext
  <2>2. r \in Looping /\ mine[r].done = teamState.done
    BY DEF AloneInv, Looping, InLoop
  <2>3. mine[r].done \in Nat /\ Ahead(r) = mine[r].done + 1
    BY DEF DoneInv, DoneTypes, TeamState, Ahead
  <2>4. \A t \in Batch(r) : t \notin 1 .. teamState.done
    BY <2>2, <2>3 DEF Batch
  <2>. QED BY <2>4 DEF AloneInv, Pairs
<1>. QED BY <1>1, <1>2, <1>3, PTL DEF WorkSpec, RecordedOnce
===============================================================================

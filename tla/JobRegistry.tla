----------------------------- MODULE JobRegistry -----------------------------
(***************************************************************************)
(* Background shell jobs of one session: JobRegistry                       *)
(* (src/src/agent/job-registry.ts) over leased shells (shell-lease.ts).    *)
(*                                                                         *)
(* A job's process is "running" until its shell exits, "draining" while    *)
(* descendants may hold its output pipes, "reaping" until the lease holder *)
(* is reaped, then "gone".  The promise of the registry settles when it is *)
(* gone.  Output buffers are left out.  The actions are those of the       *)
(* operating system; the calls of the agent are operators that             *)
(* SessionCompletion composes into its tools.                              *)
(***************************************************************************)
EXTENDS Integers, FiniteSets

CONSTANT Jobs  \* the jobs the session may start

VARIABLES
  phase,       \* the job's process
  status,      \* record.status
  killed,      \* SIGKILL reached the pinned process group
  incomplete,  \* termination cannot be confirmed
  active,      \* not yet settled, or never confirmed
  pending,     \* settled, the completion not yet shown to the engine
  reported     \* reported by an await

jobVars == <<phase, status, killed, incomplete, active, pending, reported>>

Phases == {"unused", "running", "draining", "reaping", "gone"}
Statuses == {"none", "running", "exited", "killed", "failed"}

JobsInit ==
  /\ phase = [j \in Jobs |-> "unused"] /\ status = [j \in Jobs |-> "none"]
  /\ killed = {} /\ incomplete = {} /\ active = {} /\ pending = {} /\ reported = {}

Started == {j \in Jobs : phase[j] # "unused"}
Running == {j \in Jobs : status[j] = "running"}
\* running() and terminal jobs no await has reported.
Awaiting == {j \in Started : status[j] = "running" \/ j \notin reported}
Unobserved == active \cup pending
Cancellable == Running \cup incomplete

\* A process of the job may be alive.  A descendant that left the group and
\* closed its pipes cannot be seen by the program and is left out.
MayWrite(j) == phase[j] \in {"running", "draining"} \/ j \in incomplete

\* The group can be signalled while the lease holder lives and is not released.
Signallable(j) == phase[j] \in {"running", "draining"}

---------------------------------------------------------------------------
(* Calls of the agent                                                      *)

JobStarts(j) ==
  /\ phase[j] = "unused"
  /\ \/ /\ phase' = [phase EXCEPT ![j] = "running"]
        /\ status' = [status EXCEPT ![j] = "running"]
        /\ active' = active \cup {j} /\ pending' = pending
     \/ \* the shell could not be spawned
        /\ phase' = [phase EXCEPT ![j] = "gone"]
        /\ status' = [status EXCEPT ![j] = "failed"]
        /\ pending' = pending \cup {j} /\ active' = active
  /\ UNCHANGED <<killed, incomplete, reported>>

\* consumeMutations: each completion is shown once.
Consumes(targets) == pending' = pending \ targets
Flagged(targets) == targets \cap pending # {}

\* cancel: a signal that is not delivered leaves the job unresolved.
JobsCancelled(targets) ==
  LET doomed == {j \in targets \ incomplete : status[j] = "running"} IN
  \E hit \in SUBSET {j \in doomed : Signallable(j) \/ j \in killed} :
    /\ doomed \cap killed \subseteq hit
    /\ killed' = killed \cup hit
    /\ incomplete' = incomplete \cup (doomed \ hit)
    /\ status' = [j \in Jobs |-> IF j \in hit THEN "killed"
                                 ELSE IF j \in doomed THEN "failed" ELSE status[j]]

JobsSettled(targets) == \A j \in targets : phase[j] \notin {"running", "draining", "reaping"}

---------------------------------------------------------------------------
(* The process and the promise that follows it                             *)

ShellExits(j) ==
  /\ phase[j] = "running"
  /\ phase' = [phase EXCEPT ![j] = "draining"]
  /\ UNCHANGED <<status, killed, incomplete, active, pending, reported>>

\* The status once no more can be learnt: a cancel that worked stands.
StatusAfter(j, lingered, unresolved) ==
  IF status[j] = "killed" /\ ~unresolved THEN "killed"
  ELSE IF ~lingered /\ ~unresolved THEN "exited" ELSE "failed"

\* Both pipes are at their end; the holder may have died without a report.
PipesClose(j) ==
  /\ phase[j] = "draining"
  /\ \E silent \in BOOLEAN :
       LET unresolved == j \in incomplete \/ (silent /\ j \notin killed) IN
       /\ incomplete' = IF unresolved THEN incomplete \cup {j} ELSE incomplete
       /\ status' = [status EXCEPT ![j] = StatusAfter(j, FALSE, unresolved)]
  /\ phase' = [phase EXCEPT ![j] = "reaping"]
  /\ UNCHANGED <<killed, active, pending, reported>>

\* A descendant holds a pipe: the group is killed; if that fails or the pipe
\* still stays open, the job is unresolved.
PipesLinger(j) ==
  /\ phase[j] = "draining"
  /\ \E hit, closes \in BOOLEAN :
       LET unresolved == j \in incomplete \/ ~hit \/ ~closes IN
       /\ j \in killed => hit
       /\ killed' = IF hit THEN killed \cup {j} ELSE killed
       /\ incomplete' = IF unresolved THEN incomplete \cup {j} ELSE incomplete
       /\ status' = [status EXCEPT ![j] = StatusAfter(j, TRUE, unresolved)]
  /\ phase' = [phase EXCEPT ![j] = "reaping"]
  /\ UNCHANGED <<active, pending, reported>>

\* The output can no longer be read.
PipesFail(j) ==
  /\ phase[j] = "draining"
  /\ \E hit \in BOOLEAN :
       /\ j \in killed => hit
       /\ killed' = IF hit THEN killed \cup {j} ELSE killed
       /\ incomplete' = IF hit THEN incomplete ELSE incomplete \cup {j}
  /\ status' = [status EXCEPT ![j] = IF @ = "killed" THEN @ ELSE "failed"]
  /\ phase' = [phase EXCEPT ![j] = "reaping"]
  /\ UNCHANGED <<active, pending, reported>>

\* The holder is reaped: the completion waits to be shown to the engine.
JobReaped(j) ==
  /\ phase[j] = "reaping"
  /\ phase' = [phase EXCEPT ![j] = "gone"]
  /\ active' = IF j \in incomplete THEN active ELSE active \ {j}
  /\ pending' = pending \cup {j}
  /\ UNCHANGED <<status, killed, incomplete, reported>>

JobSteps ==
  \E j \in Jobs : ShellExits(j) \/ PipesClose(j) \/ PipesLinger(j) \/ PipesFail(j)
                  \/ JobReaped(j)

JobsTypeOK ==
  /\ phase \in [Jobs -> Phases] /\ status \in [Jobs -> Statuses]
  /\ {killed, incomplete, active, pending, reported} \subseteq SUBSET Started
=============================================================================

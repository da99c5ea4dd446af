----------------------- MODULE SessionCompletionProofs -----------------------
(***************************************************************************)
(* Theorem about SessionCompletion for any sets of jobs and subagents: a   *)
(* completion accepted outside a sandbox covers every write of the turn    *)
(* and of the background jobs.                                             *)
(*                                                                         *)
(* What holds between the steps is that an uncovered write is still        *)
(* announced by something the gate reads: the writing job is unobserved,   *)
(* or the evidence of the running engine is open, or a carried flag is set *)
(* and not yet answered by a fresh verification.                           *)
(***************************************************************************)
EXTENDS SessionCompletion, TLAPS

TypeInv ==
  /\ phase \in [Jobs -> Phases] /\ status \in [Jobs -> Statuses]
  /\ engineEvid \in EvidenceType
  /\ turn \in {"open", "done", "stopped"}
  /\ inBatch \in BOOLEAN /\ turnPending \in BOOLEAN
  /\ pendingVerif \in BOOLEAN /\ goal \in BOOLEAN

\* A job that can still write has not been crossed off.
JobInv ==
  /\ \A j \in Jobs : status[j] = "running" => phase[j] \in {"running", "draining"}
  /\ \A j \in Jobs : phase[j] \in {"running", "draining", "reaping"} => j \in active
  /\ \A j \in Jobs : j \in incomplete => j \in active

Covered == unverified \ Agents \subseteq Unobserved
EvidenceOpen == engineEvid.sawMutation /\ ~Fresh
CarriedOpen == turnPending /\ ~Fresh

FlagInv ==
  /\ turnPending => pendingVerif
  /\ ~inBatch /\ EvidenceOpen => turnPending

CoverInv ==
  /\ turn = "open" => Covered \/ EvidenceOpen \/ CarriedOpen
  /\ turn # "open" => Covered \/ pendingVerif

CallInv ==
  /\ call.op = "verify" => since \ Agents \subseteq Unobserved
  /\ call.op # "none" => turn = "open"
  /\ turn # "open" => ~inBatch

SessionInv == TypeInv /\ JobInv /\ FlagInv /\ CoverInv /\ CallInv

---------------------------------------------------------------------------
(* What one executed call does to the evidence                             *)

Observed(kind, r) == [AfterCall(engineEvid, kind, r) EXCEPT !.cycles = 0, !.definite = FALSE]

\* Dropping the bookkeeping of the nudges keeps the type.
LEMMA UnnudgedType ==
  ASSUME NEW e \in EvidenceType
  PROVE  [e EXCEPT !.cycles = 0, !.definite = FALSE] \in EvidenceType
<1>1. [e EXCEPT !.cycles = 0] \in EvidenceType
  BY DEF EvidenceType
<1>2. PICK f \in EvidenceType : f = [e EXCEPT !.cycles = 0]
  BY <1>1
<1>3. [f EXCEPT !.definite = FALSE] \in EvidenceType
  BY DEF EvidenceType
<1>4. [e EXCEPT !.cycles = 0, !.definite = FALSE] = [f EXCEPT !.definite = FALSE]
  BY <1>2
<1> QED  BY <1>3, <1>4

\* Evidence stays well-typed.
LEMMA ObservedType ==
  ASSUME engineEvid \in EvidenceType, NEW kind \in Kinds, NEW r \in ResultType
  PROVE  Observed(kind, r) \in EvidenceType
<1>1. \A e \in EvidenceType, firmly \in BOOLEAN : Mutated(e, firmly) \in EvidenceType
  BY DEF Mutated, EvidenceType, Latest
<1>2. AfterCall(engineEvid, kind, r) \in EvidenceType
  <2>1. CASE kind # "verify"
    BY <1>1, <2>1 DEF AfterCall
  <2>2. CASE kind = "verify"
    <3> DEFINE counted == [engineEvid EXCEPT !.cycles = IF engineEvid.sawMutation /\ @ < 4 THEN @ + 1 ELSE @]
               failed  == [counted EXCEPT !.sawVerification = FALSE]
               passed  == [counted EXCEPT !.sawVerification = TRUE, !.latest = "verification",
                                          !.definite = FALSE]
    <3>1. counted \in EvidenceType
      BY DEF EvidenceType
    <3>2. failed \in EvidenceType /\ passed \in EvidenceType
      BY <3>1 DEF EvidenceType, Latest
    <3>3. Mutated(failed, TRUE) \in EvidenceType
      BY <1>1, <3>2
    <3> HIDE DEF counted, failed, passed
    <3>4. AfterCall(engineEvid, kind, r) = IF Verifies(kind, r) THEN passed
                                     ELSE IF Mutates(kind, r) THEN Mutated(failed, TRUE)
                                     ELSE failed
      BY <2>2 DEF AfterCall, counted, failed, passed
    <3> QED  BY <3>2, <3>3, <3>4
  <2> QED  BY <2>1, <2>2
<1>3. PICK e \in EvidenceType : e = AfterCall(engineEvid, kind, r)
  BY <1>2
<1>4. Observed(kind, r) = [e EXCEPT !.cycles = 0, !.definite = FALSE]
  BY <1>3 DEF Observed
<1>5. [e EXCEPT !.cycles = 0, !.definite = FALSE] \in EvidenceType
  BY UnnudgedType
<1> QED  BY <1>4, <1>5

\* A call that counts as a mutation leaves the evidence open.
LEMMA MutationOpens ==
  ASSUME engineEvid \in EvidenceType, NEW kind \in Kinds, NEW r \in ResultType,
         Mutates(kind, r), engineEvid' = Observed(kind, r)
  PROVE  EvidenceOpen'
BY DEF Observed, AfterCall, Mutated, Mutates, Verifies, EvidenceType, Latest,
       ResultType, EvidenceOpen, Fresh, Stale

\* A call with no flag leaves it as it is.
LEMMA QuietKeeps ==
  ASSUME engineEvid \in EvidenceType, engineEvid' = Observed("delegate", Plain(FALSE))
  PROVE  /\ engineEvid'.sawMutation = engineEvid.sawMutation
         /\ engineEvid'.sawVerification = engineEvid.sawVerification
         /\ engineEvid'.latest = engineEvid.latest
BY DEF Observed, AfterCall, Mutated, Mutates, Plain, EvidenceType, Latest

\* A verification that passes leaves it fresh; one that fails closes nothing.
LEMMA VerifyOutcome ==
  ASSUME engineEvid \in EvidenceType, NEW r \in ResultsOf("verify"),
         engineEvid' = Observed("verify", r)
  PROVE  /\ Verifies("verify", r) => Fresh'
         /\ ~Verifies("verify", r) => ~Fresh' /\ (engineEvid.sawMutation => engineEvid'.sawMutation)
         /\ ~Verifies("verify", r) /\ r.wrote => EvidenceOpen'
BY DEF Observed, AfterCall, Mutated, Mutates, Verifies, EvidenceType, Latest,
       ResultType, ResultsOf, EvidenceOpen, Fresh, Stale

---------------------------------------------------------------------------
(* How the parts of the invariant follow for whole groups of actions       *)

\* A tool call that is flagged whenever it consumes a completion keeps every
\* uncovered write announced.
LEMMA ConsumingCallCovers ==
  ASSUME TypeInv, FlagInv, CoverInv, turn = "open", turn' = turn,
         NEW targets, NEW flag \in BOOLEAN,
         Consumes(targets), active' = active, Flagged(targets) => flag,
         Observes("delegate", Plain(flag)),
         UNCHANGED <<turnPending, pendingVerif, unverified>>
  PROVE  /\ CoverInv'
         /\ engineEvid' \in EvidenceType
<1>1. Plain(flag) \in ResultType /\ "delegate" \in Kinds
  BY DEF Plain, ResultType, Kinds
<1>2. engineEvid' = Observed("delegate", Plain(flag))
  BY DEF Observes, Observed
<1>3. engineEvid' \in EvidenceType
  BY <1>1, <1>2, ObservedType DEF TypeInv
<1>4. CASE flag
  <2>1. Mutates("delegate", Plain(flag))
    BY <1>4 DEF Mutates, Plain
  <2>2. EvidenceOpen'
    BY <1>1, <1>2, <2>1, MutationOpens DEF TypeInv
  <2> QED  BY <1>3, <2>2 DEF CoverInv
<1>5. CASE ~flag
  <2>1. /\ engineEvid'.sawMutation = engineEvid.sawMutation
        /\ engineEvid'.sawVerification = engineEvid.sawVerification
        /\ engineEvid'.latest = engineEvid.latest
    BY <1>2, <1>5, QuietKeeps DEF TypeInv
  <2>2. Fresh' = Fresh /\ EvidenceOpen' = EvidenceOpen /\ CarriedOpen' = CarriedOpen
    BY <2>1 DEF Fresh, Stale, EvidenceOpen, CarriedOpen
  <2>3. pending' = pending
    BY <1>5 DEF Consumes, Flagged
  <2>4. Covered' = Covered
    BY <2>3 DEF Covered, Unobserved
  <2> QED  BY <1>3, <2>2, <2>4 DEF CoverInv
<1> QED  BY <1>4, <1>5

\* A tool call whose result counts as a mutation keeps them announced.
LEMMA MutatingCallCovers ==
  ASSUME TypeInv, turn = "open", turn' = turn, NEW kind \in Kinds, NEW r \in ResultType,
         Mutates(kind, r), Observes(kind, r)
  PROVE  /\ CoverInv'
         /\ engineEvid' \in EvidenceType
<1>1. engineEvid' = Observed(kind, r)
  BY DEF Observes, Observed
<1>2. EvidenceOpen' /\ engineEvid' \in EvidenceType
  BY <1>1, MutationOpens, ObservedType DEF TypeInv
<1> QED  BY <1>2 DEF CoverInv

\* Steps of the job processes leave a job that wrote unobserved.
LEMMA JobStepsKeep ==
  ASSUME TypeInv, JobInv, JobSteps
  PROVE  /\ phase' \in [Jobs -> Phases] /\ status' \in [Jobs -> Statuses]
         /\ JobInv'
         /\ Unobserved \subseteq Unobserved'
<1> SUFFICES ASSUME NEW j \in Jobs,
                    ShellExits(j) \/ PipesClose(j) \/ PipesLinger(j) \/ PipesFail(j)
                      \/ JobReaped(j)
             PROVE  /\ phase' \in [Jobs -> Phases] /\ status' \in [Jobs -> Statuses]
                    /\ JobInv'
                    /\ Unobserved \subseteq Unobserved'
  BY DEF JobSteps
<1> USE DEF TypeInv, JobInv, Phases, Statuses, Unobserved
<1>1. CASE ShellExits(j)
  BY <1>1 DEF ShellExits
<1>2. CASE PipesClose(j)
  BY <1>2 DEF PipesClose, StatusAfter
<1>3. CASE PipesLinger(j)
  BY <1>3 DEF PipesLinger, StatusAfter
<1>4. CASE PipesFail(j)
  BY <1>4 DEF PipesFail
<1>5. CASE JobReaped(j)
  BY <1>5 DEF JobReaped
<1> QED  BY <1>1, <1>2, <1>3, <1>4, <1>5

\* So do a start and a cancellation.
LEMMA JobStartsKeep ==
  ASSUME TypeInv, JobInv, NEW j \in Jobs, JobStarts(j)
  PROVE  /\ phase' \in [Jobs -> Phases] /\ status' \in [Jobs -> Statuses]
         /\ JobInv'
         /\ Unobserved \subseteq Unobserved'
BY DEF TypeInv, JobInv, Phases, Statuses, Unobserved, JobStarts

LEMMA JobsCancelledKeep ==
  ASSUME TypeInv, JobInv, NEW targets \in SUBSET Jobs, JobsCancelled(targets),
         phase' = phase, active' = active
  PROVE  status' \in [Jobs -> Statuses] /\ JobInv'
<1> DEFINE doomed == {j \in targets \ incomplete : status[j] = "running"}
<1>1. PICK hit \in SUBSET doomed :
        /\ incomplete' = incomplete \cup (doomed \ hit)
        /\ status' = [j \in Jobs |-> IF j \in hit THEN "killed"
                                     ELSE IF j \in doomed THEN "failed" ELSE status[j]]
  BY DEF JobsCancelled
<1>2. \A j \in doomed : j \in active
  BY DEF JobInv
<1> HIDE DEF doomed
<1>3. status' \in [Jobs -> Statuses]
  BY <1>1 DEF TypeInv, Statuses
<1>4. JobInv'
  BY <1>1, <1>2 DEF TypeInv, JobInv
<1> QED  BY <1>3, <1>4

---------------------------------------------------------------------------
(* The invariant                                                           *)

LEMMA InitEstablishes == SessionInit => SessionInv
<1> SUFFICES ASSUME SessionInit  PROVE SessionInv
  OBVIOUS
<1> USE DEF SessionInit, JobsInit
<1>1. TypeInv
  <2>1. engineEvid \in EvidenceType
    BY DEF NoEvidence, EvidenceType, Latest
  <2>2. phase \in [Jobs -> Phases] /\ status \in [Jobs -> Statuses]
    BY DEF Phases, Statuses
  <2> QED  BY <2>1, <2>2 DEF TypeInv
<1>2. JobInv
  BY DEF JobInv
<1>3. FlagInv
  BY DEF FlagInv, EvidenceOpen, NoEvidence
<1>4. CoverInv
  BY DEF CoverInv, Covered
<1>5. CallInv
  BY DEF CallInv, NoCall
<1> QED  BY <1>1, <1>2, <1>3, <1>4, <1>5 DEF SessionInv

\* What the invariant speaks of may be left alone.
LEMMA InvStutters ==
  ASSUME SessionInv, UNCHANGED <<sessionOwn, jobVars>>
  PROVE  SessionInv'
BY DEF sessionOwn, jobVars, SessionInv, TypeInv, JobInv, FlagInv, CoverInv, CallInv,
       Covered, Unobserved, Fresh, Stale, EvidenceOpen, CarriedOpen

\* Turns and batches.
LEMMA TurnsKeep ==
  ASSUME SessionInv,
         TurnBegins \/ Reroutes \/ TurnStops \/ BatchEnds \/ TurnCompletes \/ SetsGoal
  PROVE  SessionInv'
<1> USE DEF SessionInv
<1>0. /\ jobVars' = jobVars /\ agentVars' = agentVars /\ since' = since /\ call' = call
      /\ JobInv' /\ Unobserved' = Unobserved
      /\ phase' \in [Jobs -> Phases] /\ status' \in [Jobs -> Statuses]
  BY DEF TurnBegins, Reroutes, TurnStops, BatchEnds, TurnCompletes, SetsGoal, jobVars,
         JobInv, Unobserved, TypeInv
<1>1. NoEvidence \in EvidenceType /\ ~NoEvidence.sawMutation /\ ~NoEvidence.sawVerification
  BY DEF NoEvidence, EvidenceType, Latest
<1>2. CASE TurnBegins
  <2> USE <1>0, <1>1, <1>2 DEF TurnBegins
  <2>1. ~Fresh' /\ ~EvidenceOpen'
    BY DEF Fresh, EvidenceOpen
  <2>2. TypeInv'
    BY DEF TypeInv
  <2>3. CoverInv'
    <3>1. CASE goal
      <4>1. Covered => Covered'
        BY <3>1 DEF Covered
      <4> QED  BY <3>1, <4>1, <2>1 DEF CoverInv, CarriedOpen
    <3>2. CASE ~goal
      <4>1. InFlight \subseteq Agents
        BY DEF InFlight, Launched
      <4>2. Covered'
        BY <3>2, <4>1 DEF Covered
      <4> QED  BY <4>2 DEF CoverInv
    <3> QED  BY <3>1, <3>2 DEF TypeInv
  <2>4. FlagInv' /\ CallInv'
    BY <2>1 DEF FlagInv, CallInv, TypeInv
  <2> QED  BY <2>2, <2>3, <2>4
<1>3. CASE Reroutes
  <2> USE <1>0, <1>1, <1>3 DEF Reroutes, Idle
  <2>1. ~Fresh' /\ ~EvidenceOpen' /\ Covered' = Covered
    BY DEF Fresh, EvidenceOpen, Covered
  <2>2. EvidenceOpen => turnPending
    BY DEF FlagInv
  <2> QED  BY <2>1, <2>2 DEF TypeInv, FlagInv, CoverInv, CallInv, CarriedOpen
<1>4. CASE TurnStops \/ TurnCompletes
  <2> USE <1>0, <1>4 DEF TurnStops, TurnCompletes, Idle, NoCall
  <2>1. Covered' = Covered /\ Fresh' = Fresh /\ EvidenceOpen' = EvidenceOpen
    BY DEF Covered, Fresh, Stale, EvidenceOpen
  <2>2. EvidenceOpen \/ CarriedOpen => pendingVerif
    BY DEF FlagInv, CarriedOpen
  <2> QED  BY <2>1, <2>2 DEF TypeInv, FlagInv, CoverInv, CallInv
<1>5. CASE BatchEnds
  <2> USE <1>0, <1>5 DEF BatchEnds, Idle, PendingAfter
  <2>1. Covered' = Covered /\ Fresh' = Fresh /\ EvidenceOpen' = EvidenceOpen
    BY DEF Covered, Fresh, Stale, EvidenceOpen
  <2>2. engineEvid.sawMutation \in BOOLEAN /\ turnPending \in BOOLEAN /\ pendingVerif \in BOOLEAN
    BY DEF TypeInv, EvidenceType
  <2>3. CASE Fresh
    BY <2>1, <2>3 DEF TypeInv, FlagInv, CoverInv, CallInv, CarriedOpen, EvidenceOpen
  <2>4. CASE ~Fresh
    <3>1. turnPending' = (turnPending \/ engineEvid.sawMutation)
          /\ pendingVerif' = (pendingVerif \/ engineEvid.sawMutation)
      BY <2>4
    <3> QED  BY <2>1, <2>2, <2>4, <3>1
             DEF TypeInv, FlagInv, CoverInv, CallInv, CarriedOpen, EvidenceOpen
  <2> QED  BY <2>3, <2>4
<1>6. CASE SetsGoal
  <2> USE <1>0, <1>6 DEF SetsGoal
  <2>1. /\ Covered' = Covered /\ Fresh' = Fresh /\ EvidenceOpen' = EvidenceOpen
        /\ CarriedOpen' = CarriedOpen
    BY DEF Covered, Fresh, Stale, EvidenceOpen, CarriedOpen
  <2> QED  BY <2>1 DEF TypeInv, FlagInv, CoverInv, CallInv
<1> QED  BY <1>2, <1>3, <1>4, <1>5, <1>6

\* The engine's own calls.
LEMMA CallsKeep ==
  ASSUME SessionInv, Writes \/ VerifyBegins \/ VerifyEnds
  PROVE  SessionInv'
<1> USE DEF SessionInv
<1>0. /\ JobInv' /\ Unobserved' = Unobserved
      /\ phase' \in [Jobs -> Phases] /\ status' \in [Jobs -> Statuses]
  BY DEF Writes, VerifyBegins, VerifyEnds, jobVars, JobInv, Unobserved, TypeInv
<1>1. CASE Writes
  <2>0. PICK kind \in {"write", "shell"} :
          \E r \in ResultsOf(kind) : r.wrote /\ Observes(kind, r)
    BY <1>1 DEF Writes
  <2>1. PICK r \in ResultsOf(kind) : r.wrote /\ Observes(kind, r)
    BY <2>0
  <2>2. kind \in Kinds /\ r \in ResultType /\ Mutates(kind, r)
    BY <2>1 DEF Kinds, ResultsOf, ResultType, Mutates
  <2>3. turn = "open" /\ turn' = turn /\ inBatch' = TRUE /\ call' = call /\ call = NoCall
        /\ turnPending' = turnPending /\ pendingVerif' = pendingVerif /\ goal' = goal
    BY <1>1 DEF Writes, Idle
  <2>4. CoverInv' /\ engineEvid' \in EvidenceType
    BY <2>1, <2>2, <2>3, MutatingCallCovers
  <2> QED  BY <1>0, <2>3, <2>4 DEF TypeInv, FlagInv, CallInv, NoCall
<1>2. CASE VerifyBegins
  <2> USE <1>0, <1>2 DEF VerifyBegins, Idle
  <2>1. /\ Covered' = Covered /\ Fresh' = Fresh /\ EvidenceOpen' = EvidenceOpen
        /\ CarriedOpen' = CarriedOpen
    BY DEF Covered, Fresh, Stale, EvidenceOpen, CarriedOpen
  <2> QED  BY <2>1 DEF TypeInv, FlagInv, CoverInv, CallInv
<1>3. CASE VerifyEnds
  <2>1. PICK r \in ResultsOf("verify") :
          /\ Observes("verify", r)
          /\ unverified' = IF Verifies("verify", r) THEN since
                           ELSE IF r.wrote THEN unverified \cup {Turn} ELSE unverified
    BY <1>3 DEF VerifyEnds
  <2>2. engineEvid' = Observed("verify", r) /\ "verify" \in Kinds /\ r \in ResultType
    BY <2>1 DEF Observes, Observed, Kinds, ResultsOf
  <2>3. engineEvid' \in EvidenceType
    BY <2>2, ObservedType DEF TypeInv
  <2>4. /\ Verifies("verify", r) => Fresh'
        /\ ~Verifies("verify", r) => ~Fresh' /\ (engineEvid.sawMutation => engineEvid'.sawMutation)
        /\ ~Verifies("verify", r) /\ r.wrote => EvidenceOpen'
    BY <2>2, VerifyOutcome DEF TypeInv
  <2>5. turn = "open" /\ turn' = turn /\ inBatch' = TRUE /\ call' = NoCall /\ since' = since
        /\ turnPending' = turnPending /\ pendingVerif' = pendingVerif /\ goal' = goal
    BY <1>3 DEF VerifyEnds, CallInv
  <2>6. CoverInv'
    <3>1. CASE Verifies("verify", r)
      <4>1. Covered'
        BY <1>0, <1>3, <2>1, <3>1 DEF VerifyEnds, CallInv, Covered
      <4> QED  BY <4>1, <2>5 DEF CoverInv
    <3>2. CASE ~Verifies("verify", r) /\ r.wrote
      BY <2>4, <2>5, <3>2 DEF CoverInv
    <3>3. CASE ~Verifies("verify", r) /\ ~r.wrote
      <4>1. Covered' = Covered
        BY <1>0, <2>1, <3>3 DEF Covered
      <4>2. (EvidenceOpen => EvidenceOpen') /\ (CarriedOpen => CarriedOpen')
        BY <2>4, <2>5, <3>3 DEF EvidenceOpen, CarriedOpen
      <4> QED  BY <4>1, <4>2, <2>5 DEF CoverInv
    <3> QED  BY <3>1, <3>2, <3>3
  <2> QED  BY <1>0, <2>3, <2>5, <2>6 DEF TypeInv, FlagInv, CallInv, NoCall
<1> QED  BY <1>1, <1>2, <1>3

\* The job tool.
LEMMA JobToolKeeps ==
  ASSUME SessionInv, JobTool
  PROVE  SessionInv'
<1> USE DEF SessionInv
<1>1. ASSUME NEW j \in Jobs, StartJob(j)  PROVE SessionInv'
  <2>1. /\ phase' \in [Jobs -> Phases] /\ status' \in [Jobs -> Statuses]
        /\ JobInv' /\ Unobserved \subseteq Unobserved'
    BY <1>1, JobStartsKeep DEF StartJob
  <2>2. turn = "open" /\ turn' = turn /\ inBatch' = TRUE /\ call' = call /\ call = NoCall
        /\ turnPending' = turnPending /\ pendingVerif' = pendingVerif /\ goal' = goal
        /\ Observes("start", Plain(FALSE))
    BY <1>1 DEF StartJob, Idle
  <2>3. "start" \in Kinds /\ Plain(FALSE) \in ResultType /\ Mutates("start", Plain(FALSE))
    BY DEF Kinds, Plain, ResultType, Mutates
  <2>4. CoverInv' /\ engineEvid' \in EvidenceType
    BY <2>2, <2>3, MutatingCallCovers
  <2> QED  BY <2>1, <2>2, <2>4 DEF TypeInv, FlagInv, CallInv, NoCall
<1>2. ASSUME NEW j \in Jobs, SlashStarts(j)  PROVE SessionInv'
  <2>1. /\ phase' \in [Jobs -> Phases] /\ status' \in [Jobs -> Statuses]
        /\ JobInv' /\ Unobserved \subseteq Unobserved'
    BY <1>2, JobStartsKeep DEF SlashStarts
  <2>2. sessionOwn' = sessionOwn
    BY <1>2 DEF SlashStarts
  <2>3. Fresh' = Fresh /\ EvidenceOpen' = EvidenceOpen /\ CarriedOpen' = CarriedOpen
        /\ (Covered => Covered')
    BY <2>1, <2>2 DEF sessionOwn, Fresh, Stale, EvidenceOpen, CarriedOpen, Covered
  <2> QED  BY <2>1, <2>2, <2>3 DEF sessionOwn, TypeInv, FlagInv, CoverInv, CallInv
<1>3. ASSUME NEW targets \in SUBSET Jobs, SlashCancels(targets)  PROVE SessionInv'
  <2>1. status' \in [Jobs -> Statuses] /\ JobInv'
    BY <1>3, JobsCancelledKeep DEF SlashCancels
  <2>2. sessionOwn' = sessionOwn /\ phase' = phase /\ Unobserved' = Unobserved
    BY <1>3 DEF SlashCancels, Unobserved
  <2>3. Fresh' = Fresh /\ EvidenceOpen' = EvidenceOpen /\ CarriedOpen' = CarriedOpen
        /\ Covered' = Covered
    BY <2>2 DEF sessionOwn, Fresh, Stale, EvidenceOpen, CarriedOpen, Covered
  <2> QED  BY <2>1, <2>2, <2>3 DEF sessionOwn, TypeInv, FlagInv, CoverInv, CallInv
<1>4. ASSUME NEW targets \in SUBSET Jobs, ReadJobs(targets)  PROVE SessionInv'
  <2>1. CoverInv' /\ engineEvid' \in EvidenceType
    <3>1. Flagged(targets) \in BOOLEAN
      BY DEF Flagged
    <3> QED  BY <1>4, <3>1, ConsumingCallCovers DEF ReadJobs, Idle
  <2> QED  BY <1>4, <2>1
           DEF ReadJobs, Idle, TypeInv, JobInv, FlagInv, CallInv, NoCall
<1>5. ASSUME NEW targets \in SUBSET Jobs, AwaitJobs(targets)  PROVE SessionInv'
  <2>1. /\ Covered' = Covered /\ Fresh' = Fresh /\ EvidenceOpen' = EvidenceOpen
        /\ CarriedOpen' = CarriedOpen
    BY <1>5 DEF AwaitJobs, jobVars, Unobserved, Covered, Fresh, Stale, EvidenceOpen,
                CarriedOpen
  <2> QED  BY <1>5, <2>1
           DEF AwaitJobs, Idle, jobVars, TypeInv, JobInv, FlagInv, CoverInv, CallInv
<1>6. ASSUME NEW targets \in SUBSET Jobs, CancelJobs(targets)  PROVE SessionInv'
  <2>1. status' \in [Jobs -> Statuses] /\ JobInv'
    BY <1>6, JobsCancelledKeep DEF CancelJobs
  <2>2. /\ Covered' = Covered /\ Fresh' = Fresh /\ EvidenceOpen' = EvidenceOpen
        /\ CarriedOpen' = CarriedOpen
    BY <1>6 DEF CancelJobs, Unobserved, Covered, Fresh, Stale, EvidenceOpen, CarriedOpen
  <2> QED  BY <1>6, <2>1, <2>2
           DEF CancelJobs, Idle, TypeInv, FlagInv, CoverInv, CallInv
<1>7. CASE AwaitEnds
  <2>1. turn = "open" /\ turn' = turn
    BY <1>7 DEF AwaitEnds, CallInv
  <2>2. CoverInv' /\ engineEvid' \in EvidenceType
    <3>1. Flagged(call.targets) \in BOOLEAN
      BY DEF Flagged
    <3> QED  BY <1>7, <2>1, <3>1, ConsumingCallCovers DEF AwaitEnds
  <2> QED  BY <1>7, <2>1, <2>2
           DEF AwaitEnds, TypeInv, JobInv, FlagInv, CallInv, NoCall
<1>8. CASE CancelEnds
  <2>1. turn = "open" /\ turn' = turn
    BY <1>8 DEF CancelEnds, CallInv
  <2>2. CoverInv' /\ engineEvid' \in EvidenceType
    <3> DEFINE flag == call.hit \/ Flagged(call.targets)
    <3>1. flag \in BOOLEAN /\ (Flagged(call.targets) => flag)
      BY DEF Flagged
    <3>2. Consumes(call.targets) /\ Observes("delegate", Plain(flag))
      BY <1>8 DEF CancelEnds
    <3>3. active' = active /\ UNCHANGED <<turnPending, pendingVerif, unverified>>
      BY <1>8 DEF CancelEnds
    <3> HIDE DEF flag
    <3> QED  BY <2>1, <3>1, <3>2, <3>3, ConsumingCallCovers
  <2> QED  BY <1>8, <2>1, <2>2
           DEF CancelEnds, TypeInv, JobInv, FlagInv, CallInv, NoCall
<1> QED  BY <1>1, <1>2, <1>3, <1>4, <1>5, <1>6, <1>7, <1>8 DEF JobTool

\* The task and subagent tools: whatever they flag, no writer is forgotten.
LEMMA AgentToolsKeep ==
  ASSUME SessionInv, AgentTools
  PROVE  SessionInv'
<1> USE DEF SessionInv
<1>1. PICK flag \in BOOLEAN :
        /\ turn = "open" /\ turn' = turn /\ inBatch' = TRUE /\ call' = call /\ call = NoCall
        /\ Observes("delegate", Plain(flag)) /\ jobVars' = jobVars
        /\ turnPending' = turnPending /\ pendingVerif' = pendingVerif /\ goal' = goal
        /\ unverified' = unverified
  BY DEF AgentTools, LaunchAgent, CollectAgents, CancelsAgents, Idle
<1>2. Consumes({}) /\ ~Flagged({}) /\ active' = active
  BY <1>1 DEF Consumes, Flagged, jobVars
<1>3. CoverInv' /\ engineEvid' \in EvidenceType
  BY <1>1, <1>2, ConsumingCallCovers
<1> QED  BY <1>1, <1>3 DEF jobVars, TypeInv, JobInv, FlagInv, CallInv, NoCall

\* The background: a job that writes is unobserved.
LEMMA BackgroundKeeps ==
  ASSUME SessionInv, Background
  PROVE  SessionInv'
<1> USE DEF SessionInv
<1>1. CASE JobsMove
  <2>1. /\ phase' \in [Jobs -> Phases] /\ status' \in [Jobs -> Statuses]
        /\ JobInv' /\ Unobserved \subseteq Unobserved'
    BY <1>1, JobStepsKeep DEF JobsMove
  <2>2. sessionOwn' = sessionOwn
    BY <1>1 DEF JobsMove
  <2>3. Fresh' = Fresh /\ EvidenceOpen' = EvidenceOpen /\ CarriedOpen' = CarriedOpen
        /\ (Covered => Covered')
    BY <2>1, <2>2 DEF sessionOwn, Fresh, Stale, EvidenceOpen, CarriedOpen, Covered
  <2> QED  BY <2>1, <2>2, <2>3 DEF sessionOwn, TypeInv, FlagInv, CoverInv, CallInv
<1>2. ASSUME NEW j \in Jobs, JobWrites(j)  PROVE SessionInv'
  <2>1. j \in Unobserved
    BY <1>2 DEF JobWrites, MayWrite, JobInv, Unobserved
  <2>2. Unobserved' = Unobserved
    BY <1>2 DEF JobWrites, jobVars, Unobserved
  <2>3. Fresh' = Fresh /\ EvidenceOpen' = EvidenceOpen /\ CarriedOpen' = CarriedOpen
        /\ (Covered => Covered')
    BY <1>2, <2>1, <2>2
       DEF JobWrites, Writers, Fresh, Stale, EvidenceOpen, CarriedOpen, Covered
  <2> QED  BY <1>2, <2>1, <2>2, <2>3
           DEF JobWrites, Writers, jobVars, TypeInv, JobInv, FlagInv, CoverInv, CallInv
<1>3. ASSUME NEW a \in Agents, AgentChanges(a)  PROVE SessionInv'
  <2>1. Unobserved' = Unobserved
    BY <1>3 DEF AgentChanges, jobVars, Unobserved
  <2>2. Fresh' = Fresh /\ EvidenceOpen' = EvidenceOpen /\ CarriedOpen' = CarriedOpen
        /\ (Covered => Covered')
    BY <1>3, <2>1
       DEF AgentChanges, Writers, Fresh, Stale, EvidenceOpen, CarriedOpen, Covered
  <2> QED  BY <1>3, <2>1, <2>2
           DEF AgentChanges, Writers, jobVars, TypeInv, JobInv, FlagInv, CoverInv, CallInv
<1>4. ASSUME NEW a \in Agents, AgentSettles(a)  PROVE SessionInv'
  <2>1. UNCHANGED <<sessionOwn, jobVars>>
    BY <1>4 DEF AgentSettles
  <2> QED  BY <2>1, InvStutters
<1> QED  BY <1>1, <1>2, <1>3, <1>4 DEF Background

\* The invariant is inductive.
THEOREM StepKeeps == SessionInv /\ [SessionNext]_sessionVars => SessionInv'
<1> SUFFICES ASSUME SessionInv, [SessionNext]_sessionVars  PROVE SessionInv'
  OBVIOUS
<1>1. CASE UNCHANGED sessionVars
  BY <1>1, InvStutters DEF sessionVars
<1>2. CASE SessionNext
  BY <1>2, TurnsKeep, CallsKeep, JobToolKeeps, AgentToolsKeep, BackgroundKeeps
     DEF SessionNext
<1> QED  BY <1>1, <1>2

\* Only onBeforeDone lets a turn complete.
LEMMA OnlyCompletionAccepts == [SessionNext]_sessionVars /\ Accepts => TurnCompletes
  BY DEF Accepts, sessionVars, sessionOwn, SessionNext, TurnBegins, Reroutes, TurnStops,
     BatchEnds, SetsGoal, Writes, VerifyBegins, VerifyEnds, JobTool, StartJob,
     SlashStarts, ReadJobs, AwaitJobs, CancelJobs, SlashCancels, AwaitEnds, CancelEnds,
     AgentTools, LaunchAgent, CollectAgents, CancelsAgents, Background, JobsMove,
     JobWrites, AgentChanges, AgentSettles

\* Every accepted completion finds nothing uncovered (onBeforeDone): for any jobs
\* and any detached subagents, outside a sandbox.
THEOREM CompletionCovers ==
  ASSUME ~Sandboxed
  PROVE  SessionSpec => CompletionCoversWrites
<1>1. ASSUME SessionInv, [SessionNext]_sessionVars, Accepts
      PROVE  unverified \subseteq Agents
  <2>1. TurnCompletes
    BY <1>1, OnlyCompletionAccepts
  <2>2. /\ Unobserved = {}
        /\ ~((turnPending \/ engineEvid.sawMutation) /\ ~Fresh)
    BY <2>1 DEF TurnCompletes, Refused, JobsStandIn
  <2>3. Covered
    BY <1>1, <2>2 DEF Accepts, SessionInv, CoverInv, EvidenceOpen, CarriedOpen
  <2> QED  BY <2>2, <2>3 DEF Covered
<1>2. SessionInv /\ [SessionNext]_sessionVars
      => [Accepts => unverified \subseteq Agents]_sessionVars
  BY <1>1
<1> QED  BY <1>2, InitEstablishes, StepKeeps, PTL DEF SessionSpec, CompletionCoversWrites

\* Every accepted completion finds no job unobserved and no detached run in flight
\* (onBeforeDone): for any jobs together with any detached subagents.
THEOREM CompletionAwaitsWork ==
  ASSUME ~Sandboxed
  PROVE  SessionSpec => CompletionWaits
<1>1. ASSUME [SessionNext]_sessionVars, Accepts
      PROVE  Unobserved = {} /\ InFlight = {}
  <2>1. TurnCompletes
    BY <1>1, OnlyCompletionAccepts
  <2> QED  BY <2>1 DEF TurnCompletes, Refused, JobsStandIn
<1>2. [SessionNext]_sessionVars => [Accepts => Unobserved = {} /\ InFlight = {}]_sessionVars
  BY <1>1
<1> QED  BY <1>2, PTL DEF SessionSpec, CompletionWaits

\* However detached runs are steered, paused, resumed and cancelled, one that has settled
\* after changing the workspace has that on its record (launch): only a run in flight
\* writes, and each way to settle records what the run wrote.
THEOREM EvidenceStays == AgentsSpec => []EvidenceSurvivesCancel
<1>1. AgentsInit => EvidenceSurvivesCancel
  BY DEF AgentsInit, EvidenceSurvivesCancel
<1>2. ASSUME EvidenceSurvivesCancel, [AgentsNext]_agentVars
      PROVE  EvidenceSurvivesCancel'
  <2>1. ASSUME NEW a \in Agents, AgentWrites(a)
        PROVE  settled' \cap wrote' \subseteq mayHave'
    BY <1>2, <2>1 DEF EvidenceSurvivesCancel, AgentWrites, InFlight
  <2>2. ASSUME NEW a \in Agents, NEW success \in BOOLEAN, AgentReturns(a, success)
        PROVE  settled' \cap wrote' \subseteq mayHave'
    <3>1. PICK changed \in BOOLEAN :
            (a \in wrote => changed) /\ mayHave' = IF changed THEN mayHave \cup {a} ELSE mayHave
      BY <2>2 DEF AgentReturns
    <3> QED  BY <1>2, <2>2, <3>1 DEF EvidenceSurvivesCancel, AgentReturns
  <2>3. ASSUME NEW a \in Agents, AgentThrows(a)
        PROVE  settled' \cap wrote' \subseteq mayHave'
    BY <1>2, <2>3 DEF EvidenceSurvivesCancel, AgentThrows
  <2>4. UNCHANGED <<settled, wrote, mayHave>> => settled' \cap wrote' \subseteq mayHave'
    BY <1>2 DEF EvidenceSurvivesCancel
  <2>5. ASSUME NEW a \in Agents, AgentDrains(a) \/ AgentSteered(a) \/ AgentPaused(a) \/ AgentResumed(a) \/ AgentLaunched(a)
        PROVE  UNCHANGED <<settled, wrote, mayHave>>
    BY <2>5 DEF AgentDrains, AgentSteered, AgentPaused, AgentResumed, AgentLaunched
  <2>6. ASSUME TearDown \/ UNCHANGED agentVars \/ \E targets \in SUBSET Agents : CancelAgents(targets)
        PROVE  UNCHANGED <<settled, wrote, mayHave>>
    BY <2>6 DEF TearDown, CancelAgents, agentVars
  <2> QED  BY <1>2, <2>1, <2>2, <2>3, <2>4, <2>5, <2>6
           DEF EvidenceSurvivesCancel, AgentsNext, AgentSteps, AgentControls
<1> QED  BY <1>1, <1>2, PTL DEF AgentsSpec
=============================================================================

--------------------------- MODULE AgentTurnProofs ---------------------------
(***************************************************************************)
(* Proofs about AgentTurn, for every set of calls, every configuration of  *)
(* the budget and the guards, and every behaviour of model, tools, hooks   *)
(* and user:                                                               *)
(*   StepsAreBounded        the step counter is bounded by the hard cap    *)
(*   CompletionIsVerified   no unverified change is accepted as done       *)
(*   RejectionsWereAsked    no completion is rejected out of hand          *)
(*   RepetitionIsStopped    a model that repeats itself is stopped         *)
(* and about FileEdits, for every batch of file calls:                     *)
(*   BatchRunsInOrder       its outcome is that of its calls in order      *)
(***************************************************************************)
EXTENDS AgentTurn, FileEdits, FiniteSetTheorems, WellFoundedInduction, TLAPS

\* The records keep their fields, which is all the proofs need of their types.
Shape ==
  /\ DOMAIN budget = {"limit", "extensions", "window", "seen", "novel"}
  /\ DOMAIN ladder = {"overflow", "refusals", "transients", "parse", "invalid",
                      "done", "shellOnly", "grace"}
  /\ DOMAIN truth = {"dirty", "check", "asked", "refused", "unserved"}
  /\ evid \in EvidenceType
  /\ ladder.grace \in BOOLEAN /\ truth.dirty \in BOOLEAN
  /\ undrained \in Nat /\ sent \in Nat

\* An iteration runs within the limit, or is the grace step just beyond it.
Body == {"model", "backoff", "precheck", "gate", "tools", "judging"}
StepInv ==
  /\ step \in Nat /\ budget.limit \in Nat /\ budget.limit <= HardCap
  /\ pc = "top" => step <= budget.limit + 1 \/ (ladder.grace /\ step <= budget.limit + 2)
  /\ pc \in Body => step <= budget.limit \/ (ladder.grace /\ step <= budget.limit + 1)
  /\ step <= budget.limit + 2

\* What was executed is a prefix of the batch, each result one its tool can give.
WorkInv ==
  /\ DOMAIN work = {"batch", "results", "judged", "mark", "cut"}
  /\ work.batch \in Seq(Calls) /\ work.results \in Seq(ResultType)
  /\ work.judged \in Nat /\ Len(work.results) <= Len(work.batch)
  /\ \A i \in 1 .. Len(work.results) :
       work.results[i] \in ResultsOf(KindOf[work.batch[i]])

\* The evidence never claims more than the truth.
EvidenceInv ==
  /\ truth.dirty => Stale(evid)
  /\ evid.sawVerification => truth.check = "pass"
  /\ pc = "done" => ~GateBlocks(evid)

\* A counter of corrections that is not zero was once counted up by one.
AskedInv ==
  /\ ladder.done \in Nat /\ ladder.shellOnly \in Nat
  /\ ladder.shellOnly > 0 => "shell" \in truth.asked
  /\ ladder.done > 0 => truth.asked # {}
  /\ RejectionWasAsked

---------------------------------------------------------------------------
(* The step counter                                                        *)

LEMMA RaisedLimitBounded ==
  ASSUME NEW b, b.limit \in Nat, b.limit <= HardCap
  PROVE  /\ RaisedLimit(b) \in Nat /\ RaisedLimit(b) <= HardCap
         /\ RaisedLimit(b) >= b.limit
         /\ b.limit < HardCap => RaisedLimit(b) > b.limit
  BY BudgetConfig DEF RaisedLimit, LesserOf

\* The budget changes shape nowhere, and its limit only grows.
Grows(b, c) ==
  /\ DOMAIN c = DOMAIN b /\ c.limit \in Nat
  /\ c.limit <= HardCap /\ c.limit >= b.limit

LEMMA ExtensionGrows ==
  ASSUME NEW b, DOMAIN b = {"limit", "extensions", "window", "seen", "novel"},
         b.limit \in Nat, b.limit <= HardCap, MayExtend(b)
  PROVE  Grows(b, Extended(b)) /\ Extended(b).limit > b.limit
  BY RaisedLimitBounded DEF Grows, Extended, MayExtend

LEMMA SteeringGrows ==
  ASSUME NEW b, DOMAIN b = {"limit", "extensions", "window", "seen", "novel"},
         b.limit \in Nat, b.limit <= HardCap
  PROVE  Grows(b, Steered(b)) /\ \A n \in Nat : Grows(b, SteeredTimes(b, n))
  <1>1. Grows(b, Steered(b))
    BY RaisedLimitBounded DEF Grows, Steered
  <1>2. ASSUME NEW n \in Nat PROVE Grows(b, SteeredTimes(b, n))
    <2>1. n * ExtensionSteps \in Nat
      BY BudgetConfig
    <2>2. LesserOf(b.limit + n * ExtensionSteps, HardCap) \in Nat
      BY <2>1, BudgetConfig DEF LesserOf
    <2>3. /\ LesserOf(b.limit + n * ExtensionSteps, HardCap) <= HardCap
          /\ LesserOf(b.limit + n * ExtensionSteps, HardCap) >= b.limit
      BY <2>1, BudgetConfig DEF LesserOf
    <2>4. DOMAIN Steered(b) = DOMAIN b
      BY DEF Steered
    <2>. QED  BY <2>2, <2>3, <2>4 DEF Grows, SteeredTimes
  <1>. QED  BY <1>1, <1>2

LEMMA RecordingKeepsLimit ==
  ASSUME NEW b, DOMAIN b = {"limit", "extensions", "window", "seen", "novel"},
         NEW sig, NEW ok, NEW key
  PROVE  /\ DOMAIN Recorded(b, sig, ok, key) = DOMAIN b
         /\ Recorded(b, sig, ok, key).limit = b.limit
  BY DEF Recorded

LEMMA AskingKeepsSteps ==
  ASSUME Shape, StepInv, AskModel
  PROVE  StepInv'
  <1>1. /\ BudgetAtTop.limit \in Nat /\ BudgetAtTop.limit <= HardCap
        /\ DOMAIN BudgetAtTop = DOMAIN budget /\ BudgetAtTop.limit >= budget.limit
        /\ MayExtend(budget) /\ OverLimit => BudgetAtTop.limit > budget.limit
    BY ExtensionGrows DEF BudgetAtTop, Grows, Shape, StepInv
  <1>2. budget'.limit \in Nat /\ budget'.limit <= HardCap /\ budget'.limit >= BudgetAtTop.limit
    BY <1>1, SteeringGrows DEF AskModel, Grows, Shape
  <1>3. LadderAtTop.grace = (ladder.grace \/ (OverLimit /\ ~MayExtend(budget)))
    BY DEF LadderAtTop, Shape
  <1>4. step <= budget'.limit \/ (ladder'.grace /\ step <= budget'.limit + 1)
    <2>1. CASE ~OverLimit
      BY <2>1, <1>1, <1>2 DEF OverLimit, StepInv
    <2>2. CASE OverLimit /\ MayExtend(budget)
      <3>1. ladder'.grace = ladder.grace
        BY <2>2, <1>3 DEF AskModel, Shape, LadderAtTop
      <3>. QED  BY <2>2, <3>1, <1>1, <1>2 DEF AskModel, StepAllowed, StepInv
    <2>3. CASE OverLimit /\ ~MayExtend(budget)
      <3>1. ~ladder.grace /\ ladder'.grace
        BY <2>3, <1>3 DEF AskModel, StepAllowed, GraceLeft
      <3>. QED  BY <2>3, <3>1, <1>1, <1>2 DEF AskModel, StepAllowed, StepInv
    <2>. QED  BY <2>1, <2>2, <2>3
  <1>. QED  BY <1>2, <1>4 DEF AskModel, StepInv, Body

\* Most actions of an iteration go on with it, end it, or go back to the top
\* with at most one step more.
StaysInside ==
  /\ pc \in Body /\ budget' = budget /\ ladder'.grace = ladder.grace
  /\ \/ pc' = "top" /\ step' \in {step, step + 1}
     \/ pc' # "top" /\ step' = step

LEMMA StayingInsideKeepsSteps ==
  ASSUME StepInv, StaysInside
  PROVE  StepInv'
  BY DEF StepInv, StaysInside, Body

LEMMA StepsInductive ==
  ASSUME Shape, StepInv, [Next]_vars
  PROVE  StepInv'
  <1>. USE DEF Body, Waits, Ends
  <1>1. CASE UNCHANGED vars
    BY <1>1 DEF StepInv, vars
  <1>2. CASE Steer \/ Cancel \/ StallClock
    BY <1>2 DEF Steer, Cancel, StallClock, StepInv, user, ghost
  <1>3. CASE StopForTime \/ StopForSteps
    BY <1>3 DEF StopForTime, StopForSteps, StepInv, user, ghost
  <1>4. CASE StopCancelled
    <2>1. /\ BudgetAtTop.limit \in Nat /\ BudgetAtTop.limit <= HardCap
          /\ BudgetAtTop.limit >= budget.limit
      BY ExtensionGrows DEF BudgetAtTop, Grows, Shape, StepInv
    <2>. QED  BY <1>4, <2>1 DEF StopCancelled, StepInv, user, ghost
  <1>5. CASE AskModel
    BY <1>5, AskingKeepsSteps
  <1>6. CASE \E batch \in Batches : SendsBatch(batch)
    <2>1. StaysInside
      BY <1>6 DEF StaysInside, SendsBatch, Skips, Gives, Parsed, Shape, user, ghost
    <2>. QED  BY <2>1, StayingInsideKeepsSteps
  <1>7. CASE \E kind \in ReplyKinds : SendsProse(kind)
    <2>1. StaysInside
      BY <1>7 DEF StaysInside, SendsProse, Bounce, Parsed, Shape, user, ghost
    <2>. QED  BY <2>1, StayingInsideKeepsSteps
  <1>8. CASE SendsNoTool
    <2>1. StaysInside
      BY <1>8 DEF StaysInside, SendsNoTool, Bounce, EndWith, Shape, user, ghost
    <2>. QED  BY <2>1, StayingInsideKeepsSteps
  <1>9. CASE SendsDone
    <2>1. StaysInside
      BY <1>9 DEF StaysInside, SendsDone, Parsed, Shape, user, ghost
    <2>. QED  BY <2>1, StayingInsideKeepsSteps
  <1>10. CASE ModelFails
    <2>1. StaysInside
      BY <1>10 DEF StaysInside, ModelFails, Overflows, Refuses, Drops, CallFails, Resend, BackOff, EndWith, Shape, user, ghost
    <2>. QED  BY <2>1, StayingInsideKeepsSteps
  <1>11. CASE CallAborted
    <2>1. StaysInside
      BY <1>11 DEF StaysInside, CallAborted, EndWith, Shape, user, ghost
    <2>. QED  BY <2>1, StayingInsideKeepsSteps
  <1>12. CASE BackoffEnds
    BY <1>12 DEF BackoffEnds, StepInv, user, ghost
  <1>13. CASE \E nudge \in Nudges : PreCheck(nudge)
    <2>1. StaysInside
      BY <1>13 DEF StaysInside, PreCheck, Bounce, Rejected, Asked, Parsed, Shape, user, ghost
    <2>. QED  BY <2>1, StayingInsideKeepsSteps
  <1>14. CASE \E nudge \in Nudges : DoneRefused(nudge)
    <2>1. StaysInside
      BY <1>14 DEF StaysInside, DoneRefused, Bounce, Rejected, Asked, Shape, user, ghost
    <2>. QED  BY <2>1, StayingInsideKeepsSteps
  <1>15. CASE \E nudge \in Nudges : DoneAccepted(nudge)
    BY <1>15, SteeringGrows DEF DoneAccepted, EndWith, Grows, StepInv, Shape, user, ghost
  <1>16. CASE RunGroup
    BY <1>16 DEF RunGroup, StepInv, user, ghost
  <1>17. CASE \E hook \in Hooks : Report(hook)
    BY <1>17 DEF Report, StepInv, user, ghost
  <1>18. CASE JudgeCall
    BY <1>18, RecordingKeepsLimit DEF JudgeCall, StepInv, Shape, user, ghost
  <1>19. CASE EndStep
    BY <1>19 DEF EndStep, StepInv, user, ghost
  <1>20. CASE WrapUp
    BY <1>20 DEF WrapUp, StepInv, user, ghost
  <1>. QED
    BY <1>1, <1>2, <1>3, <1>4, <1>5, <1>6, <1>7, <1>8, <1>9, <1>10, <1>11, <1>12, <1>13, <1>14, <1>15, <1>16, <1>17, <1>18, <1>19, <1>20
    DEF Next, Loop, TopOfLoop, ModelAnswers, Completion, Execution

---------------------------------------------------------------------------
(* The shape of the state, and what AfterCall and AfterHooks do to evidence *)

LEMMA EvidenceStaysTyped ==
  ASSUME NEW e \in EvidenceType
  PROVE  /\ \A kind \in Kinds, r \in ResultType : AfterCall(e, kind, r) \in EvidenceType
         /\ \A hook : AfterHooks(e, hook) \in EvidenceType
  <1>1. ASSUME NEW firmly \in BOOLEAN, NEW f \in EvidenceType
        PROVE  Mutated(f, firmly) \in EvidenceType
    BY DEF Mutated, EvidenceType, Latest
  <1>2. ASSUME NEW kind \in Kinds, NEW r \in ResultType
        PROVE  AfterCall(e, kind, r) \in EvidenceType
    <2>. DEFINE counted == [e EXCEPT !.cycles = IF e.sawMutation /\ @ < 4 THEN @ + 1 ELSE @]
                failed  == [counted EXCEPT !.sawVerification = FALSE]
                passed  == [counted EXCEPT !.sawVerification = TRUE, !.latest = "verification",
                                           !.definite = FALSE]
    <2>1. counted \in EvidenceType
      BY DEF EvidenceType
    <2>2. failed \in EvidenceType /\ passed \in EvidenceType
      <3>. HIDE DEF counted
      <3>. QED  BY <2>1 DEF EvidenceType, Latest
    <2>3. CASE kind # "verify"
      <3>1. (kind # "shell") \in BOOLEAN
        OBVIOUS
      <3>2. Mutated(e, kind # "shell") \in EvidenceType
        BY <1>1, <3>1
      <3>. QED  BY <2>3, <3>2 DEF AfterCall
    <2>4. CASE kind = "verify"
      <3>1. Mutated(failed, TRUE) \in EvidenceType
        BY <1>1, <2>2
      <3>2. AfterCall(e, kind, r) = IF Verifies(kind, r) THEN passed
                                    ELSE IF Mutates(kind, r) THEN Mutated(failed, TRUE)
                                    ELSE failed
        BY <2>4, Zenon DEF AfterCall
      <3>. HIDE DEF failed, passed
      <3>. QED  BY <2>2, <3>1, <3>2
    <2>. QED  BY <2>3, <2>4
  <1>3. ASSUME NEW hook PROVE AfterHooks(e, hook) \in EvidenceType
    BY DEF AfterHooks, EvidenceType
  <1>. QED  BY <1>2, <1>3

LEMMA ShapeInductive ==
  ASSUME Shape, StepInv, WorkInv, [Next]_vars
  PROVE  Shape'
  <1>1. CASE UNCHANGED vars
    BY <1>1 DEF vars, Shape
  <1>2. CASE Steer \/ Cancel \/ StallClock
    BY <1>2 DEF Steer, Cancel, StallClock, Shape, user, ghost
  <1>3. CASE StopForTime \/ StopForSteps \/ StopCancelled
    BY <1>3 DEF StopForTime, StopForSteps, StopCancelled, BudgetAtTop, LadderAtTop, Extended, Shape, user, ghost
  <1>4. CASE AskModel
    BY <1>4 DEF AskModel, BudgetAtTop, LadderAtTop, Extended, SteeredTimes, Steered, Shape, user, ghost
  <1>5. CASE \E batch \in Batches : SendsBatch(batch)
    BY <1>5 DEF SendsBatch, Skips, Gives, Parsed, Shape, user, ghost
  <1>6. CASE \E kind \in ReplyKinds : SendsProse(kind)
    BY <1>6 DEF SendsProse, Bounce, Parsed, Shape, user, ghost
  <1>7. CASE SendsNoTool
    BY <1>7 DEF SendsNoTool, Bounce, EndWith, Shape, user, ghost
  <1>8. CASE SendsDone
    BY <1>8 DEF SendsDone, Parsed, Shape, user, ghost
  <1>9. CASE ModelFails
    BY <1>9 DEF ModelFails, Overflows, Refuses, Drops, CallFails, Resend, BackOff, EndWith, Shape, user, ghost
  <1>10. CASE CallAborted \/ BackoffEnds
    BY <1>10 DEF CallAborted, BackoffEnds, EndWith, Shape, user, ghost
  <1>11. CASE \E nudge \in Nudges : PreCheck(nudge)
    BY <1>11 DEF PreCheck, Bounce, Rejected, Asked, Parsed, Shape, user, ghost
  <1>12. CASE \E nudge \in Nudges : DoneRefused(nudge)
    BY <1>12 DEF DoneRefused, Bounce, Rejected, Asked, Shape, user, ghost
  <1>13. CASE \E nudge \in Nudges : DoneAccepted(nudge)
    <2>1. DOMAIN Steered(budget) = DOMAIN budget
      BY DEF Steered
    <2>2. /\ evid' = evid /\ ladder' = ladder
          /\ budget' = budget \/ budget' = Steered(budget)
          /\ truth' = truth \/ truth' = [truth EXCEPT !.unserved = TRUE]
          /\ undrained' \in {undrained, 0} /\ sent' = sent
      BY <1>13 DEF DoneAccepted, EndWith, user, ghost
    <2>. QED  BY <2>1, <2>2 DEF Shape
  <1>14. CASE RunGroup
    BY <1>14 DEF RunGroup, Shape, user, ghost
  <1>15. CASE \E hook \in Hooks : Report(hook)
    BY <1>15, EvidenceStaysTyped DEF Report, Shape, user, ghost
  <1>16. CASE EndStep
    BY <1>16 DEF EndStep, Shape, user, ghost
  <1>17. CASE WrapUp
    BY <1>17 DEF WrapUp, Shape, user, ghost
  <1>18. CASE JudgeCall
    <2>. DEFINE i == work.judged + 1
    <2>1. /\ work.batch[i] \in Calls /\ work.results[i] \in ResultType
      <3>1. i \in 1 .. Len(work.results) /\ i \in 1 .. Len(work.batch)
        BY <1>18 DEF JudgeCall, WorkInv, Executed
      <3>. QED  BY <3>1 DEF WorkInv
    <2>2. KindOf[work.batch[i]] \in Kinds
      BY <2>1, TurnConfig
    <2>3. evid' \in EvidenceType
      <3>1. evid' = AfterCall(evid, KindOf[work.batch[i]], work.results[i])
        BY <1>18 DEF JudgeCall
      <3>. QED  BY <2>1, <2>2, <3>1, EvidenceStaysTyped DEF Shape
    <2>4. DOMAIN budget' = DOMAIN budget
      BY <1>18, RecordingKeepsLimit DEF JudgeCall, Shape
    <2>5. truth'.dirty \in BOOLEAN /\ DOMAIN truth' = DOMAIN truth
      BY <1>18, <2>1 DEF JudgeCall, Shape, ResultType
    <2>6. ladder'.grace = ladder.grace /\ DOMAIN ladder' = DOMAIN ladder
      BY <1>18 DEF JudgeCall, Shape
    <2>. QED  BY <1>18, <2>3, <2>4, <2>5, <2>6 DEF JudgeCall, Shape, user
  <1>. QED
    BY <1>1, <1>2, <1>3, <1>4, <1>5, <1>6, <1>7, <1>8, <1>9, <1>10, <1>11, <1>12, <1>13, <1>14, <1>15, <1>16, <1>17, <1>18
    DEF Next, Loop, TopOfLoop, ModelAnswers, Completion, Execution

---------------------------------------------------------------------------
(* The batch being executed                                                *)

LEMMA GroupExtendsResults ==
  ASSUME WorkInv, RunGroup
  PROVE  WorkInv'
  <1>. DEFINE n == Len(work.results)
  <1>1. PICK last \in n + 1 .. Len(work.batch) :
          \E rs \in [1 .. last - n -> ResultType] :
            /\ \A k \in DOMAIN rs : rs[k] \in ResultsOf(KindOf[work.batch[n + k]])
            /\ work' = [work EXCEPT !.results = @ \o rs]
    BY DEF RunGroup, Executed
  <1>2. PICK rs \in [1 .. last - n -> ResultType] :
            /\ \A k \in DOMAIN rs : rs[k] \in ResultsOf(KindOf[work.batch[n + k]])
            /\ work' = [work EXCEPT !.results = @ \o rs]
    BY <1>1
  <1>3. n \in Nat /\ last - n \in Nat /\ Len(work.batch) \in Nat /\ last <= Len(work.batch)
    BY <1>1 DEF WorkInv
  <1>4. rs \in Seq(ResultType) /\ Len(rs) = last - n
    BY <1>3
  <1>5. /\ work'.results = work.results \o rs /\ work'.batch = work.batch
        /\ work'.judged = work.judged
        /\ DOMAIN work' = DOMAIN work
    BY <1>2 DEF WorkInv
  <1>6. /\ work'.results \in Seq(ResultType)
        /\ Len(work'.results) = last
    BY <1>3, <1>4, <1>5 DEF WorkInv
  <1>7. ASSUME NEW i \in 1 .. last
        PROVE  work'.results[i] \in ResultsOf(KindOf[work'.batch[i]])
    <2>1. CASE i <= n
      BY <1>3, <1>4, <1>5, <1>7, <2>1 DEF WorkInv
    <2>2. CASE i > n
      <3>1. i - n \in 1 .. last - n /\ i - n \in DOMAIN rs
        BY <1>3, <1>7, <2>2
      <3>2. work'.results[i] = rs[i - n]
        BY <1>3, <1>4, <1>5, <2>2, <3>1 DEF WorkInv
      <3>3. rs[i - n] \in ResultsOf(KindOf[work.batch[n + (i - n)]])
        BY <1>2, <3>1
      <3>. QED  BY <1>3, <1>5, <3>2, <3>3
    <2>. QED  BY <1>3, <2>1, <2>2
  <1>. QED  BY <1>3, <1>5, <1>6, <1>7 DEF WorkInv

LEMMA WorkInductive ==
  ASSUME WorkInv, [Next]_vars
  PROVE  WorkInv'
  <1>1. ASSUME work' = work PROVE WorkInv'
    BY <1>1 DEF WorkInv
  <1>2. CASE RunGroup
    BY <1>2, GroupExtendsResults
  <1>3. CASE \E batch \in Batches : SendsBatch(batch)
    <2>1. PICK batch \in Batches : SendsBatch(batch)
      BY <1>3
    <2>2. work' = work \/ work' = [NoWork EXCEPT !.batch = batch, !.mark = evid.cycles]
      BY <2>1 DEF SendsBatch, Skips, Gives
    <2>3. batch \in Seq(Calls)
      BY TurnConfig
    <2>4. CASE work' = [NoWork EXCEPT !.batch = batch, !.mark = evid.cycles]
      <3>1. /\ DOMAIN work' = {"batch", "results", "judged", "mark", "cut"}
            /\ work'.batch = batch /\ work'.results = <<>> /\ work'.judged = 0
        BY <2>4 DEF NoWork
      <3>2. <<>> \in Seq(ResultType) /\ Len(<<>>) = 0 /\ Len(batch) \in Nat
        BY <2>3
      <3>. QED  BY <2>3, <3>1, <3>2 DEF WorkInv
    <2>. QED  BY <1>1, <2>2, <2>4
  <1>4. CASE \E hook \in Hooks : Report(hook)
    BY <1>4 DEF Report, WorkInv
  <1>5. CASE JudgeCall
    BY <1>5 DEF JudgeCall, WorkInv
  <1>6. CASE EndStep
    BY <1>6 DEF EndStep, NoWork, NoBatch, WorkInv
  <1>7. CASE \/ UNCHANGED vars \/ Steer \/ Cancel \/ StallClock \/ TopOfLoop \/ ModelFails
             \/ CallAborted \/ BackoffEnds \/ WrapUp \/ SendsNoTool \/ SendsDone
             \/ \E kind \in ReplyKinds : SendsProse(kind)
    <2>1. work' = work
      BY <1>7 DEF vars, Steer, Cancel, StallClock, TopOfLoop, StopForTime, StopForSteps,
         StopCancelled, AskModel, ModelFails, Overflows, Refuses, Drops, CallFails, Resend,
         BackOff, EndWith, CallAborted, BackoffEnds, WrapUp, SendsNoTool, Bounce, SendsDone,
         SendsProse
    <2>. QED  BY <1>1, <2>1
  <1>8. CASE Completion
    <2>1. work' = work
      BY <1>8 DEF Completion, PreCheck, DoneRefused, DoneAccepted, Bounce, Rejected, EndWith
    <2>. QED  BY <1>1, <2>1
  <1>. QED
    BY <1>2, <1>3, <1>4, <1>5, <1>6, <1>7, <1>8 DEF Next, Loop, ModelAnswers, Execution

---------------------------------------------------------------------------
(* The evidence                                                            *)

\* What one executed call does: a change of the workspace leaves the evidence
\* stale, and only a passing verification makes it fresh or proven.
LEMMA CallKeepsEvidence ==
  ASSUME NEW e \in EvidenceType, NEW kind \in Kinds, NEW r \in ResultsOf(kind)
  PROVE  /\ r.wrote /\ ~Verifies(kind, r) => Stale(AfterCall(e, kind, r))
         /\ Stale(e) /\ ~Verifies(kind, r) => Stale(AfterCall(e, kind, r))
         /\ AfterCall(e, kind, r).sawVerification =>
              Verifies(kind, r) \/ (kind # "verify" /\ e.sawVerification)
  <1>1. r \in ResultType /\ (r.wrote /\ ~Verifies(kind, r) => Mutates(kind, r))
    BY DEF ResultsOf, ResultType, Mutates, Kinds, Verifies
  <1>2. ASSUME NEW f \in EvidenceType, NEW firmly
        PROVE  /\ Stale(Mutated(f, firmly))
               /\ Mutated(f, firmly).sawVerification = f.sawVerification
    BY DEF EvidenceType, Mutated, Stale
  <1>3. CASE kind # "verify"
    BY <1>1, <1>2, <1>3 DEF AfterCall, Verifies
  <1>4. CASE kind = "verify"
    <2>. DEFINE counted == [e EXCEPT !.cycles = IF e.sawMutation /\ @ < 4 THEN @ + 1 ELSE @]
                failed  == [counted EXCEPT !.sawVerification = FALSE]
    <2>1. /\ counted \in EvidenceType /\ counted.latest = e.latest
          /\ counted.sawMutation = e.sawMutation
      BY DEF EvidenceType
    <2>3. ~Verifies(kind, r) =>
            AfterCall(e, kind, r) = IF Mutates(kind, r) THEN Mutated(failed, TRUE) ELSE failed
      BY <1>4, Zenon DEF AfterCall
    <2>. HIDE DEF counted
    <2>2. /\ failed \in EvidenceType /\ ~failed.sawVerification
          /\ Stale(e) => Stale(failed)
      BY <2>1 DEF EvidenceType, Stale
    <2>. HIDE DEF failed
    <2>. QED  BY <1>1, <1>2, <1>4, <2>1, <2>2, <2>3
  <1>. QED  BY <1>3, <1>4

LEMMA EvidenceInductive ==
  ASSUME Shape, StepInv, WorkInv, EvidenceInv, [Next]_vars
  PROVE  EvidenceInv'
  <1>. USE DEF Ends
  \* Steps that leave evidence and truth alone and do not accept a completion.
  <1>1. ASSUME evid' = evid, truth'.dirty = truth.dirty, truth'.check = truth.check,
               pc' = "done" => pc = "done"
        PROVE  EvidenceInv'
    BY <1>1 DEF EvidenceInv
  <1>2. CASE UNCHANGED vars \/ Steer \/ Cancel \/ StallClock
    BY <1>1, <1>2 DEF vars, Steer, Cancel, StallClock, user, ghost
  <1>3. CASE TopOfLoop
    BY <1>1, <1>3 DEF TopOfLoop, StopForTime, StopForSteps, StopCancelled, AskModel, Shape, user, ghost
  <1>4. CASE ModelFails \/ CallAborted \/ BackoffEnds \/ WrapUp
    BY <1>1, <1>4 DEF ModelFails, Overflows, Refuses, Drops, CallFails, Resend, BackOff, EndWith, CallAborted, BackoffEnds, WrapUp, user, ghost
  <1>5. CASE ModelAnswers
    BY <1>1, <1>5 DEF ModelAnswers, SendsBatch, Skips, Gives, SendsProse, Bounce, SendsNoTool, EndWith, SendsDone, user, ghost
  <1>6. CASE \E nudge \in Nudges : PreCheck(nudge) \/ DoneRefused(nudge)
    BY <1>1, <1>6 DEF PreCheck, DoneRefused, Bounce, Rejected, Asked, Shape, user, ghost
  <1>7. CASE \E nudge \in Nudges : DoneAccepted(nudge)
    BY <1>7 DEF DoneAccepted, EndWith, EvidenceInv, Shape, ghost
  <1>8. CASE RunGroup
    BY <1>1, <1>8 DEF RunGroup, ghost
  <1>9. CASE \E hook \in Hooks : Report(hook)
    BY <1>9 DEF Report, AfterHooks, EvidenceInv, EvidenceType, Shape, Stale, ghost
  <1>10. CASE EndStep
    BY <1>1, <1>10 DEF EndStep, ghost
  <1>11. CASE JudgeCall
    <2>. DEFINE i == work.judged + 1
                kind == KindOf[work.batch[i]]
                r == work.results[i]
    <2>1. i \in 1 .. Len(work.results) /\ i \in 1 .. Len(work.batch)
      BY <1>11 DEF JudgeCall, WorkInv, Executed
    <2>2. kind \in Kinds /\ r \in ResultsOf(kind) /\ r \in ResultType
      <3>1. work.batch[i] \in Calls
        BY <2>1 DEF WorkInv
      <3>. QED  BY <2>1, <3>1, TurnConfig DEF WorkInv
    <2>3. /\ pc' = pc /\ pc = "judging"
          /\ evid' = AfterCall(evid, kind, r)
      BY <1>11 DEF JudgeCall
    <2>4. /\ truth'.dirty = IF Verifies(kind, r) THEN FALSE ELSE truth.dirty \/ r.wrote
          /\ truth'.check = IF kind # "verify" THEN truth.check
                            ELSE IF Verifies(kind, r) THEN "pass" ELSE "fail"
      BY <1>11 DEF JudgeCall, Shape
    <2>5. Verifies(kind, r) => kind = "verify"
      BY DEF Verifies
    <2>. HIDE DEF kind, r
    <2>. QED  BY <2>2, <2>3, <2>4, <2>5, CallKeepsEvidence DEF EvidenceInv, Shape
  <1>. QED
    BY <1>2, <1>3, <1>4, <1>5, <1>6, <1>7, <1>8, <1>9, <1>10, <1>11
    DEF Next, Loop, Completion, Execution

---------------------------------------------------------------------------
(* The corrections                                                         *)

LEMMA RejectedWhenSpent ==
  ASSUME Shape, AskedInv, NEW nudge, DoneRefused(nudge)
  PROVE  AskedInv'
  <1>1. /\ MaxDoneCorrections \in Nat \ {0} /\ MaxShellOnlyCorrections \in Nat \ {0}
    BY TurnConfig
  <1>. DEFINE class == IF ShellOnly(nudge) THEN "shell" ELSE "full"
  <1>2. CASE CorrectionsSpent(nudge)
    <2>1. truth' = [truth EXCEPT !.refused = class] /\ ladder' = ladder
      BY <1>2 DEF DoneRefused, Rejected
    <2>2. truth'.asked = truth.asked /\ truth'.refused = class
      BY <2>1 DEF Shape
    <2>. QED  BY <1>1, <1>2, <2>1, <2>2 DEF AskedInv, RejectionWasAsked, CorrectionsSpent
  <1>3. CASE ~CorrectionsSpent(nudge)
    <2>1. /\ truth' = [truth EXCEPT !.asked = @ \cup {class}]
          /\ ladder' = [ladder EXCEPT
                          !.done = @ + 1,
                          !.shellOnly = IF ShellOnly(nudge) THEN @ + 1 ELSE @]
      BY <1>3 DEF DoneRefused, Asked, Bounce
    <2>2. /\ truth'.asked = truth.asked \cup {class} /\ truth'.refused = truth.refused
          /\ ladder'.done = ladder.done + 1
          /\ ladder'.shellOnly = IF ShellOnly(nudge) THEN ladder.shellOnly + 1
                                 ELSE ladder.shellOnly
      BY <2>1 DEF Shape
    <2>. QED  BY <2>2 DEF AskedInv, RejectionWasAsked
  <1>. QED  BY <1>2, <1>3

LEMMA AskedInductive ==
  ASSUME Shape, AskedInv, [Next]_vars
  PROVE  AskedInv'
  \* Steps that count no correction and reject nothing.
  <1>1. ASSUME ladder'.done = ladder.done, ladder'.shellOnly = ladder.shellOnly,
               truth'.asked = truth.asked, truth'.refused = truth.refused
        PROVE  AskedInv'
    BY <1>1 DEF AskedInv, RejectionWasAsked
  <1>2. CASE UNCHANGED vars \/ Steer \/ Cancel \/ StallClock
    BY <1>1, <1>2 DEF vars, Steer, Cancel, StallClock, user, ghost
  <1>3. CASE StopForTime \/ StopForSteps \/ StopCancelled \/ AskModel
    <2>1. LadderAtTop.done = ladder.done /\ LadderAtTop.shellOnly = ladder.shellOnly
      BY DEF LadderAtTop, Shape
    <2>. QED
      BY <1>1, <1>3, <2>1 DEF StopForTime, StopForSteps, StopCancelled, AskModel, Shape, ghost
  <1>4. CASE ModelFails \/ CallAborted \/ BackoffEnds \/ WrapUp
    BY <1>1, <1>4 DEF ModelFails, Overflows, Refuses, Drops, CallFails, Resend, BackOff,
       EndWith, CallAborted, BackoffEnds, WrapUp, Shape, ghost
  <1>5. CASE ModelAnswers
    BY <1>1, <1>5 DEF ModelAnswers, SendsBatch, Skips, Gives, Parsed, SendsProse, Bounce,
       SendsNoTool, EndWith, SendsDone, Shape, ghost
  <1>6. CASE \E nudge \in Nudges : PreCheck(nudge)
    <2>1. MaxDoneCorrections \in Nat \ {0}
      BY TurnConfig
    <2>2. PICK nudge \in Nudges : PreCheck(nudge)
      BY <1>6
    <2>3. CASE nudge = "none"
      BY <1>1, <2>2, <2>3 DEF PreCheck, Parsed, Shape, ghost
    <2>4. CASE nudge # "none" /\ ladder.done >= MaxDoneCorrections
      <3>1. truth' = [truth EXCEPT !.refused = "full"] /\ ladder' = ladder
        BY <2>2, <2>4 DEF PreCheck, Rejected
      <3>2. truth'.asked = truth.asked /\ truth'.refused = "full"
        BY <3>1 DEF Shape
      <3>. QED  BY <2>1, <2>4, <3>1, <3>2 DEF AskedInv, RejectionWasAsked
    <2>5. CASE nudge # "none" /\ ~(ladder.done >= MaxDoneCorrections)
      <3>1. /\ truth' = [truth EXCEPT !.asked = @ \cup {"full"}]
            /\ ladder' = [ladder EXCEPT !.done = @ + 1]
        BY <2>2, <2>5 DEF PreCheck, Bounce, Asked
      <3>2. /\ truth'.asked = truth.asked \cup {"full"} /\ truth'.refused = truth.refused
            /\ ladder'.done = ladder.done + 1 /\ ladder'.shellOnly = ladder.shellOnly
        BY <3>1 DEF Shape
      <3>. QED  BY <3>2 DEF AskedInv, RejectionWasAsked
    <2>. QED  BY <2>3, <2>4, <2>5
  <1>7. CASE \E nudge \in Nudges : DoneRefused(nudge)
    BY <1>7, RejectedWhenSpent
  <1>8. CASE \E nudge \in Nudges : DoneAccepted(nudge)
    BY <1>1, <1>8 DEF DoneAccepted, EndWith, Shape, ghost
  <1>9. CASE RunGroup \/ EndStep \/ \E hook \in Hooks : Report(hook)
    BY <1>1, <1>9 DEF RunGroup, EndStep, Report, ghost
  <1>10. CASE JudgeCall
    <2>1. /\ truth'.asked = truth.asked /\ truth'.refused = truth.refused
          /\ \/ ladder'.done = ladder.done /\ ladder'.shellOnly = ladder.shellOnly
             \/ ladder'.done = 0 /\ ladder'.shellOnly = 0
      BY <1>10 DEF JudgeCall, Shape
    <2>. QED  BY <2>1 DEF AskedInv, RejectionWasAsked
  <1>. QED
    BY <1>2, <1>3, <1>4, <1>5, <1>6, <1>7, <1>8, <1>9, <1>10
    DEF Next, Loop, TopOfLoop, Completion, Execution

---------------------------------------------------------------------------
(* The theorems                                                            *)

TurnInv == Shape /\ StepInv /\ WorkInv /\ EvidenceInv /\ AskedInv

LEMMA InitGivesTurnInv ==
  ASSUME Init
  PROVE  TurnInv
  <1>1. Shape
    BY DEF Init, Shape, FreshBudget, FreshLadder, NoEvidence, EvidenceType, Latest
  <1>2. StepInv
    BY BudgetConfig DEF Init, StepInv, FreshBudget, LesserOf, Body
  <1>3. WorkInv
    BY DEF Init, WorkInv, NoWork, NoBatch
  <1>4. EvidenceInv
    BY DEF Init, EvidenceInv, NoEvidence
  <1>5. AskedInv
    BY DEF Init, AskedInv, RejectionWasAsked, FreshLadder
  <1>. QED  BY <1>1, <1>2, <1>3, <1>4, <1>5 DEF TurnInv

LEMMA TurnInvHolds == Spec => []TurnInv
  <1>1. TurnInv /\ [Next]_vars => TurnInv'
    BY StepsInductive, ShapeInductive, WorkInductive, EvidenceInductive, AskedInductive
    DEF TurnInv
  <1>. QED  BY <1>1, InitGivesTurnInv, PTL DEF Spec

\* The step counter of a turn never passes the hard cap by more than the grace
\* step and the increment that ends it, for every budget configuration and every
\* mixture of extensions, steering, free resends and bounces (engine.ts, the
\* budget check at the top of the loop).
THEOREM StepsAreBounded == Spec => []StepsBounded
  <1>1. TurnInv => StepsBounded
    BY BudgetConfig DEF TurnInv, StepInv, StepsBounded
  <1>. QED  BY <1>1, TurnInvHolds, PTL

\* No turn that changed the workspace is accepted as done unless a verification
\* passed after the last change, for every alphabet of calls, every batch and
\* every result the tools can give (the done gate of engine.ts).
THEOREM CompletionIsVerified == Spec => []NoUnverifiedCompletion
  <1>1. TurnInv => NoUnverifiedCompletion
    BY DEF TurnInv, EvidenceInv, NoUnverifiedCompletion, GateBlocks, Stale
  <1>. QED  BY <1>1, TurnInvHolds, PTL

\* No completion is rejected before the model was asked to correct it: one stopped
\* on shell-only evidence was told the changed paths, any other was asked once, for
\* all limits of at least one correction (the two counters of the done gate).
THEOREM RejectionsWereAsked == Spec => []RejectionWasAsked
  <1>1. TurnInv => RejectionWasAsked
    BY DEF TurnInv, AskedInv
  <1>. QED  BY <1>1, TurnInvHolds, PTL

---------------------------------------------------------------------------
(* Repetition: the batches that ran, and those the guard remembers         *)

SpinShape ==
  /\ DOMAIN spin = {"lastSig", "repeats", "replay", "recent", "bounced", "failures"}
  /\ spin.recent \in Seq(Batches) /\ spin.bounced \in BOOLEAN /\ ran \in Seq(Batches)

\* Two lists that end alike, as far as both reach back.
EndAlike(s, t) == \A i \in Nat : i < Len(s) /\ i < Len(t) => s[Len(s) - i] = t[Len(t) - i]

\* While the window fills, no more ran than it holds and, after the one bounce, a
\* window less one before; a full window is not one that cycles.
Remembered(r, recent, bounced) ==
  /\ EndAlike(r, recent) /\ Len(recent) <= CycleWindow
  /\ Len(recent) < CycleWindow => Len(r) <= Len(recent) + (IF bounced THEN CycleWindow - 1 ELSE 0)
  /\ Len(recent) = CycleWindow => Len(r) < CycleWindow

SpinInv ==
  /\ SpinShape /\ SpinBounded
  /\ pc \notin {"consolidate_cycle", "cycle"} => Remembered(ran, spin.recent, spin.bounced)

\* The values of a list are finitely many, and a part of the list has no more.
LEMMA FewerDistinct ==
  ASSUME NEW s \in Seq(Batches), NEW t \in Seq(Batches),
         \A i \in 1 .. Len(t) : \E j \in 1 .. Len(s) : t[i] = s[j]
  PROVE  DistinctIn(s) \in Nat /\ DistinctIn(t) \in Nat /\ DistinctIn(t) <= DistinctIn(s)
  <1>. DEFINE S == {s[i] : i \in DOMAIN s}
              T == {t[i] : i \in DOMAIN t}
  <1>1. DOMAIN s = 1 .. Len(s) /\ Len(s) \in Nat /\ DOMAIN t = 1 .. Len(t)
    OBVIOUS
  <1>2. s \in Surjection(1 .. Len(s), S)
    BY <1>1 DEF Surjection
  <1>3. IsFiniteSet(S)
    BY <1>1, <1>2, FS_Interval, FS_Surjection
  <1>4. T \in SUBSET S
    BY <1>1
  <1>. HIDE DEF S, T
  <1>5. Cardinality(T) <= Cardinality(S) /\ IsFiniteSet(T)
    BY <1>3, <1>4, FS_Subset
  <1>6. Cardinality(S) \in Nat /\ Cardinality(T) \in Nat
    BY <1>3, <1>5, FS_CardinalityType
  <1>. QED  BY <1>5, <1>6 DEF S, T, DistinctIn

\* A set of numbers has a least one.
LEMMA LeastPlace ==
  ASSUME NEW T \in SUBSET Nat, T # {}
  PROVE  \E x \in T : \A y \in T : x <= y
  <1>1. PICK x \in T : \A y \in T : ~(<<y, x>> \in OpToRel(<, Nat))
    BY WFMin, NatLessThanWellFounded
  <1>2. \A y \in T : ~(y < x)
    BY <1>1 DEF OpToRel
  <1>. QED  BY <1>2

LEMMA TailExists ==
  ASSUME NEW s \in Seq(Batches), Len(s) > 0
  PROVE  \E k \in 1 .. Len(s) : /\ TwoDistinctTail(s) = SubSeq(s, k, Len(s))
                                /\ DistinctIn(SubSeq(s, k, Len(s))) <= 2
  <1>. DEFINE few(k) == DistinctIn(SubSeq(s, k, Len(s))) <= 2
              T == {k \in 1 .. Len(s) : few(k)}
              first(k) == few(k) /\ (k = 1 \/ DistinctIn(SubSeq(s, k - 1, Len(s))) > 2)
  <1>1. Len(s) \in Nat /\ Len(s) \in 1 .. Len(s)
    OBVIOUS
  <1>2. Len(s) \in T
    <2>1. PICK t : t = SubSeq(s, Len(s), Len(s))
      OBVIOUS
    <2>2. DOMAIN t = {1}
      BY <1>1, <2>1
    <2>3. {t[i] : i \in DOMAIN t} = {t[1]}
      BY <2>2
    <2>4. Cardinality({t[1]}) = 1
      BY FS_Singleton
    <2>5. DistinctIn(t) = 1
      BY <2>3, <2>4 DEF DistinctIn
    <2>. QED  BY <1>1, <2>1, <2>5
  <1>3. \A k \in 1 .. Len(s) : DistinctIn(SubSeq(s, k, Len(s))) \in Nat
    <2>. SUFFICES ASSUME NEW k \in 1 .. Len(s) PROVE DistinctIn(SubSeq(s, k, Len(s))) \in Nat
      OBVIOUS
    <2>1. PICK t \in Seq(Batches) : t = SubSeq(s, k, Len(s))
      <3>1. SubSeq(s, k, Len(s)) \in Seq(Batches)
        BY <1>1
      <3>. QED  BY <3>1
    <2>2. DistinctIn(t) \in Nat
      BY FewerDistinct
    <2>. QED  BY <2>1, <2>2
  <1>4. PICK k \in T : \A y \in T : k <= y
    <2>1. T \in SUBSET Nat /\ T # {}
      BY <1>2
    <2>. QED  BY <2>1, LeastPlace
  <1>5. first(k)
    <2>1. CASE k = 1
      BY <2>1
    <2>2. CASE k # 1
      <3>1. k - 1 \in 1 .. Len(s) /\ ~(k <= k - 1)
        BY <1>1, <2>2
      <3>2. k - 1 \notin T
        BY <1>4, <3>1
      <3>3. ~(DistinctIn(SubSeq(s, k - 1, Len(s))) <= 2)
        BY <3>1, <3>2
      <3>. QED  BY <1>3, <3>1, <3>3
    <2>. QED  BY <2>1, <2>2
  <1>. HIDE DEF T
  <1>6. k \in 1 .. Len(s)
    BY DEF T
  <1>7. PICK c : c = CHOOSE j \in 1 .. Len(s) : first(j)
    OBVIOUS
  <1>8. c \in 1 .. Len(s) /\ first(c)
    BY <1>5, <1>6, <1>7
  <1>9. TwoDistinctTail(s) = SubSeq(s, c, Len(s))
    BY <1>7 DEF TwoDistinctTail
  <1>. QED  BY <1>8, <1>9

\* A batch runs: both lists get longer by it, and drop what lies too far back.
LEMMA RunsRemembered ==
  ASSUME SpinShape, NEW bounced \in BOOLEAN, Remembered(ran, spin.recent, bounced), NEW batch \in Batches,
         NEW w, w = WindowWith(batch), ~Cycling(w), NEW t, t = TwoDistinctTail(Append(ran, batch))
  PROVE  w \in Seq(Batches) /\ t \in Seq(Batches) /\ Remembered(t, w, bounced)
  <1>1. CycleWindow \in Nat /\ CycleWindow > 2
    BY TurnConfig
  <1>2. PICK a \in Seq(Batches) : a = ran
    BY DEF SpinShape
  <1>3. PICK b \in Seq(Batches) : b = spin.recent
    BY DEF SpinShape
  <1>4. Len(a) \in Nat /\ Len(b) \in Nat /\ Len(b) <= CycleWindow
    BY <1>3 DEF Remembered
  <1>5. PICK a2 \in Seq(Batches) : a2 = Append(a, batch)
    <2>1. Append(a, batch) \in Seq(Batches)
      OBVIOUS
    <2>. QED  BY <2>1
  <1>6. /\ Len(a2) = Len(a) + 1 /\ a2[Len(a) + 1] = batch
        /\ \A i \in 1 .. Len(a) : a2[i] = a[i]
    BY <1>5
  <1>7. PICK k \in 1 .. Len(a2) : t = SubSeq(a2, k, Len(a2)) /\ DistinctIn(SubSeq(a2, k, Len(a2))) <= 2
    <2>1. Len(a2) > 0
      BY <1>4, <1>6
    <2>2. t = TwoDistinctTail(a2)
      BY <1>2, <1>5
    <2>. QED  BY <2>1, <2>2, TailExists
  <1>8. /\ t \in Seq(Batches) /\ Len(t) = Len(a2) - k + 1 /\ DistinctIn(t) <= 2
        /\ \A i \in 1 .. Len(t) : t[i] = a2[i + k - 1]
    BY <1>4, <1>6, <1>7
  <1>9. PICK b2 \in Seq(Batches) : b2 = Append(b, batch)
    <2>1. Append(b, batch) \in Seq(Batches)
      OBVIOUS
    <2>. QED  BY <2>1
  <1>10. /\ Len(b2) = Len(b) + 1 /\ b2[Len(b) + 1] = batch
         /\ \A i \in 1 .. Len(b) : b2[i] = b[i]
    BY <1>9
  <1>11. w = IF Len(b2) > CycleWindow THEN Tail(b2) ELSE b2
    BY <1>3, <1>9 DEF WindowWith
  <1>12. PICK d \in {0, 1} : /\ w \in Seq(Batches) /\ Len(w) = Len(b2) - d
                             /\ \A i \in 1 .. Len(w) : w[i] = b2[i + d]
                             /\ d = IF Len(b2) > CycleWindow THEN 1 ELSE 0
    <2>1. CASE Len(b2) > CycleWindow
      <3>1. w = Tail(b2) /\ b2 # <<>>
        BY <1>4, <1>10, <1>11, <2>1
      <3>2. w \in Seq(Batches) /\ Len(w) = Len(b2) - 1 /\ \A i \in 1 .. Len(w) : w[i] = b2[i + 1]
        BY <1>4, <1>10, <3>1
      <3>. QED  BY <2>1, <3>2
    <2>2. CASE ~(Len(b2) > CycleWindow)
      <3>1. w = b2
        BY <1>11, <2>2
      <3>2. \A i \in 1 .. Len(w) : w[i] = b2[i + 0]
        BY <3>1
      <3>3. w \in Seq(Batches) /\ Len(w) = Len(b2) - 0
        BY <3>1
      <3>. QED  BY <2>2, <3>2, <3>3
    <2>. QED  BY <2>1, <2>2
  <1>13. Len(w) \in Nat /\ Len(w) <= CycleWindow /\ Len(t) \in Nat /\ Len(t) <= Len(a) + 1
    BY <1>1, <1>4, <1>6, <1>8, <1>10, <1>12
  <1>14. \A i \in Nat : i < Len(a2) /\ i < Len(b2) => a2[Len(a2) - i] = b2[Len(b2) - i]
    <2>. SUFFICES ASSUME NEW i \in Nat, i < Len(a2), i < Len(b2)
                  PROVE  a2[Len(a2) - i] = b2[Len(b2) - i]
      OBVIOUS
    <2>1. CASE i = 0
      BY <1>4, <1>6, <1>10, <2>1
    <2>2. CASE i # 0
      <3>1. i - 1 \in Nat /\ i - 1 < Len(a) /\ i - 1 < Len(b)
        BY <1>4, <1>6, <1>10, <2>2
      <3>2. a[Len(a) - (i - 1)] = b[Len(b) - (i - 1)]
        BY <1>2, <1>3, <3>1 DEF Remembered, EndAlike
      <3>3. PICK x \in 1 .. Len(a) : x = Len(a2) - i /\ x = Len(a) - (i - 1)
        <4>1. /\ Len(a2) - i \in 1 .. Len(a) /\ Len(a2) - i = Len(a) - (i - 1)
          BY <1>4, <1>6, <3>1
        <4>. QED  BY <4>1
      <3>4. PICK y \in 1 .. Len(b) : y = Len(b2) - i /\ y = Len(b) - (i - 1)
        <4>1. /\ Len(b2) - i \in 1 .. Len(b) /\ Len(b2) - i = Len(b) - (i - 1)
          BY <1>4, <1>10, <3>1
        <4>. QED  BY <4>1
      <3>5. a2[x] = a[x] /\ b2[y] = b[y] /\ a[x] = b[y]
        BY <1>6, <1>10, <3>2, <3>3, <3>4
      <3>. QED  BY <3>3, <3>4, <3>5
    <2>. QED  BY <2>1, <2>2
  <1>15. EndAlike(t, w)
    <2>. SUFFICES ASSUME NEW i \in Nat, i < Len(t), i < Len(w)
                  PROVE  t[Len(t) - i] = w[Len(w) - i]
      BY DEF EndAlike
    <2>1. PICK x \in 1 .. Len(t) : x = Len(t) - i /\ x + k - 1 = Len(a2) - i
      <3>1. Len(t) - i \in 1 .. Len(t) /\ Len(t) - i + k - 1 = Len(a2) - i
        BY <1>4, <1>6, <1>8, <1>13
      <3>. QED  BY <3>1
    <2>2. PICK y \in 1 .. Len(w) : y = Len(w) - i /\ y + d = Len(b2) - i
      <3>1. Len(w) - i \in 1 .. Len(w) /\ Len(w) - i + d = Len(b2) - i
        BY <1>4, <1>10, <1>12, <1>13
      <3>. QED  BY <3>1
    <2>3. i < Len(a2) /\ i < Len(b2)
      BY <1>4, <1>6, <1>8, <1>10, <1>12
    <2>4. t[x] = a2[Len(a2) - i] /\ w[y] = b2[Len(b2) - i]
      BY <1>8, <1>12, <2>1, <2>2
    <2>. QED  BY <1>14, <2>1, <2>2, <2>3, <2>4
  <1>16. ASSUME Len(w) < CycleWindow
         PROVE  Len(t) <= Len(w) + (IF bounced THEN CycleWindow - 1 ELSE 0)
    <2>1. Len(w) = Len(b) + 1 /\ Len(b) < CycleWindow
      <3>1. d = 1 => Len(b2) > CycleWindow
        BY <1>12
      <3>2. d = 0
        BY <1>1, <1>4, <1>10, <1>12, <1>16, <3>1
      <3>. QED  BY <1>1, <1>4, <1>10, <1>12, <1>16, <3>2
    <2>2. Len(a) <= Len(b) + (IF bounced THEN CycleWindow - 1 ELSE 0)
      BY <1>2, <1>3, <2>1 DEF Remembered
    <2>. QED  BY <1>1, <1>4, <1>13, <2>1, <2>2
  <1>17. ASSUME Len(w) = CycleWindow PROVE Len(t) < CycleWindow
    <2>1. SUFFICES ASSUME Len(t) >= CycleWindow PROVE FALSE
      BY <1>1, <1>13
    <2>2. \A i \in 1 .. Len(w) : \E j \in 1 .. Len(t) : w[i] = t[j]
      <3>. SUFFICES ASSUME NEW i \in 1 .. Len(w) PROVE \E j \in 1 .. Len(t) : w[i] = t[j]
        OBVIOUS
      <3>1. PICK m \in Nat : m = Len(w)
        BY <1>13
      <3>2. PICK n \in Nat : n = m - i /\ n < m /\ m - n = i
        <4>1. m - i \in Nat /\ m - i < m /\ m - (m - i) = i
          BY <3>1
        <4>. QED  BY <4>1
      <3>3. n < Len(t) /\ n < Len(w)
        BY <1>13, <1>17, <2>1, <3>1, <3>2
      <3>4. t[Len(t) - n] = w[Len(w) - n]
        BY <1>15, <3>3 DEF EndAlike
      <3>5. w[Len(w) - n] = w[i]
        BY <3>1, <3>2
      <3>6. Len(t) - n \in 1 .. Len(t)
        BY <1>13, <3>3
      <3>. QED  BY <3>4, <3>5, <3>6
    <2>3. DistinctIn(t) \in Nat /\ DistinctIn(w) \in Nat /\ DistinctIn(w) <= DistinctIn(t)
      BY <1>8, <1>12, <2>2, FewerDistinct
    <2>4. DistinctIn(w) <= 2
      BY <1>8, <2>3
    <2>. QED  BY <1>17, <2>4 DEF Cycling
  <1>. QED  BY <1>8, <1>12, <1>13, <1>15, <1>16, <1>17 DEF Remembered

\* What is remembered bounds what ran.
LEMMA SpinFollows ==
  ASSUME NEW r \in Seq(Batches), NEW recent \in Seq(Batches), NEW bounced \in BOOLEAN,
         Remembered(r, recent, bounced), ran' = r, spin'.recent = recent, spin'.bounced = bounced,
         DOMAIN spin' = {"lastSig", "repeats", "replay", "recent", "bounced", "failures"}
  PROVE  SpinInv'
  <1>1. CycleWindow \in Nat /\ CycleWindow > 2
    BY TurnConfig
  <1>2. Len(r) \in Nat /\ Len(recent) \in Nat
    OBVIOUS
  <1>3. Len(r) <= 2 * (CycleWindow - 1)
    BY <1>1, <1>2 DEF Remembered
  <1>4. SpinBounded'
    BY <1>3 DEF SpinBounded
  <1>5. SpinShape'
    BY DEF SpinShape
  <1>6. Remembered(ran', spin'.recent, spin'.bounced)
    OBVIOUS
  <1>. QED  BY <1>4, <1>5, <1>6 DEF SpinInv

\* A step that changes neither list, nor the bounce.
LEMMA SpinRests ==
  ASSUME SpinInv, ran' = ran, spin'.recent = spin.recent, spin'.bounced = spin.bounced,
         DOMAIN spin' = DOMAIN spin,
         pc \in {"consolidate_cycle", "cycle"} => pc' \in {"consolidate_cycle", "cycle"}
  PROVE  SpinInv'
  <1>1. SpinShape' /\ SpinBounded'
    BY DEF SpinInv, SpinShape, SpinBounded
  <1>2. ASSUME pc' \notin {"consolidate_cycle", "cycle"}
        PROVE  Remembered(ran, spin.recent, spin.bounced)'
    <2>1. Remembered(ran, spin.recent, spin.bounced)
      BY <1>2 DEF SpinInv
    <2>. QED  BY <2>1 DEF Remembered, EndAlike
  <1>. QED  BY <1>1, <1>2 DEF SpinInv

\* Nothing ran since the guard began to remember, or a window less one did before.
LEMMA NothingRemembered ==
  ASSUME NEW r \in Seq(Batches), NEW bounced \in BOOLEAN,
         Len(r) = 0 \/ (bounced /\ Len(r) < CycleWindow)
  PROVE  <<>> \in Seq(Batches) /\ Remembered(r, <<>>, bounced)
  <1>1. CycleWindow \in Nat /\ CycleWindow > 2 /\ Len(r) \in Nat
    BY TurnConfig
  <1>2. <<>> \in Seq(Batches) /\ Len(<<>>) = 0
    OBVIOUS
  <1>3. EndAlike(r, <<>>)
    BY <1>2 DEF EndAlike
  <1>. QED  BY <1>1, <1>2, <1>3 DEF Remembered

\* Steering clears both lists.
LEMMA SpinCleared ==
  ASSUME SpinInv, ran' = <<>>, spin' = GuardsReset(spin)
  PROVE  SpinInv'
  <1>1. PICK bounced \in BOOLEAN : bounced = spin.bounced
    BY DEF SpinInv, SpinShape
  <1>2. /\ DOMAIN spin' = {"lastSig", "repeats", "replay", "recent", "bounced", "failures"}
        /\ spin'.recent = <<>> /\ spin'.bounced = bounced
    BY <1>1 DEF GuardsReset, SpinInv, SpinShape
  <1>3. PICK r \in Seq(Batches) : r = <<>> /\ Len(r) = 0
    <2>1. <<>> \in Seq(Batches) /\ Len(<<>>) = 0
      OBVIOUS
    <2>. QED  BY <2>1
  <1>4. <<>> \in Seq(Batches) /\ Remembered(r, <<>>, bounced)
    BY <1>3, NothingRemembered
  <1>5. ran' = r
    BY <1>3
  <1>. QED  BY <1>2, <1>4, <1>5, SpinFollows

\* The guards judge a batch: it is skipped, ends the turn, bounces once, or runs.
LEMMA BatchesRemembered ==
  ASSUME SpinInv, NEW batch \in Batches, SendsBatch(batch)
  PROVE  SpinInv'
  <1>1. pc = "model" /\ SpinShape /\ Remembered(ran, spin.recent, spin.bounced)
    BY DEF SendsBatch, SpinInv
  <1>2. PICK s : s = Noticed(batch)
    OBVIOUS
  <1>3. /\ DOMAIN s = {"lastSig", "repeats", "replay", "recent", "bounced", "failures"}
        /\ s.recent = spin.recent /\ s.bounced = spin.bounced
    BY <1>1, <1>2 DEF Noticed, SpinShape
  <1>4. PICK w : w = WindowWith(batch)
    OBVIOUS
  <1>5. PICK bounced \in BOOLEAN : bounced = spin.bounced
    BY <1>1 DEF SpinShape
  <1>6. PICK r \in Seq(Batches) : r = ran
    BY <1>1 DEF SpinShape
  <1>7. CASE s.repeats \in {2, MaxRepeat - 1}
    <2>1. spin' = s /\ ran' = ran /\ pc' = "top"
      BY <1>2, <1>7 DEF SendsBatch, Skips, ghost
    <2>. QED  BY <1>1, <1>3, <2>1, SpinRests DEF SpinShape
  <1>8. CASE s.repeats \notin {2, MaxRepeat - 1} /\ s.repeats >= MaxRepeat
    <2>1. spin' = s /\ ran' = ran
      BY <1>2, <1>8 DEF SendsBatch, Gives, ghost
    <2>. QED  BY <1>1, <1>3, <2>1, SpinRests DEF SpinShape
  <1>9. CASE /\ s.repeats \notin {2, MaxRepeat - 1} /\ ~(s.repeats >= MaxRepeat)
             /\ Cycling(w) /\ spin.bounced
    <2>1. spin' = [s EXCEPT !.recent = w] /\ ran' = ran /\ pc' = "consolidate_cycle"
      BY <1>2, <1>4, <1>9 DEF SendsBatch, Gives, ghost
    <2>2. w \in Seq(Batches)
      <3>1. PICK longer \in Seq(Batches) : longer = Append(spin.recent, batch) /\ longer # <<>>
        <4>1. PICK recent \in Seq(Batches) : recent = spin.recent
          BY <1>1 DEF SpinShape
        <4>2. Append(recent, batch) \in Seq(Batches) /\ Append(recent, batch) # <<>>
          OBVIOUS
        <4>. QED  BY <4>1, <4>2
      <3>2. Tail(longer) \in Seq(Batches)
        BY <3>1
      <3>. QED  BY <1>4, <3>1, <3>2 DEF WindowWith
    <2>3. SpinShape' /\ SpinBounded'
      BY <1>1, <1>3, <2>1, <2>2 DEF SpinShape, SpinInv, SpinBounded
    <2>. QED  BY <2>1, <2>3 DEF SpinInv
  <1>10. CASE /\ s.repeats \notin {2, MaxRepeat - 1} /\ ~(s.repeats >= MaxRepeat)
              /\ Cycling(w) /\ ~spin.bounced
    <2>1. spin' = [s EXCEPT !.recent = <<>>, !.bounced = TRUE] /\ ran' = ran
      BY <1>2, <1>4, <1>10 DEF SendsBatch, Skips, ghost
    <2>2. spin'.recent = <<>> /\ spin'.bounced = TRUE /\ DOMAIN spin' = DOMAIN s
      BY <1>3, <2>1
    <2>3. Len(r) < CycleWindow
      <3>1. Len(spin.recent) \in Nat /\ Len(r) \in Nat /\ CycleWindow \in Nat
        BY <1>1, TurnConfig DEF SpinShape
      <3>. QED  BY <1>1, <1>6, <1>10, <3>1 DEF Remembered
    <2>4. <<>> \in Seq(Batches) /\ Remembered(r, <<>>, TRUE)
      BY <2>3, NothingRemembered
    <2>. QED  BY <1>3, <1>6, <2>1, <2>2, <2>4, SpinFollows
  <1>11. CASE s.repeats \notin {2, MaxRepeat - 1} /\ ~(s.repeats >= MaxRepeat) /\ ~Cycling(w)
    <2>1. spin' = [s EXCEPT !.recent = w] /\ ran' = TwoDistinctTail(Append(ran, batch))
      BY <1>2, <1>4, <1>11 DEF SendsBatch
    <2>2. PICK t : t = TwoDistinctTail(Append(ran, batch))
      OBVIOUS
    <2>3. Remembered(ran, spin.recent, bounced)
      BY <1>1, <1>5
    <2>4. w \in Seq(Batches) /\ t \in Seq(Batches) /\ Remembered(t, w, bounced)
      BY <1>1, <1>4, <1>11, <2>2, <2>3, RunsRemembered
    <2>5. spin'.recent = w /\ spin'.bounced = bounced /\ DOMAIN spin' = DOMAIN s /\ ran' = t
      BY <1>3, <1>5, <2>1, <2>2
    <2>. QED  BY <1>3, <2>4, <2>5, SpinFollows
  <1>. QED  BY <1>7, <1>8, <1>9, <1>10, <1>11

LEMMA SpinInductive ==
  ASSUME Shape, SpinInv, [Next]_vars
  PROVE  SpinInv'
  \* Steps that leave the lists alone; an ended or ending turn stays so.
  <1>1. ASSUME spin'.recent = spin.recent, spin'.bounced = spin.bounced, DOMAIN spin' = DOMAIN spin,
               ran' = ran, pc \in {"consolidate_cycle", "cycle"} => pc' \in {"consolidate_cycle", "cycle"}
        PROVE  SpinInv'
    BY <1>1, SpinRests
  <1>2. CASE UNCHANGED vars \/ Steer \/ Cancel \/ StallClock
    BY <1>1, <1>2 DEF vars, Steer, Cancel, StallClock, user, ghost
  <1>3. CASE StopForTime \/ StopForSteps \/ StopCancelled
    BY <1>1, <1>3 DEF StopForTime, StopForSteps, StopCancelled, StepAllowed, ghost
  <1>4. CASE AskModel
    <2>1. pc = "top" /\ spin' = (IF undrained > 0 THEN GuardsReset(spin) ELSE spin)
          /\ ran' = (IF undrained > 0 THEN <<>> ELSE ran)
      BY <1>4 DEF AskModel, StepAllowed
    <2>2. CASE undrained > 0
      BY <2>1, <2>2, SpinCleared
    <2>3. CASE ~(undrained > 0)
      BY <1>1, <2>1, <2>3
    <2>. QED  BY <2>2, <2>3
  <1>5. CASE ModelFails \/ CallAborted \/ BackoffEnds
    <2>1. \A s : DOMAIN s = DOMAIN spin /\ s = Elided(spin) =>
            s.recent = spin.recent /\ s.bounced = spin.bounced
      BY DEF Elided, SpinInv, SpinShape
    <2>2. DOMAIN Elided(spin) = DOMAIN spin
      BY DEF Elided
    <2>. QED
      BY <1>1, <1>5, <2>1, <2>2 DEF ModelFails, Overflows, Refuses, Drops, CallFails, Resend, BackOff,
         EndWith, CallAborted, BackoffEnds, ghost
  <1>6. CASE SendsNoTool \/ SendsDone \/ \E kind \in ReplyKinds : SendsProse(kind)
    BY <1>1, <1>6 DEF SendsProse, Bounce, SendsNoTool, EndWith, SendsDone, ghost
  <1>7. CASE \E batch \in Batches : SendsBatch(batch)
    BY <1>7, BatchesRemembered
  <1>8. CASE \E nudge \in Nudges : PreCheck(nudge) \/ DoneRefused(nudge)
    BY <1>1, <1>8 DEF PreCheck, DoneRefused, Rejected, Bounce, ghost
  <1>9. CASE \E nudge \in Nudges : DoneAccepted(nudge)
    <2>1. PICK nudge \in Nudges : DoneAccepted(nudge)
      BY <1>9
    <2>2. CASE undrained > 0
      BY <2>1, <2>2, SpinCleared DEF DoneAccepted
    <2>3. CASE ~(undrained > 0)
      BY <1>1, <2>1, <2>3 DEF DoneAccepted, EndWith, ghost
    <2>. QED  BY <2>2, <2>3
  <1>10. CASE RunGroup \/ JudgeCall \/ \E hook \in Hooks : Report(hook)
    BY <1>1, <1>10 DEF RunGroup, JudgeCall, Report, ghost
  <1>11. CASE EndStep
    <2>1. /\ pc = "judging" /\ ran' = ran
          /\ \/ spin' = spin
             \/ \E failures : spin' = [spin EXCEPT !.failures = failures]
      BY <1>11 DEF EndStep, ghost
    <2>2. DOMAIN spin' = DOMAIN spin /\ spin'.recent = spin.recent /\ spin'.bounced = spin.bounced
      BY <2>1 DEF SpinInv, SpinShape
    <2>. QED  BY <1>1, <2>1, <2>2
  <1>12. CASE WrapUp
    BY <1>1, <1>12 DEF WrapUp, ghost
  <1>. QED
    BY <1>2, <1>3, <1>4, <1>5, <1>6, <1>7, <1>8, <1>9, <1>10, <1>11, <1>12
    DEF Next, Loop, TopOfLoop, Completion, Execution, ModelAnswers

\* Whatever the provider faults, the replays and the bounces in between, no more batches
\* drawn from two run without steering than two windows, less the last step of each, hold
\* (the anti-spin guards of engine.ts).
THEOREM RepetitionIsStopped == Spec => []SpinBounded
  <1>1. Init => SpinInv
    <2>. SUFFICES ASSUME Init PROVE SpinInv
      OBVIOUS
    <2>1. SpinShape /\ ran = <<>> /\ spin.recent = <<>> /\ spin.bounced \in BOOLEAN
      BY DEF Init, FreshSpin, SpinShape
    <2>2. PICK r \in Seq(Batches) : r = ran /\ Len(r) = 0
      <3>1. <<>> \in Seq(Batches) /\ Len(<<>>) = 0
        OBVIOUS
      <3>. QED  BY <2>1, <3>1
    <2>3. Remembered(r, <<>>, spin.bounced)
      BY <2>1, <2>2, NothingRemembered
    <2>4. SpinBounded
      BY <2>2, TurnConfig DEF SpinBounded
    <2>. QED  BY <2>1, <2>2, <2>3, <2>4 DEF SpinInv
  <1>2. TurnInv /\ SpinInv /\ [Next]_vars => SpinInv'
    BY SpinInductive DEF TurnInv
  <1>3. SpinInv => SpinBounded
    BY DEF SpinInv
  <1>. QED  BY <1>1, <1>2, <1>3, TurnInvHolds, PTL DEF Spec

---------------------------------------------------------------------------
(* The file calls of a batch (FileEdits)                                   *)

LineSeq == Seq(Int)
FileCallSet == {CallOf(form, p) : form \in Forms, p \in Path}

\* What the assumption on the forms says of the calls made from them.
LEMMA CallsAreFormed ==
  ASSUME NEW call \in FileCallSet
  PROVE  /\ call.path \in Path /\ call.tool \in Tools
         /\ call.first \in Nat /\ call.last \in Nat /\ call.first <= call.last
         /\ call.marks \subseteq {"first", "last"}
         /\ call.size \in Nat \ {0}
         /\ call.tool \in {"search", "append"} => call.marks = {}
         /\ call.tool = "replace" => call.first > 0
         /\ call.tool = "insert" => call.last = call.first /\ call.marks \subseteq {"first"}
         /\ call.marks # {} => call.first > 0 /\ call.last <= Len(View)
<1>1. PICK form \in Forms, p \in Path : call = CallOf(form, p)
  BY DEF FileCallSet
<1>2. form \in [tool : Tools, first : Nat, last : Nat, marks : SUBSET {"first", "last"}, size : Nat \ {0}]
  BY FormsAssumption
<1>. QED  BY <1>1, <1>2, FormsAssumption DEF CallOf

\* locateAnchor() finds the only place near a line, or stays where it is.
LEMMA OnePlace ==
  ASSUME NEW content \in LineSeq, NEW line, NEW i \in Nat
  PROVE  /\ Located(content, line, i) = i \/ Located(content, line, i) \in Near(content, line, i)
         /\ \A k : Near(content, line, i) = {k} => Located(content, line, i) = k
<1>1. IsFiniteSet({}) /\ Cardinality({}) = 0
  BY FS_EmptySet
<1>2. \A k : Cardinality({k}) = 1
  BY FS_Singleton
<1>3. ASSUME Cardinality(Near(content, line, i)) = 1
      PROVE  (CHOOSE k \in Near(content, line, i) : TRUE) \in Near(content, line, i)
  BY <1>1, <1>3
<1>4. ASSUME NEW k, Near(content, line, i) = {k}
      PROVE  Located(content, line, i) = k
  BY <1>2, <1>4 DEF Located
<1>. QED  BY <1>3, <1>4 DEF Located

LEMMA RangeMoves ==
  ASSUME NEW call \in FileCallSet, NEW content \in LineSeq
  PROVE  /\ Shift(call, content) \in Int
         /\ call.marks = {} => Shift(call, content) = 0
<1>1. /\ call.first \in Nat /\ call.last \in Nat
  BY CallsAreFormed
<1>2. \A line : \A i \in Nat : Located(content, line, i) \in Int
  BY OnePlace DEF Near, LineSeq
<1>. HIDE DEF Located
<1>3. call.marks = {} => WrongMarks(call, content, call.first, call.last) = {}
  BY DEF WrongMarks
<1>. QED  BY <1>1, <1>2, <1>3 DEF Shift

LEMMA RightMarks ==
  ASSUME NEW call \in FileCallSet, NEW content \in LineSeq, NEW s \in Int, NEW e \in Int, e <= Len(content),
         s >= 1, s <= e
  PROVE  WrongMarks(call, content, s, e) = {} <=>
           /\ "first" \in call.marks => content[s] = View[call.first]
           /\ "last" \in call.marks => content[e] = View[call.last]
<1>1. call.marks \subseteq {"first", "last"}
  BY CallsAreFormed
<1>2. s \in DOMAIN content /\ e \in DOMAIN content
  BY DEF LineSeq
<1>3. LineAt(content, s) = content[s] /\ LineAt(content, e) = content[e]
  BY <1>2 DEF LineAt
<1>. QED  BY <1>1, <1>3 DEF WrongMarks

\* A range that is replaced is as long as the call says, and carries its anchors.
LEMMA TargetFits ==
  ASSUME NEW call \in FileCallSet, call.tool = "replace", NEW content \in LineSeq,
         NEW t, t = Target(call, content),
         t[2] <= Len(content), WrongMarks(call, content, t[1], t[2]) = {}
  PROVE  t[1] \in DOMAIN content /\ t[2] = t[1] + call.last - call.first /\ Fits(call, content, t[1])
<1>. DEFINE d == Shift(call, content)
<1>1. /\ call.first \in Nat /\ call.last \in Nat /\ call.first <= call.last /\ call.first > 0
  BY CallsAreFormed
<1>2. d \in Int /\ (call.marks = {} => d = 0)
  BY RangeMoves
<1>3. \/ t = <<call.first + d, call.last + d>> /\ call.first + d >= 1
      \/ t = <<call.first, call.last>>
  BY DEF Target
<1>. HIDE DEF d
<1>4. /\ t[1] \in Int /\ t[2] \in Int /\ t[1] >= 1 /\ t[1] <= t[2] /\ t[2] = t[1] + call.last - call.first
      /\ call.marks = {} => t[1] = call.first
  BY <1>1, <1>2, <1>3
<1>5. /\ "first" \in call.marks => content[t[1]] = View[call.first]
      /\ "last" \in call.marks => content[t[2]] = View[call.last]
  BY <1>4, RightMarks
<1>6. t[1] \in DOMAIN content
  BY <1>4 DEF LineSeq
<1>. QED  BY <1>4, <1>5, <1>6 DEF Fits
\* The range whose place an anchor tells is the one that is replaced.
LEMMA PlaceTold ==
  ASSUME NEW call \in FileCallSet, call.tool = "replace", NEW content \in LineSeq, call.last <= Len(content),
         NEW s \in DOMAIN content, ToldPlace(call, content, s)
  PROVE  LET t == Target(call, content) IN t[2] <= Len(content) /\ WrongMarks(call, content, t[1], t[2]) = {}
<1>. DEFINE firsts == Near(content, View[call.first], call.first)
            lasts == Near(content, View[call.last], call.last)
            e == s + call.last - call.first
<1>1. /\ call.first \in Nat /\ call.last \in Nat /\ call.first <= call.last /\ call.first > 0
      /\ call.marks \subseteq {"first", "last"}
  BY CallsAreFormed
<1>2. Fits(call, content, s) /\ s \in Int /\ s >= 1 /\ s <= e /\ e <= Len(content) /\ e \in Int
  BY <1>1 DEF ToldPlace, Fits, LineSeq
<1>3. WrongMarks(call, content, s, e) = {}
  BY <1>2, RightMarks DEF Fits
<1>4. CASE WrongMarks(call, content, call.first, call.last) = {}
  <2>1. Shift(call, content) = 0
    BY <1>4 DEF Shift
  <2>2. Target(call, content) = <<call.first, call.last>>
    BY <2>1, <1>1 DEF Target
  <2>. QED  BY <2>2, <1>4
<1>5. CASE WrongMarks(call, content, call.first, call.last) # {}
  <2>1. WrongMarks(call, content, call.first, call.last) \subseteq call.marks
    BY DEF WrongMarks
  <2>2. call.first \in DOMAIN content /\ call.last \in DOMAIN content
    BY <1>1 DEF LineSeq
  <2>3. "first" \in WrongMarks(call, content, call.first, call.last)
           <=> "first" \in call.marks /\ content[call.first] # View[call.first]
    BY <2>2 DEF WrongMarks, LineAt
  <2>4. "last" \in WrongMarks(call, content, call.first, call.last)
           <=> "last" \in call.marks /\ content[call.last] # View[call.last]
    BY <2>2 DEF WrongMarks, LineAt
  <2>5. call.first \in Nat /\ call.last \in Nat
    BY <1>1
  <2>6. firsts = {s} => Located(content, View[call.first], call.first) = s
    BY <2>5, OnePlace
  <2>7. lasts = {e} => Located(content, View[call.last], call.last) = e
    BY <2>5, OnePlace
  <2>8. s \in firsts => Located(content, View[call.first], call.first) \in {call.first, s} \/ firsts # {s}
    BY <2>6
  <2>9. Shift(call, content) = s - call.first
    <3>1. CASE "first" \in call.marks /\ firsts = {s}
      <4>1. "first" \in WrongMarks(call, content, call.first, call.last)
        <5>1. SUFFICES ASSUME content[call.first] = View[call.first]  PROVE  FALSE
          BY <2>3, <3>1
        <5>2. call.first \in firsts
          BY <5>1, <2>2, <2>5 DEF Near, RemapWindow
        <5>3. s = call.first /\ e = call.last
          BY <5>2, <3>1, <1>1
        <5>4. "last" \in call.marks => content[call.last] = View[call.last]
          BY <5>3, <1>2 DEF Fits
        <5>. QED  BY <5>1, <5>4, <2>1, <2>3, <2>4, <1>1, <1>5
      <4>2. s # call.first
        BY <4>1, <2>3, <1>2 DEF Fits
      <4>. QED  BY <4>1, <4>2, <2>6, <3>1, <1>1, <1>2 DEF Shift
    <3>2. CASE "last" \in call.marks /\ lasts = {e} /\ ("first" \in call.marks => s \in firsts)
      <4>1. "last" \in WrongMarks(call, content, call.first, call.last)
        <5>1. SUFFICES ASSUME content[call.last] = View[call.last]  PROVE  FALSE
          BY <2>4, <3>2
        <5>2. call.last \in lasts
          BY <5>1, <2>2, <2>5 DEF Near, RemapWindow
        <5>3. s = call.first /\ e = call.last
          BY <5>2, <3>2, <1>1, <1>2
        <5>4. "first" \in call.marks => content[call.first] = View[call.first]
          BY <5>3, <1>2 DEF Fits
        <5>. QED  BY <5>1, <5>4, <2>1, <2>3, <2>4, <1>1, <1>5
      <4>2. Located(content, View[call.last], call.last) - call.last = s - call.first
        BY <2>7, <3>2, <1>1, <1>2
      <4>3. ASSUME "first" \in WrongMarks(call, content, call.first, call.last),
                   Located(content, View[call.first], call.first) # call.first
            PROVE  Located(content, View[call.first], call.first) = s
        <5>1. Cardinality(firsts) = 1
          BY <4>3 DEF Located
        <5>2. PICK k : firsts = {k}
          <6>1. IsFiniteSet(firsts)
            <7>1. firsts \subseteq 1 .. Len(content) /\ Len(content) \in Nat
              BY DEF Near, LineSeq
            <7>2. PICK n \in Nat : n = Len(content)
              BY <7>1
            <7>3. IsFiniteSet(1 .. n)
              BY <7>2, FS_Interval
            <7>. HIDE DEF firsts
            <7>. QED  BY <7>1, <7>2, <7>3, FS_Subset
          <6>. QED  BY <6>1, <5>1, FS_Singleton
        <5>3. k = s
          BY <5>2, <3>2, <4>3, <2>3
        <5>. QED  BY <5>2, <5>3, <2>6
      <4>4. \/ Located(content, View[call.first], call.first) - call.first = 0
            \/ Located(content, View[call.first], call.first) # call.first
        BY <1>1
      <4>5. Located(content, View[call.first], call.first) \in Int
        BY <2>5, OnePlace DEF Near, LineSeq
      <4>. HIDE DEF Located
      <4>. QED  BY <4>1, <4>2, <4>3, <4>4, <4>5, <1>1, <1>2 DEF Shift
    <3>. QED  BY <3>1, <3>2 DEF ToldPlace
  <2>10. call.first + Shift(call, content) = s /\ call.last + Shift(call, content) = e
    BY <2>9, <1>1, <1>2
  <2>11. Target(call, content) = <<s, e>>
    BY <2>10, <1>2, <1>3 DEF Target
  <2>. QED  BY <2>11, <1>2, <1>3
<1>. QED  BY <1>4, <1>5

LEMMA SplicedLines ==
  ASSUME NEW content \in LineSeq, NEW new \in LineSeq, NEW s \in Int, NEW e \in Int,
         s >= 1, s - 1 <= e, e <= Len(content)
  PROVE  Spliced(content, s, e, new) \in LineSeq
<1>1. SubSeq(content, 1, s - 1) \in LineSeq
  BY DEF LineSeq
<1>2. SubSeq(content, e + 1, Len(content)) \in LineSeq
  BY DEF LineSeq
<1>. QED  BY <1>1, <1>2 DEF Spliced, LineSeq

\* What an edit writes is what it means.
LEMMA EditedLines ==
  ASSUME NEW call \in FileCallSet, call.tool \notin {"read", "write", "delete"},
         NEW content \in LineSeq, NEW new \in LineSeq, NEW result \in EditOf(call, new, content)
  PROVE  result \in Meant(call, new, content) /\ result \in LineSeq
<1>. DEFINE first == call.first  len == Len(content)
<1>1. /\ call.first \in Nat /\ call.last \in Nat /\ call.first <= call.last
      /\ call.tool = "insert" => call.last = call.first /\ call.marks \subseteq {"first"}
      /\ call.marks # {} => call.first > 0
      /\ Len(content) \in Nat /\ DOMAIN content = 1 .. Len(content)
  BY CallsAreFormed DEF LineSeq
<1>2. CASE call.tool = "replace"
  <2>1. PICK t : t = Target(call, content)
    OBVIOUS
  <2>2. /\ t[2] <= Len(content) /\ WrongMarks(call, content, t[1], t[2]) = {}
        /\ result = Spliced(content, t[1], t[2], new)
    BY <1>2, <2>1 DEF EditOf, Replaced
  <2>3. t[1] \in DOMAIN content /\ t[2] = t[1] + call.last - call.first /\ Fits(call, content, t[1])
    BY <1>2, <2>1, <2>2, TargetFits
  <2>4. result \in Meant(call, new, content)
    BY <1>2, <2>2, <2>3 DEF Meant
  <2>5. t[1] \in Int /\ t[2] \in Int /\ t[1] >= 1 /\ t[1] - 1 <= t[2]
    BY <2>3, <1>1
  <2>. QED  BY <2>2, <2>4, <2>5, SplicedLines
<1>3. CASE call.tool = "insert"
  <2>1. PICK after : after = IF WrongMarks(call, content, call.first, call.first) # {}
                     THEN Located(content, View[call.first], call.first) ELSE call.first
    OBVIOUS
  <2>2. /\ call.first <= Len(content) /\ WrongMarks(call, content, after, after) = {}
        /\ result = Spliced(content, after + 1, after, new)
    BY <1>3, <2>1 DEF EditOf, Inserted
  <2>3. after = call.first \/ after \in DOMAIN content
    <3>1. \/ Located(content, View[call.first], call.first) = call.first
          \/ Located(content, View[call.first], call.first) \in DOMAIN content
      BY <1>1, OnePlace DEF Near
    <3>. QED  BY <3>1, <2>1
  <2>4. after \in Nat /\ after <= Len(content)
    BY <2>2, <2>3, <1>1
  <2>5. CASE after = 0
    <3>1. call.first = 0
      BY <2>3, <2>5, <1>1
    <3>2. after \in {s \in DOMAIN content : Fits(call, content, s)} \cup IF call.first = 0 THEN {0} ELSE {}
      BY <3>1, <2>5
    <3>3. Spliced(content, after + 1, after, new) \in LineSeq
      BY <2>4, SplicedLines
    <3>. QED  BY <3>2, <3>3, <1>3, <2>2 DEF Meant
  <2>6. CASE after # 0
    <3>1. after \in DOMAIN content /\ after >= 1
      BY <2>4, <2>6, <1>1
    <3>2. "first" \in call.marks => content[after] = View[call.first]
      BY <3>1, <2>2 DEF WrongMarks, LineAt
    <3>3. call.marks = {} => after = call.first
      BY <2>1 DEF WrongMarks
    <3>4. Fits(call, content, after)
      BY <3>1, <3>2, <3>3, <2>4, <1>1, <1>3 DEF Fits
    <3>5. after \in {s \in DOMAIN content : Fits(call, content, s)} \cup IF call.first = 0 THEN {0} ELSE {}
      BY <3>1, <3>4
    <3>6. Spliced(content, after + 1, after, new) \in LineSeq
      BY <2>4, SplicedLines
    <3>. QED  BY <3>5, <3>6, <1>3, <2>2 DEF Meant
  <2>. QED  BY <2>5, <2>6
<1>4. CASE call.tool = "search"
  <2>1. result \in Searched(call, new, content)
    BY <1>4 DEF EditOf
  <2>2. PICK k \in DOMAIN content : result = Spliced(content, k, k, new)
    BY <2>1 DEF Searched
  <2>. QED  BY <2>1, <2>2, <1>1, <1>4, SplicedLines DEF Meant
<1>5. CASE call.tool \notin {"replace", "insert", "search"}
  <2>1. result = PutAtEnd(content, new) /\ result \in Meant(call, new, content)
    BY <1>5 DEF EditOf, Meant
  <2>2. SubSeq(content, 1, Len(content) - 1) \in LineSeq
    BY DEF LineSeq
  <2>. QED  BY <2>1, <2>2 DEF PutAtEnd, LineSeq
<1>. QED  BY <1>2, <1>3, <1>4, <1>5

\* An edit with anchors is rejected only if they do not tell its place.
LEMMA RejectedForCause ==
  ASSUME NEW call \in FileCallSet, call.tool \notin {"read", "write", "delete"},
         NEW content \in LineSeq, NEW new, EditOf(call, new, content) = {}
  PROVE  \/ call.marks = {} \/ call.last > Len(content)
         \/ \A s \in DOMAIN content : ~ToldPlace(call, content, s)
<1>. SUFFICES ASSUME call.marks # {}, call.last <= Len(content),
                     NEW s \in DOMAIN content, ToldPlace(call, content, s)
              PROVE  FALSE
  BY CallsAreFormed DEF LineSeq
<1>1. /\ call.first \in Nat /\ call.last \in Nat /\ call.first <= call.last /\ call.first > 0
      /\ call.tool \in Tools
      /\ call.tool \notin {"search", "append"}
      /\ call.tool = "insert" => call.last = call.first /\ call.marks \subseteq {"first"}
  BY CallsAreFormed
<1>2. CASE call.tool = "replace"
  <2>1. LET t == Target(call, content) IN t[2] <= Len(content) /\ WrongMarks(call, content, t[1], t[2]) = {}
    BY <1>2, PlaceTold
  <2>2. Replaced(call, new, content) # {}
    BY <2>1 DEF Replaced
  <2>. QED  BY <2>2, <1>2 DEF EditOf
<1>3. CASE call.tool = "insert"
  <2>1. Near(content, View[call.first], call.first) = {s} /\ Fits(call, content, s) /\ call.marks = {"first"}
    BY <1>1, <1>3 DEF ToldPlace
  <2>2. Located(content, View[call.first], call.first) = s
    BY <2>1, <1>1, OnePlace
  <2>3. WrongMarks(call, content, s, s) = {}
    <3>1. s \in Int /\ s >= 1 /\ s <= Len(content)
      BY DEF LineSeq
    <3>. QED  BY <2>1, <3>1, RightMarks DEF Fits
  <2>4. Inserted(call, new, content) # {}
    BY <2>2, <2>3, <1>1, <1>3 DEF Inserted
  <2>. QED  BY <2>4, <1>3 DEF EditOf
<1>. QED  BY <1>1, <1>2, <1>3 DEF Tools
---------------------------------------------------------------------------
(* The invariant                                                           *)

EditTypes ==
  /\ anycase \in BOOLEAN /\ fileCalls \in Seq(FileCallSet)
  /\ group \in Seq(Nat) /\ Len(group) = Len(fileCalls)
  /\ stage \in Seq({"todo", "loaded", "done"}) /\ Len(stage) = Len(fileCalls)
  /\ linesOf \in Seq(LineSeq) /\ Len(linesOf) = Len(fileCalls)
  /\ reported \in Seq({"none", "ok", "no", "refused"}) /\ Len(reported) = Len(fileCalls)
  /\ workspace \in [Files -> LineSeq] /\ before \in [Files -> LineSeq]

\* The calls of a group are of one kind.
GroupsAlike ==
  \A j \in DOMAIN fileCalls :
    /\ group[j] \in 1 .. j
    /\ \A m \in group[j] .. j : GroupKind(fileCalls[m]) = GroupKind(fileCalls[group[j]])
\* Two calls that name one file, one of them to change it, are in groups of their own.
Conflict(i, j) == FileAt(i) = FileAt(j) /\ ~(fileCalls[i].tool = "read" /\ fileCalls[j].tool = "read")
ConflictsApart ==
  \A j \in DOMAIN fileCalls : \A i \in 1 .. j - 1 : Conflict(i, j) => group[j] > i
\* A call has begun only if those of the groups before its own are over.
GroupsInOrder ==
  \A j \in DOMAIN fileCalls : stage[j] # "todo" => \A i \in 1 .. group[j] - 1 : stage[i] = "done"
ReportsOnce == \A i \in DOMAIN fileCalls : reported[i] = "none" <=> stage[i] # "done"
\* What an edit loaded is still in its file.
LoadedIsCurrent ==
  \A i \in DOMAIN fileCalls : stage[i] = "loaded" =>
    /\ linesOf[i] = workspace[FileAt(i)] /\ linesOf[i] # Absent
    /\ fileCalls[i].tool \notin {"read", "write", "delete"}

EditInv ==
  /\ EditTypes /\ GroupsAlike /\ ConflictsApart /\ GroupsInOrder /\ ReportsOnce /\ LoadedIsCurrent
  /\ BatchAsInOrder

\* Some numbers below a bound have a largest one.
LEMMA LatestOf ==
  ASSUME NEW n \in Nat, NEW S, S \subseteq 1 .. n, S # {}
  PROVE  /\ Max(S) \in S
         /\ \A m \in S : (\A k \in S : k <= m) => Max(S) = m
<1>. DEFINE T == {n - x : x \in S}
<1>1. T \in SUBSET Nat /\ T # {}
  <2>1. \A x \in S : n - x \in Nat
    OBVIOUS
  <2>. QED  BY <2>1
<1>2. PICK u \in T : \A v \in T : u <= v
  BY <1>1, LeastPlace
<1>3. PICK m \in S : u = n - m
  BY <1>2
<1>4. \A k \in S : n - m <= n - k
  BY <1>2, <1>3
<1>5. \A k \in S : m >= k
  BY <1>4
<1>6. Max(S) \in S /\ \A k \in S : Max(S) >= k
  BY <1>5 DEF Max
<1>7. \A m2, k2 \in S : m2 >= k2 /\ k2 >= m2 => m2 = k2
  OBVIOUS
<1>. QED  BY <1>6, <1>7

\* Calls that reach one file have one key: FileKey is no finer than FileOf.
LEMMA FilesOfCalls ==
  ASSUME EditTypes
  PROVE  /\ \A i \in DOMAIN fileCalls : fileCalls[i] \in FileCallSet /\ FileAt(i) \in Files
         /\ \A i, j \in DOMAIN fileCalls :
              FileAt(i) = FileAt(j) => FileKey(fileCalls[i].path) = FileKey(fileCalls[j].path)
<1>1. \A i \in DOMAIN fileCalls : fileCalls[i] \in FileCallSet
  BY DEF EditTypes
<1>2. \A i \in DOMAIN fileCalls : fileCalls[i].path \in Path
  BY <1>1, CallsAreFormed
<1>. QED  BY <1>1, <1>2 DEF EditTypes, FileAt, FileOf, Files, FileKey

\* Call i acts: all that comes before its group is over.
InTurnNow(i) == stage[i] # "done" /\ \A j \in 1 .. group[i] - 1 : stage[j] = "done"

\* The calls it conflicts with are over or have not begun, so it finds the file as the
\* calls before it leave it.
LEMMA InItsTurn ==
  ASSUME EditInv, NEW i \in DOMAIN fileCalls, InTurnNow(i)
  PROVE  /\ \A j \in DOMAIN fileCalls : j > i /\ Conflict(i, j) => stage[j] = "todo"
         /\ \A j \in DOMAIN fileCalls : j < i /\ Conflict(i, j) => stage[j] = "done"
         /\ Writers(Len(fileCalls) + 1, FileAt(i)) = Writers(i, FileAt(i))
         /\ workspace[FileAt(i)] = InTurn(i, FileAt(i))
<1>1. /\ DOMAIN fileCalls = 1 .. Len(fileCalls) /\ Len(fileCalls) \in Nat
      /\ i \in Nat /\ 1 <= i /\ i <= Len(fileCalls)
      /\ \A j \in DOMAIN fileCalls : group[j] \in Nat /\ stage[j] \in {"todo", "loaded", "done"}
  BY DEF EditInv, EditTypes
<1>2. ASSUME NEW j \in DOMAIN fileCalls, j > i, Conflict(i, j), stage[j] # "todo"
      PROVE  FALSE
  <2>1. group[j] > i
    BY <1>1, <1>2 DEF EditInv, ConflictsApart
  <2>2. i \in 1 .. group[j] - 1
    BY <1>1, <2>1
  <2>3. stage[i] = "done"
    BY <1>2, <2>2 DEF EditInv, GroupsInOrder
  <2>. QED  BY <2>3 DEF InTurnNow
<1>3. ASSUME NEW j \in DOMAIN fileCalls, j < i, Conflict(i, j)
      PROVE  stage[j] = "done"
  <2>1. Conflict(j, i) /\ j \in 1 .. i - 1
    BY <1>1, <1>3 DEF Conflict
  <2>2. group[i] > j
    BY <2>1, <1>1 DEF EditInv, ConflictsApart
  <2>. QED  BY <2>2, <1>1 DEF InTurnNow
<1>4. \A j \in DOMAIN fileCalls : reported[j] = "ok" => stage[j] = "done"
  BY DEF EditInv, ReportsOnce
<1>5. reported[i] = "none"
  BY DEF EditInv, ReportsOnce, InTurnNow
<1>6. Writers(Len(fileCalls) + 1, FileAt(i)) = Writers(i, FileAt(i))
  <2>1. ASSUME NEW j \in Writers(Len(fileCalls) + 1, FileAt(i))  PROVE  j < i
    <3>1. j \in DOMAIN fileCalls /\ reported[j] = "ok" /\ Conflict(i, j)
      BY <1>1 DEF Writers, Conflict
    <3>. QED  BY <3>1, <1>1, <1>2, <1>4, <1>5
  <2>. QED  BY <2>1, <1>1 DEF Writers
<1>7. FileAt(i) \in Files
  BY FilesOfCalls DEF EditInv
<1>8. workspace[FileAt(i)] = InTurn(Len(fileCalls) + 1, FileAt(i))
  BY <1>7 DEF EditInv, BatchAsInOrder
<1>9. workspace[FileAt(i)] = InTurn(i, FileAt(i))
  BY <1>6, <1>8 DEF InTurn
<1>. QED  BY <1>2, <1>3, <1>6, <1>9, <1>1
\* A step of call i that loads, fails or leaves its lines keeps the invariant.
LEMMA CallStep ==
  ASSUME EditInv, EditTypes', NEW i \in DOMAIN fileCalls, InTurnNow(i),
         UNCHANGED <<anycase, fileCalls, group, before>>,
         stage'[i] \in {"loaded", "done"}, reported'[i] = "none" <=> stage'[i] # "done",
         \A j \in DOMAIN fileCalls :
           j # i => stage'[j] = stage[j] /\ reported'[j] = reported[j] /\ linesOf'[j] = linesOf[j],
         stage'[i] = "loaded" =>
           /\ linesOf'[i] = workspace[FileAt(i)] /\ linesOf'[i] # Absent
           /\ fileCalls[i].tool \notin {"read", "write", "delete"},
         \/ workspace' = workspace /\ (reported'[i] # "ok" \/ fileCalls[i].tool = "read")
         \/ /\ reported'[i] = "ok" /\ fileCalls[i].tool # "read"
            /\ workspace' = [workspace EXCEPT ![FileAt(i)] = linesOf'[i]],
         MayReport(fileCalls[i], NewLines(i), workspace[FileAt(i)], reported'[i], linesOf'[i])
  PROVE  EditInv'
<1>. DEFINE n == Len(fileCalls)
            put == reported'[i] = "ok" /\ fileCalls[i].tool # "read"
<1>1. /\ DOMAIN fileCalls = 1 .. n /\ n \in Nat /\ i \in Nat /\ 1 <= i /\ i <= n
      /\ \A j \in DOMAIN fileCalls : group[j] \in Nat /\ stage[j] \in {"todo", "loaded", "done"}
  BY DEF EditInv, EditTypes
<1>2. /\ \A j \in DOMAIN fileCalls : FileAt(j)' = FileAt(j) /\ FileAt(j) \in Files /\ NewLines(j)' = NewLines(j)
      /\ n' = n /\ workspace \in [Files -> LineSeq]
  <2>1. \A j \in DOMAIN fileCalls : FileAt(j) \in Files
    BY FilesOfCalls DEF EditInv
  <2>. QED  BY <2>1 DEF FileAt, FileOf, NewLines, EditInv, EditTypes
<1>3. /\ \A j \in DOMAIN fileCalls : j > i /\ Conflict(i, j) => stage[j] = "todo"
      /\ Writers(n + 1, FileAt(i)) = Writers(i, FileAt(i))
      /\ workspace[FileAt(i)] = InTurn(i, FileAt(i))
  BY InItsTurn
<1>4. reported[i] = "none" /\ \A j \in DOMAIN fileCalls : reported[j] = "none" <=> stage[j] # "done"
  BY DEF EditInv, ReportsOnce, InTurnNow
<1>5. GroupsAlike'
  <2>1. GroupsAlike
    BY DEF EditInv
  <2>. QED  BY <2>1 DEF GroupsAlike
<1>6. ConflictsApart'
  <2>1. ConflictsApart
    BY DEF EditInv
  <2>2. \A j, k \in DOMAIN fileCalls : Conflict(k, j)' <=> Conflict(k, j)
    BY <1>2 DEF Conflict
  <2>3. \A j \in DOMAIN fileCalls : \A k \in 1 .. j - 1 : k \in DOMAIN fileCalls
    BY <1>1
  <2>. QED  BY <2>1, <2>2, <2>3 DEF ConflictsApart
<1>7. GroupsInOrder'
  <2>1. GroupsInOrder
    BY DEF EditInv
  <2>2. \A j \in DOMAIN fileCalls : \A k \in 1 .. group[j] - 1 : k \in DOMAIN fileCalls
    <3>1. GroupsAlike
      BY DEF EditInv
    <3>. QED  BY <3>1, <1>1 DEF GroupsAlike
  <2>3. \A k \in DOMAIN fileCalls : stage[k] = "done" => stage'[k] = "done"
    BY DEF InTurnNow
  <2>. QED  BY <2>1, <2>2, <2>3 DEF GroupsInOrder, InTurnNow
<1>8. ReportsOnce'
  BY <1>4 DEF ReportsOnce
<1>9. LoadedIsCurrent'
  <2>1. SUFFICES ASSUME NEW j \in DOMAIN fileCalls, stage'[j] = "loaded"
                 PROVE  /\ linesOf'[j] = workspace'[FileAt(j)] /\ linesOf'[j] # Absent
                        /\ fileCalls[j].tool \notin {"read", "write", "delete"}
    BY <1>2 DEF LoadedIsCurrent
  <2>2. CASE j = i
    BY <2>1, <2>2
  <2>3. CASE j # i
    <3>1. /\ linesOf'[j] = workspace[FileAt(j)] /\ linesOf'[j] # Absent
          /\ fileCalls[j].tool \notin {"read", "write", "delete"} /\ stage[j] = "loaded"
      BY <2>1, <2>3 DEF EditInv, LoadedIsCurrent
    <3>2. ~Conflict(i, j)
      <4>1. j > i \/ j < i
        BY <2>3, <1>1
      <4>. QED  BY <3>1, <4>1, <1>3, InItsTurn
    <3>3. workspace'[FileAt(j)] = workspace[FileAt(j)]
      BY <3>1, <3>2, <1>2 DEF Conflict
    <3>. QED  BY <3>1, <3>3
  <2>. QED  BY <2>2, <2>3
<1>10. \A k \in 1 .. n + 1, f \in Files : Writers(k, f) \subseteq 1 .. n /\ i \notin Writers(k, f)
  BY <1>1, <1>4 DEF Writers
<1>11. \A k \in 1 .. n + 1, f \in Files :
         Writers(k, f)' = IF put /\ f = FileAt(i) /\ k > i THEN Writers(k, f) \cup {i} ELSE Writers(k, f)
  <2>1. SUFFICES ASSUME NEW k \in 1 .. n + 1, NEW f \in Files, NEW j \in 1 .. k - 1
                 PROVE  (/\ reported'[j] = "ok" /\ fileCalls[j].tool # "read" /\ FileAt(j) = f)
                        <=> (\/ put /\ f = FileAt(i) /\ k > i /\ j = i
                             \/ reported[j] = "ok" /\ fileCalls[j].tool # "read" /\ FileAt(j) = f)
    <3>1. \A k \in 1 .. n + 1 : \A j : j \in 1 .. k - 1 => j \in DOMAIN fileCalls
      BY <1>1
    <3>. QED  BY <2>1, <3>1, <1>1, <1>2 DEF Writers
  <2>2. j \in DOMAIN fileCalls
    BY <1>1
  <2>. QED  BY <2>2, <1>1, <1>4
<1>12. \A k \in 1 .. n + 1, f \in Files : ~(put /\ f = FileAt(i) /\ k > i) => InTurn(k, f)' = InTurn(k, f)
  <2>1. SUFFICES ASSUME NEW k \in 1 .. n + 1, NEW f \in Files, ~(put /\ f = FileAt(i) /\ k > i)
                 PROVE  InTurn(k, f)' = InTurn(k, f)
    OBVIOUS
  <2>2. Writers(k, f)' = Writers(k, f)
    BY <1>11, <2>1
  <2>3. PICK S : S = Writers(k, f)
    OBVIOUS
  <2>4. S \subseteq 1 .. n /\ i \notin S
    BY <1>10, <2>3
  <2>5. ASSUME S # {}  PROVE  linesOf'[Max(S)] = linesOf[Max(S)]
    <3>1. Max(S) \in S
      BY <2>4, <2>5, <1>1, LatestOf
    <3>2. Max(S) # i /\ Max(S) \in DOMAIN fileCalls
      BY <2>4, <3>1, <1>1
    <3>. QED  BY <3>2
  <2>. QED  BY <2>2, <2>3, <2>5 DEF InTurn
<1>13. PICK over \in 1 .. n + 1 : over = n + 1 /\ over > i
  BY <1>1
<1>14. put => InTurn(over, FileAt(i))' = linesOf'[i]
  <2>1. SUFFICES ASSUME put  PROVE  InTurn(over, FileAt(i))' = linesOf'[i]
    OBVIOUS
  <2>2. PICK S : S = Writers(i, FileAt(i)) \cup {i}
    OBVIOUS
  <2>3. Writers(over, FileAt(i))' = S
    <3>1. \A f \in Files : f = FileAt(i) => Writers(over, f)' = Writers(over, f) \cup {i}
      BY <1>1, <1>11, <1>13, <2>1
    <3>. QED  BY <3>1, <2>2, <1>2, <1>3, <1>13
  <2>4. S \subseteq 1 .. n /\ S # {} /\ i \in S /\ \A k \in S : k <= i
    BY <2>2, <1>1 DEF Writers
  <2>5. Max(S) = i
    BY <2>4, <1>1, LatestOf
  <2>. QED  BY <2>3, <2>4, <2>5 DEF InTurn
<1>15. BatchAsInOrder'
  <2>1. ASSUME NEW j \in DOMAIN fileCalls
        PROVE  MayReport(fileCalls[j], NewLines(j), InTurn(j, FileAt(j))', reported'[j], linesOf'[j])
    <3>1. MayReport(fileCalls[j], NewLines(j), InTurn(j, FileAt(j)), reported[j], linesOf[j])
      BY <2>1 DEF EditInv, BatchAsInOrder
    <3>2. CASE put /\ FileAt(j) = FileAt(i) /\ j > i
      <4>1. stage[j] = "todo"
        BY <3>2, <1>3 DEF Conflict
      <4>2. reported'[j] = "none"
        BY <4>1, <3>2, <1>4, <1>1
      <4>. QED  BY <4>2 DEF MayReport
    <3>3. CASE ~(put /\ FileAt(j) = FileAt(i) /\ j > i)
      <4>1. \A f \in Files : f = FileAt(j) => InTurn(j, f)' = InTurn(j, f)
        BY <3>3, <1>12, <1>1
      <4>2. InTurn(j, FileAt(j))' = InTurn(j, FileAt(j))
        BY <4>1, <1>2
      <4>3. CASE j = i
        BY <4>2, <4>3, <1>3
      <4>4. CASE j # i
        BY <4>2, <4>4, <3>1
      <4>. QED  BY <4>3, <4>4
    <3>. QED  BY <3>2, <3>3
  <2>2. ASSUME NEW f \in Files  PROVE  workspace'[f] = InTurn(over, f)'
    <3>1. workspace[f] = InTurn(over, f)
      BY <2>2, <1>13 DEF EditInv, BatchAsInOrder
    <3>2. CASE put /\ f = FileAt(i)
      BY <3>2, <1>2, <1>14
    <3>3. CASE ~(put /\ f = FileAt(i))
      <4>1. workspace'[f] = workspace[f]
        BY <3>3, <1>2
      <4>2. InTurn(over, f)' = InTurn(over, f)
        <5>. HIDE DEF put
        <5>. QED  BY <3>3, <1>12, <1>13
      <4>. QED  BY <4>1, <4>2, <3>1
    <3>. QED  BY <3>2, <3>3
  <2>3. (Len(fileCalls) + 1)' = over
    BY <1>13
  <2>. QED  BY <2>1, <2>2, <2>3, <1>2 DEF BatchAsInOrder
<1>. QED  BY <1>5, <1>6, <1>7, <1>8, <1>9, <1>15 DEF EditInv
LEMMA EntryReplaced ==
  ASSUME NEW S, NEW q \in Seq(S), NEW i \in DOMAIN q, NEW x \in S
  PROVE  LET r == [q EXCEPT ![i] = x] IN
         r \in Seq(S) /\ Len(r) = Len(q) /\ r[i] = x /\ \A j \in DOMAIN q : j # i => r[j] = q[j]
  OBVIOUS

LEMMA EntryAdded ==
  ASSUME NEW S, NEW q \in Seq(S), NEW x \in S
  PROVE  LET r == Append(q, x) IN
         /\ r \in Seq(S) /\ Len(r) = Len(q) + 1 /\ r[Len(q) + 1] = x
         /\ \A j \in 1 .. Len(q) : r[j] = q[j]
  OBVIOUS

LEMMA NewLinesTyped ==
  ASSUME EditTypes, NEW i \in DOMAIN fileCalls
  PROVE  NewLines(i) \in LineSeq
<1>1. fileCalls[i] \in FileCallSet /\ i \in Nat
  BY DEF EditTypes
<1>2. fileCalls[i].size \in Nat
  BY <1>1, CallsAreFormed
<1>. QED  BY <1>1, <1>2 DEF NewLines, LineSeq

LEMMA EditsStart ==
  ASSUME EditsInit
  PROVE  EditInv
<1>1. EditTypes
  <2>1. ASSUME NEW lines \in Origins  PROVE  lines \in LineSeq
    <3>1. lines \in Seq(Nat) \/ lines = Absent
      BY FormsAssumption
    <3>2. Absent \in LineSeq
      BY DEF LineSeq, Absent
    <3>. QED  BY <3>1, <3>2 DEF LineSeq
  <2>2. before \in [Files -> LineSeq]
    BY <2>1 DEF EditsInit
  <2>. QED  BY <2>2 DEF EditsInit, EditTypes
<1>2. DOMAIN fileCalls = {} /\ Len(fileCalls) = 0
  BY DEF EditsInit
<1>3. \A f : Writers(1, f) = {}
  BY DEF Writers
<1>4. BatchAsInOrder
  BY <1>2, <1>3 DEF BatchAsInOrder, InTurn, EditsInit
<1>. QED  BY <1>1, <1>2, <1>4 DEF EditInv, GroupsAlike, ConflictsApart, GroupsInOrder, ReportsOnce, LoadedIsCurrent

\* A call that is added to the batch joins no group with one it conflicts with.
LEMMA AskKeeps ==
  ASSUME EditInv, NEW form \in Forms, NEW p \in Path, AsksCall(form, p), NEW call, call = CallOf(form, p)
  PROVE  EditInv'
<1>. DEFINE n == Len(fileCalls)  own == IF Joins(call) THEN group[n] ELSE n + 1
<1>1. /\ call \in FileCallSet /\ fileCalls' = Append(fileCalls, call)
      /\ group' = Append(group, IF Joins(call) THEN group[Len(group)] ELSE Len(group) + 1)
      /\ stage' = Append(stage, "todo") /\ reported' = Append(reported, "none") /\ linesOf' = Append(linesOf, <<>>)
      /\ UNCHANGED <<anycase, workspace, before>> /\ \A i \in DOMAIN fileCalls : stage[i] = "todo"
  BY DEF FileCallSet, AsksCall
<1>2. /\ EditTypes /\ n \in Nat /\ DOMAIN fileCalls = 1 .. n /\ Len(group) = n
      /\ \A j \in 1 .. n : stage[j] = "todo" /\ reported[j] = "none" /\ group[j] \in Nat /\ group[j] \in 1 .. j
  <2>1. EditTypes /\ n \in Nat /\ DOMAIN fileCalls = 1 .. n /\ Len(group) = n /\ group \in Seq(Nat)
    BY DEF EditInv, EditTypes
  <2>2. \A j \in 1 .. n : stage[j] = "todo"
    BY <1>1, <2>1
  <2>3. \A j \in 1 .. n : reported[j] = "none"
    BY <2>1, <2>2 DEF EditInv, ReportsOnce
  <2>4. \A j \in 1 .. n : group[j] \in 1 .. j
    BY <2>1 DEF EditInv, GroupsAlike
  <2>. QED  BY <2>1, <2>2, <2>3, <2>4
<1>3. own \in 1 .. n + 1 /\ (Joins(call) => n > 0 /\ own = group[n])
  <2>1. Joins(call) => n > 0
    BY <1>2 DEF Joins, EditTypes
  <2>. QED  BY <2>1, <1>2
<1>4. group' = Append(group, own)
  BY <1>2, <1>1
<1>. HIDE DEF own
<1>5. EditTypes'
  <2>1. fileCalls' \in Seq(FileCallSet) /\ Len(fileCalls') = n + 1
    BY <1>1, <1>2, EntryAdded DEF EditTypes
  <2>2. group' \in Seq(Nat) /\ Len(group') = n + 1
    <3>1. own \in Nat /\ group \in Seq(Nat)
      BY <1>2, <1>3 DEF EditTypes
    <3>. QED  BY <3>1, <1>2, <1>4, EntryAdded
  <2>3. stage' \in Seq({"todo", "loaded", "done"}) /\ Len(stage') = n + 1
    BY <1>1, <1>2, EntryAdded DEF EditTypes
  <2>4. linesOf' \in Seq(LineSeq) /\ Len(linesOf') = n + 1
    <3>1. <<>> \in LineSeq
      BY DEF LineSeq
    <3>. QED  BY <3>1, <1>1, <1>2, EntryAdded DEF EditTypes
  <2>5. reported' \in Seq({"none", "ok", "no", "refused"}) /\ Len(reported') = n + 1
    BY <1>1, <1>2, EntryAdded DEF EditTypes
  <2>. QED  BY <2>1, <2>2, <2>3, <2>4, <2>5, <1>1, <1>2 DEF EditTypes
<1>6. DOMAIN fileCalls' = 1 .. n + 1 /\ Len(fileCalls') = n + 1
  BY <1>1, <1>2, EntryAdded DEF EditTypes
<1>7. /\ \A j \in 1 .. n : fileCalls'[j] = fileCalls[j] /\ group'[j] = group[j]
      /\ \A j \in 1 .. n + 1 : stage'[j] = "todo" /\ reported'[j] = "none"
      /\ fileCalls'[n + 1] = call /\ group'[n + 1] = own
  <2>1. \A j \in 1 .. n : fileCalls'[j] = fileCalls[j] /\ stage'[j] = stage[j] /\ reported'[j] = reported[j]
    BY <1>1, <1>2, EntryAdded DEF EditTypes
  <2>2. fileCalls'[n + 1] = call /\ stage'[n + 1] = "todo" /\ reported'[n + 1] = "none"
    BY <1>1, <1>2, EntryAdded DEF EditTypes
  <2>3. group'[n + 1] = own /\ \A j \in 1 .. n : group'[j] = group[j]
    BY <1>2, <1>3, <1>4, EntryAdded DEF EditTypes
  <2>. QED  BY <2>1, <2>2, <2>3, <1>2
<1>8. GroupsAlike'
  <2>1. SUFFICES ASSUME NEW j \in 1 .. n + 1
                 PROVE  /\ group'[j] \in 1 .. j
                        /\ \A m \in group'[j] .. j :
                             GroupKind(fileCalls'[m]) = GroupKind(fileCalls'[group'[j]])
    BY <1>6 DEF GroupsAlike
  <2>2. CASE j \in 1 .. n
    <3>1. /\ group[j] \in 1 .. j
          /\ \A m \in group[j] .. j : GroupKind(fileCalls[m]) = GroupKind(fileCalls[group[j]])
      BY <2>2, <1>2 DEF EditInv, GroupsAlike
    <3>. QED  BY <2>2, <3>1, <1>2, <1>7
  <2>3. CASE j = n + 1 /\ ~Joins(call)
    <3>1. own = n + 1
      BY <2>3 DEF own
    <3>. QED  BY <2>3, <3>1, <1>2, <1>7
  <2>4. CASE j = n + 1 /\ Joins(call)
    <3>1. n \in DOMAIN fileCalls /\ own = group[n] /\ own \in 1 .. n
      BY <2>4, <1>2, <1>3
    <3>2. \A m \in own .. n : GroupKind(fileCalls[m]) = GroupKind(fileCalls[own])
      BY <3>1 DEF EditInv, GroupsAlike
    <3>3. GroupKind(call) = GroupKind(fileCalls[own])
      BY <3>1, <2>4, <1>2 DEF Joins
    <3>4. \A m \in own .. n + 1 : m \in own .. n \/ m = n + 1
      BY <3>1, <1>2
    <3>. QED  BY <2>4, <3>1, <3>2, <3>3, <3>4, <1>2, <1>7
  <2>. QED  BY <2>2, <2>3, <2>4, <1>2
<1>9. ConflictsApart'
  <2>1. SUFFICES ASSUME NEW j \in 1 .. n + 1, NEW k \in 1 .. j - 1, Conflict(k, j)'
                 PROVE  group'[j] > k
    BY <1>6 DEF ConflictsApart
  <2>2. k \in 1 .. n
    BY <1>2
  <2>3. CASE j \in 1 .. n
    <3>1. Conflict(k, j)
      BY <2>1, <2>2, <2>3, <1>1, <1>7 DEF Conflict, FileAt, FileOf
    <3>. QED  BY <3>1, <2>3, <1>2, <1>7 DEF EditInv, ConflictsApart
  <2>4. CASE j = n + 1 /\ ~Joins(call)
    <3>1. own = n + 1
      BY <2>4 DEF own
    <3>. QED  BY <2>4, <3>1, <2>2, <1>2, <1>7
  <2>5. CASE j = n + 1 /\ Joins(call)
    <3>1. n \in DOMAIN fileCalls /\ own = group[n] /\ own \in 1 .. n
      BY <2>5, <1>2, <1>3
    <3>2. SUFFICES ASSUME own <= k  PROVE  FALSE
      BY <2>5, <3>1, <2>2, <1>2, <1>7
    <3>3. k \in own .. n
      BY <3>1, <3>2, <2>2
    <3>4. GroupKind(fileCalls[k]) = GroupKind(call)
      <4>1. GroupKind(fileCalls[k]) = GroupKind(fileCalls[own])
        BY <3>1, <3>3 DEF EditInv, GroupsAlike
      <4>2. GroupKind(call) = GroupKind(fileCalls[own])
        BY <3>1, <2>5, <1>2 DEF Joins
      <4>. QED  BY <4>1, <4>2
    <3>5. GroupKind(call) \in {"read", "write"}
      BY <2>5 DEF Joins, GroupKind
    <3>6. /\ FileOf(fileCalls[k].path) = FileOf(call.path)
          /\ ~(fileCalls[k].tool = "read" /\ call.tool = "read")
      BY <2>1, <2>2, <2>5, <1>1, <1>7 DEF Conflict, FileAt, FileOf
    <3>7. GroupKind(call) = "write"
      BY <3>4, <3>5, <3>6 DEF GroupKind
    <3>8. FileKey(fileCalls[k].path) # FileKey(call.path)
      BY <3>1, <3>3, <3>7, <2>5, <1>2 DEF Joins
    <3>9. call.path \in Path /\ fileCalls[k].path \in Path
      <4>1. fileCalls[k] \in FileCallSet /\ call \in FileCallSet
        BY <2>2, <1>2, <1>1 DEF EditTypes
      <4>. QED  BY <4>1, CallsAreFormed
    <3>. QED  BY <3>6, <3>8, <3>9 DEF FileOf, FileKey
  <2>. QED  BY <2>3, <2>4, <2>5, <1>2
<1>10. BatchAsInOrder'
  <2>1. PICK over : over = n + 2
    OBVIOUS
  <2>2. \A f \in Files : Writers(over, f)' = {}
    BY <1>2, <1>7, <2>1 DEF Writers
  <2>3. \A f \in Files : workspace[f] = before[f]
    <3>1. \A f \in Files : Writers(n + 1, f) = {} /\ workspace[f] = InTurn(n + 1, f)
      BY <1>2 DEF Writers, EditInv, BatchAsInOrder
    <3>. QED  BY <3>1 DEF InTurn
  <2>4. \A f \in Files : workspace'[f] = InTurn(over, f)'
    BY <2>2, <2>3, <1>1 DEF InTurn
  <2>5. \A j \in 1 .. n + 1 : \A new, file, lines : MayReport(fileCalls'[j], new, file, reported'[j], lines)
    BY <1>7 DEF MayReport
  <2>6. (Len(fileCalls) + 1)' = over
    BY <1>6, <2>1, <1>2
  <2>. QED  BY <2>4, <2>5, <2>6, <1>6 DEF BatchAsInOrder
<1>. QED  BY <1>5, <1>6, <1>7, <1>8, <1>9, <1>10 DEF EditInv, GroupsInOrder, ReportsOnce, LoadedIsCurrent

LEMMA OverKeeps ==
  ASSUME EditInv, NEW i \in DOMAIN fileCalls, InTurnNow(i), NEW outcome \in {"no", "refused"},
         FileCallOver(i, outcome), UNCHANGED <<anycase, workspace, fileCalls, group, linesOf, before>>,
         MayReport(fileCalls[i], NewLines(i), workspace[FileAt(i)], outcome, linesOf[i])
  PROVE  EditInv'
<1>1. EditTypes /\ i \in DOMAIN stage /\ i \in DOMAIN reported
      /\ DOMAIN stage = DOMAIN fileCalls /\ DOMAIN reported = DOMAIN fileCalls
  BY DEF EditInv, EditTypes
<1>2. /\ stage' \in Seq({"todo", "loaded", "done"}) /\ Len(stage') = Len(stage) /\ stage'[i] = "done"
      /\ \A j \in DOMAIN fileCalls : j # i => stage'[j] = stage[j]
  BY <1>1, EntryReplaced DEF FileCallOver, EditTypes
<1>3. /\ reported' \in Seq({"none", "ok", "no", "refused"}) /\ Len(reported') = Len(reported)
      /\ reported'[i] = outcome /\ \A j \in DOMAIN fileCalls : j # i => reported'[j] = reported[j]
  BY <1>1, EntryReplaced DEF FileCallOver, EditTypes
<1>4. EditTypes'
  BY <1>1, <1>2, <1>3 DEF EditTypes
<1>. QED  BY <1>2, <1>3, <1>4, CallStep

LEMMA OkKeeps ==
  ASSUME EditInv, NEW i \in DOMAIN fileCalls, InTurnNow(i), FileCallOver(i, "ok"),
         UNCHANGED <<anycase, fileCalls, group, before>>,
         NEW content \in LineSeq, linesOf' = [linesOf EXCEPT ![i] = content],
         \/ workspace' = workspace /\ fileCalls[i].tool = "read"
         \/ workspace' = [workspace EXCEPT ![FileAt(i)] = content] /\ fileCalls[i].tool # "read",
         MayReport(fileCalls[i], NewLines(i), workspace[FileAt(i)], "ok", content)
  PROVE  EditInv'
<1>1. EditTypes /\ i \in DOMAIN stage /\ i \in DOMAIN reported /\ i \in DOMAIN linesOf
      /\ DOMAIN stage = DOMAIN fileCalls /\ DOMAIN reported = DOMAIN fileCalls /\ DOMAIN linesOf = DOMAIN fileCalls
  BY DEF EditInv, EditTypes
<1>2. /\ stage' \in Seq({"todo", "loaded", "done"}) /\ Len(stage') = Len(stage) /\ stage'[i] = "done"
      /\ \A j \in DOMAIN fileCalls : j # i => stage'[j] = stage[j]
  BY <1>1, EntryReplaced DEF FileCallOver, EditTypes
<1>3. /\ reported' \in Seq({"none", "ok", "no", "refused"}) /\ Len(reported') = Len(reported)
      /\ reported'[i] = "ok" /\ \A j \in DOMAIN fileCalls : j # i => reported'[j] = reported[j]
  BY <1>1, EntryReplaced DEF FileCallOver, EditTypes
<1>4. /\ linesOf' \in Seq(LineSeq) /\ Len(linesOf') = Len(linesOf)
      /\ linesOf'[i] = content /\ \A j \in DOMAIN fileCalls : j # i => linesOf'[j] = linesOf[j]
  BY <1>1, EntryReplaced DEF EditTypes
<1>5. workspace' \in [Files -> LineSeq]
  BY <1>1 DEF EditTypes
<1>6. EditTypes'
  BY <1>1, <1>2, <1>3, <1>4, <1>5 DEF EditTypes
<1>. QED  BY <1>2, <1>3, <1>4, <1>6, CallStep

LEMMA LoadKeeps ==
  ASSUME EditInv, NEW i \in DOMAIN fileCalls, InTurnNow(i), LoadsLines(i, workspace[FileAt(i)]),
         UNCHANGED <<anycase, fileCalls, group, before>>
  PROVE  EditInv'
<1>1. EditTypes /\ i \in DOMAIN stage /\ i \in DOMAIN linesOf
      /\ DOMAIN stage = DOMAIN fileCalls /\ DOMAIN linesOf = DOMAIN fileCalls
  BY DEF EditInv, EditTypes
<1>2. workspace[FileAt(i)] \in LineSeq
  BY <1>1, FilesOfCalls DEF EditTypes
<1>3. /\ stage' \in Seq({"todo", "loaded", "done"}) /\ Len(stage') = Len(stage) /\ stage'[i] = "loaded"
      /\ \A j \in DOMAIN fileCalls : j # i => stage'[j] = stage[j]
  BY <1>1, EntryReplaced DEF LoadsLines, EditTypes
<1>4. /\ linesOf' \in Seq(LineSeq) /\ Len(linesOf') = Len(linesOf)
      /\ linesOf'[i] = workspace[FileAt(i)] /\ \A j \in DOMAIN fileCalls : j # i => linesOf'[j] = linesOf[j]
  BY <1>1, <1>2, EntryReplaced DEF LoadsLines, EditTypes
<1>5. EditTypes'
  BY <1>1, <1>3, <1>4 DEF EditTypes, LoadsLines
<1>6. reported'[i] = "none" /\ reported' = reported
  BY DEF LoadsLines, EditInv, ReportsOnce, InTurnNow
<1>7. MayReport(fileCalls[i], NewLines(i), workspace[FileAt(i)], reported'[i], linesOf'[i])
  BY <1>6 DEF MayReport
<1>8. fileCalls[i].tool \notin {"read", "write", "delete"} /\ workspace[FileAt(i)] # Absent /\ workspace' = workspace
  BY DEF LoadsLines
<1>. QED  BY <1>3, <1>4, <1>5, <1>6, <1>7, <1>8, CallStep

LEMMA RunKeeps ==
  ASSUME EditInv, NEW i \in DOMAIN fileCalls, CallRuns(i)
  PROVE  EditInv'
<1>1. InTurnNow(i) /\ UNCHANGED <<anycase, fileCalls, group, before>>
  BY DEF CallRuns, MayBegin, InTurnNow
<1>2. workspace[FileAt(i)] \in LineSeq /\ Absent \in LineSeq /\ NewLines(i) \in LineSeq
  BY FilesOfCalls, NewLinesTyped DEF EditInv, EditTypes, Absent, LineSeq
<1>3. CASE workspace[FileAt(i)] = Absent /\ FailsOn(i)
  <2>1. MayReport(fileCalls[i], NewLines(i), workspace[FileAt(i)], "no", linesOf[i])
    BY <1>3 DEF MayReport
  <2>2. FileCallOver(i, "no") /\ UNCHANGED <<workspace, linesOf>>
    BY <1>3 DEF FailsOn
  <2>. QED  BY <1>1, <2>1, <2>2, OverKeeps
<1>4. CASE ReadsLines(i, workspace[FileAt(i)])
  <2>1. MayReport(fileCalls[i], NewLines(i), workspace[FileAt(i)], "ok", workspace[FileAt(i)])
    BY <1>4 DEF ReadsLines, MayReport
  <2>. QED  BY <1>1, <1>2, <1>4, <2>1, OkKeeps DEF ReadsLines
<1>5. CASE LoadsLines(i, workspace[FileAt(i)])
  BY <1>1, <1>5, LoadKeeps
<1>6. CASE fileCalls[i].tool = "write" /\ Puts(i, NewLines(i))
  <2>1. MayReport(fileCalls[i], NewLines(i), workspace[FileAt(i)], "ok", NewLines(i))
    BY <1>6 DEF MayReport
  <2>. QED  BY <1>1, <1>2, <1>6, <2>1, OkKeeps DEF Puts
<1>7. CASE fileCalls[i].tool = "delete" /\ Puts(i, Absent)
  <2>1. MayReport(fileCalls[i], NewLines(i), workspace[FileAt(i)], "ok", Absent)
    BY <1>7 DEF MayReport
  <2>. QED  BY <1>1, <1>2, <1>7, <2>1, OkKeeps DEF Puts
<1>. QED  BY <1>3, <1>4, <1>5, <1>6, <1>7 DEF CallRuns

LEMMA RewriteKeeps ==
  ASSUME EditInv, NEW i \in DOMAIN fileCalls, Rewrites(i)
  PROVE  EditInv'
<1>1. InTurnNow(i) /\ UNCHANGED <<anycase, fileCalls, group, before>>
  BY DEF Rewrites, InTurnNow, EditInv, GroupsInOrder
<1>2. /\ linesOf[i] = workspace[FileAt(i)] /\ linesOf[i] # Absent
      /\ fileCalls[i].tool \notin {"read", "write", "delete"}
  BY DEF Rewrites, EditInv, LoadedIsCurrent
<1>3. linesOf[i] \in LineSeq /\ NewLines(i) \in LineSeq /\ fileCalls[i] \in FileCallSet
  BY <1>2, FilesOfCalls, NewLinesTyped DEF EditInv, EditTypes
<1>4. ASSUME NEW content \in EditOf(fileCalls[i], NewLines(i), linesOf[i]), Puts(i, content)
      PROVE  EditInv'
  <2>1. content \in Meant(fileCalls[i], NewLines(i), linesOf[i]) /\ content \in LineSeq
    BY <1>2, <1>3, EditedLines
  <2>2. MayReport(fileCalls[i], NewLines(i), workspace[FileAt(i)], "ok", content)
    BY <2>1, <1>2 DEF MayReport
  <2>. QED  BY <1>1, <1>2, <1>4, <2>1, <2>2, OkKeeps DEF Puts
<1>5. CASE EditOf(fileCalls[i], NewLines(i), linesOf[i]) = {} /\ FailsOn(i)
  <2>1. MayReport(fileCalls[i], NewLines(i), workspace[FileAt(i)], "no", linesOf[i])
    BY <1>2, <1>3, <1>5, RejectedForCause DEF MayReport
  <2>2. FileCallOver(i, "no") /\ UNCHANGED <<workspace, linesOf>>
    BY <1>5 DEF FailsOn
  <2>. QED  BY <1>1, <2>1, <2>2, OverKeeps
<1>. QED  BY <1>4, <1>5 DEF Rewrites

LEMMA EditStep ==
  ASSUME EditInv, [EditsNext]_editVars
  PROVE  EditInv'
<1>1. ASSUME NEW form \in Forms, NEW p \in Path, AsksCall(form, p)
      PROVE  EditInv'
  BY <1>1, AskKeeps
<1>2. ASSUME NEW i \in DOMAIN fileCalls, CallRefused(i)
      PROVE  EditInv'
  <2>1. InTurnNow(i) /\ FileCallOver(i, "refused")
    BY <1>2 DEF CallRefused, MayBegin, InTurnNow
  <2>2. MayReport(fileCalls[i], NewLines(i), workspace[FileAt(i)], "refused", linesOf[i])
    BY DEF MayReport
  <2>. QED  BY <1>2, <2>1, <2>2, OverKeeps DEF CallRefused
<1>3. ASSUME NEW i \in DOMAIN fileCalls, CallRuns(i)
      PROVE  EditInv'
  BY <1>3, RunKeeps
<1>4. ASSUME NEW i \in DOMAIN fileCalls, Rewrites(i)
      PROVE  EditInv'
  BY <1>4, RewriteKeeps
<1>5. CASE UNCHANGED editVars
  <2>1. EditTypes' /\ GroupsAlike' /\ GroupsInOrder' /\ ReportsOnce'
    BY <1>5 DEF editVars, EditInv, EditTypes, GroupsAlike, GroupsInOrder, ReportsOnce
  <2>2. ConflictsApart' /\ LoadedIsCurrent'
    BY <1>5 DEF editVars, EditInv, ConflictsApart, Conflict, LoadedIsCurrent, FileAt, FileOf
  <2>3. BatchAsInOrder'
    <3>1. BatchAsInOrder
      BY DEF EditInv
    <3>2. \A k, f : Writers(k, f)' = Writers(k, f)
      BY <1>5 DEF editVars, Writers, FileAt, FileOf
    <3>3. \A k, f : InTurn(k, f)' = InTurn(k, f)
      BY <1>5, <3>2 DEF editVars, InTurn
    <3>4. \A i \in DOMAIN fileCalls : FileAt(i)' = FileAt(i) /\ NewLines(i)' = NewLines(i)
      BY <1>5 DEF editVars, FileAt, FileOf, NewLines
    <3>5. PICK over : over = Len(fileCalls) + 1
      OBVIOUS
    <3>6. \A f \in Files : workspace'[f] = InTurn(over, f)'
      BY <1>5, <3>1, <3>3, <3>5 DEF editVars, BatchAsInOrder
    <3>7. ASSUME NEW i \in DOMAIN fileCalls
          PROVE  MayReport(fileCalls'[i], NewLines(i)', InTurn(i, FileAt(i))', reported'[i], linesOf'[i])
      <4>1. PICK f : f = FileAt(i)
        OBVIOUS
      <4>2. InTurn(i, FileAt(i))' = InTurn(i, FileAt(i))
        BY <3>3, <3>4, <4>1
      <4>. QED  BY <1>5, <3>1, <3>4, <4>2 DEF editVars, BatchAsInOrder
    <3>. QED  BY <1>5, <3>5, <3>6, <3>7 DEF editVars, BatchAsInOrder
  <2>. QED  BY <2>1, <2>2, <2>3 DEF EditInv
<1>. QED  BY <1>1, <1>2, <1>3, <1>4, <1>5 DEF EditsNext

\* In every batch of calls whose lines are as FormsAssumption says, whoever changed the
\* files before it: the files, what was read and what was rejected are what the calls
\* mean one after the other (the groups at engine.ts:1540, anchors at tools.ts:165).
THEOREM BatchRunsInOrder == EditsSpec => []BatchAsInOrder
<1>1. EditsInit => EditInv
  BY EditsStart
<1>2. EditInv /\ [EditsNext]_editVars => EditInv'
  BY EditStep
<1>3. EditInv => BatchAsInOrder
  BY DEF EditInv
<1>. QED  BY <1>1, <1>2, <1>3, PTL DEF EditsSpec
=============================================================================

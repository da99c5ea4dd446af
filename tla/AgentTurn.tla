------------------------------ MODULE AgentTurn ------------------------------
(***************************************************************************)
(* One engine turn: runAgentLoop of src/src/agent/engine.ts with the step  *)
(* budget (StepBudget) and the done gate (Evidence).                       *)
(*                                                                         *)
(* The model is asked for the next step; it answers with a batch of tool   *)
(* calls, with `done`, with prose, with JSON naming no tool, or the call   *)
(* fails.  The loop is sequential, but while it awaits the model, a tool,  *)
(* a hook or the caller's completion check, the user may steer or cancel   *)
(* and the stall clock may run out.                                        *)
(*                                                                         *)
(* A call is a model value with a kind and a target; its signature is the  *)
(* call itself, and a batch is a sequence of calls.  History, streaming    *)
(* and the wording of corrections are left out.                            *)
(***************************************************************************)
EXTENDS StepBudget, Evidence

CONSTANTS
  Calls, KindOf, TargetOf,   \* the tool calls the model may make
  NoTarget,                  \* TargetOf of a call toolTarget cannot name
  Batches,                   \* the batches the model may send
  Faults,                    \* the ways a model call may fail
  Replies,                   \* the other replies it may give
  Hooks,                     \* the verdicts of the post-turn hooks
  Nudges,                    \* the answers of the caller's onBeforeDone
  Fallback,                  \* safetyFallbackAvailable()
  StallBudget,               \* JEO_TURN_MAX_MS is not 0
  MaxSteers,                 \* steering messages the user sends, at most
  MayCancel,                 \* the user may press Esc
  MaxRepeat, CycleWindow, MaxFailures, MaxDoneCorrections,
  MaxShellOnlyCorrections, MaxInvalidCalls, MaxParseBounces, MaxTransient

FaultKinds == {"overflow", "refusal", "refusal_category", "drop", "other"}
ReplyKinds == {"done", "answer", "garbled", "empty", "no_tool"}
NudgeKinds == {"none", "mutation", "other"}

ASSUME TurnConfig ==
  /\ KindOf \in [Calls -> Kinds] /\ Batches \subseteq Seq(Calls)
  /\ <<>> \notin Batches /\ DOMAIN TargetOf = Calls
  /\ Faults \subseteq FaultKinds /\ Replies \subseteq ReplyKinds
  /\ Hooks \subseteq {"none", "clean", "red"} /\ Nudges \subseteq NudgeKinds
  /\ "none" \in Hooks /\ "none" \in Nudges
  /\ {Fallback, StallBudget, MayCancel} \subseteq BOOLEAN /\ MaxSteers \in Nat
  /\ MaxRepeat \in Nat /\ MaxRepeat > 2 /\ CycleWindow \in Nat /\ CycleWindow > 2
  /\ {MaxFailures, MaxInvalidCalls, MaxDoneCorrections, MaxShellOnlyCorrections}
       \subseteq Nat \ {0}
  /\ {MaxParseBounces, MaxTransient} \subseteq Nat

VARIABLES
  pc,        \* where the loop waits, or how the turn ended
  step,      \* the step counter
  budget,    \* StepBudget
  evid,      \* Evidence
  spin,      \* the anti-spin guards
  ladder,    \* the recovery ladders and bounce counters
  work,      \* the batch being executed
  reply,     \* the `done` candidate's origin: "done" or "answer" (salvaged)
  stalled,   \* no progress for JEO_TURN_MAX_MS
  cancelled, \* opts.signal is aborted
  undrained,     \* steering messages not yet drained
  sent,      \* steering messages sent so far
  truth,     \* ghost: what really happened to the workspace and was asked
  ran        \* ghost: the executed batches, while at most two differ

vars == <<pc, step, budget, evid, spin, ladder, work, reply, stalled, cancelled,
          undrained, sent, truth, ran>>
user == <<cancelled, undrained, sent>>
ghost == <<truth, ran>>

Ends == {"done", "rejected", "cancelled", "error", "fallback", "no_tool",
         "failures", "repeat", "cycle", "steps", "time"}
Ended == pc \in Ends

NoBatch == <<>>

FreshSpin ==
  [lastSig |-> NoBatch, repeats |-> 0, replay |-> NoBatch, recent |-> <<>>,
   bounced |-> FALSE, failures |-> 0]

FreshLadder ==
  [overflow |-> FALSE, refusals |-> 0, transients |-> 0, parse |-> 0,
   invalid |-> 0, done |-> 0, shellOnly |-> 0, grace |-> FALSE]

NoWork == [batch |-> NoBatch, results |-> <<>>, judged |-> 0, mark |-> 0, cut |-> FALSE]

Init ==
  /\ pc = "top" /\ step = 1 /\ budget = FreshBudget /\ evid = NoEvidence
  /\ spin = FreshSpin /\ ladder = FreshLadder /\ work = NoWork
  /\ reply = "done" /\ stalled = FALSE /\ cancelled = FALSE
  /\ undrained = 0 /\ sent = 0
  /\ truth = [dirty |-> FALSE, check |-> "none", asked |-> {}, refused |-> "none",
              unserved |-> FALSE]
  /\ ran = <<>>

---------------------------------------------------------------------------
(* The surroundings of the loop.                                           *)

Steer == ~Ended /\ sent < MaxSteers /\ undrained' = undrained + 1 /\ sent' = sent + 1
         /\ UNCHANGED <<pc, step, budget, evid, spin, ladder, work, reply, stalled,
                        cancelled, ghost>>

Cancel == ~Ended /\ MayCancel /\ ~cancelled /\ cancelled' = TRUE
          /\ UNCHANGED <<pc, step, budget, evid, spin, ladder, work, reply, stalled,
                         undrained, sent, ghost>>

StallClock == ~Ended /\ StallBudget /\ ~stalled /\ stalled' = TRUE
              /\ UNCHANGED <<pc, step, budget, evid, spin, ladder, work, reply,
                             user, ghost>>

---------------------------------------------------------------------------
(* The top of the loop: stall, budget, cancellation, steering, model call. *)

OverLimit == step > budget.limit
\* Defect: the grace step is granted again and again.
GraceForEver == Settled(evid)

GraceLeft == ~ladder.grace /\ Settled(evid)

\* What is left in force after steering was drained n messages deep.
GuardsReset(s) == [s EXCEPT !.repeats = 0, !.lastSig = NoBatch, !.failures = 0,
                            !.recent = <<>>]
SteeredTimes(b, n) ==
  IF n = 0 THEN b
  ELSE [Steered(b) EXCEPT !.limit = LesserOf(b.limit + n * ExtensionSteps, HardCap)]

StopForTime ==
  /\ pc = "top" /\ stalled
  /\ pc' = "wrapup_time"
  /\ UNCHANGED <<step, budget, evid, spin, ladder, work, reply, stalled, user, ghost>>

StopForSteps ==
  /\ pc = "top" /\ ~stalled
  /\ OverLimit /\ ~MayExtend(budget) /\ ~GraceLeft
  /\ pc' = "wrapup_steps"
  /\ UNCHANGED <<step, budget, evid, spin, ladder, work, reply, stalled, user, ghost>>

StepAllowed ==
  /\ pc = "top" /\ ~stalled
  /\ OverLimit => MayExtend(budget) \/ GraceLeft

BudgetAtTop == IF OverLimit /\ MayExtend(budget) THEN Extended(budget) ELSE budget
LadderAtTop ==
  IF OverLimit /\ ~MayExtend(budget) THEN [ladder EXCEPT !.grace = TRUE] ELSE ladder

StopCancelled ==
  /\ StepAllowed /\ cancelled
  /\ pc' = "cancelled" /\ budget' = BudgetAtTop /\ ladder' = LadderAtTop
  /\ UNCHANGED <<step, evid, spin, work, reply, stalled, user, ghost>>

AskModel ==
  /\ StepAllowed /\ ~cancelled
  /\ pc' = "model" /\ undrained' = 0
  /\ budget' = SteeredTimes(BudgetAtTop, undrained) /\ ladder' = LadderAtTop
  /\ spin' = IF undrained > 0 THEN GuardsReset(spin) ELSE spin
  /\ truth' = [truth EXCEPT !.unserved = FALSE]
  /\ ran' = IF undrained > 0 THEN <<>> ELSE ran
  /\ UNCHANGED <<step, evid, work, reply, stalled, cancelled, sent>>

---------------------------------------------------------------------------
(* The model call fails: overflow and refusal ladders, stream drops, errors. *)

Resend(l) == pc' = "top" /\ ladder' = l
             /\ UNCHANGED <<budget, evid, work, reply, stalled, user, ghost>>
BackOff(l) == pc' = "backoff" /\ ladder' = l
              /\ UNCHANGED <<step, budget, evid, spin, work, reply, stalled, user, ghost>>
EndWith(how, l) ==
  pc' = how /\ ladder' = l
  /\ UNCHANGED <<step, budget, evid, spin, work, reply, stalled, user, ghost>>

\* The evidence behind the previous decision was cut out of the history.
Elided(s) == [s EXCEPT !.replay = IF s.lastSig = NoBatch THEN @ ELSE s.lastSig]

Overflows ==
  /\ pc = "model" /\ "overflow" \in Faults
  /\ LET used == [ladder EXCEPT !.overflow = TRUE] IN
     \/ /\ ~ladder.overflow  \* something could be trimmed: one free retry
        /\ Resend(used) /\ spin' = Elided(spin) /\ step' = step
     \/ EndWith("error", used)

Refuses ==
  /\ pc = "model" /\ {"refusal", "refusal_category"} \cap Faults # {}
  /\ \E kind \in {"refusal", "refusal_category"} \cap Faults, cuts \in BOOLEAN :
       LET n == ladder.refusals + 1
           l == [ladder EXCEPT !.refusals = LesserOf(n, 4)]  \* 4: any later one
       IN  \/ n = 1 /\ Resend(l) /\ UNCHANGED <<step, spin>>
           \/ n = 2 /\ Resend(l) /\ step' = step + 1
                    /\ spin' = IF cuts THEN Elided(spin) ELSE spin
           \/ n = 3 /\ cuts /\ Resend(l) /\ UNCHANGED <<step, spin>>
           \/ /\ n > 3 \/ (n = 3 /\ ~cuts)
              /\ IF kind = "refusal_category" THEN EndWith("error", l)
                 ELSE IF Fallback THEN EndWith("fallback", l)
                 ELSE BackOff(l)

Drops ==
  /\ pc = "model" /\ "drop" \in Faults
  /\ LET l == [ladder EXCEPT !.transients = @ + 1] IN
     IF l.transients <= MaxTransient THEN BackOff(l) ELSE EndWith("error", l)

\* Anything else is terminal ...
CallFails == pc = "model" /\ "other" \in Faults /\ EndWith("error", ladder)

\* Defect: the stall budget is only looked at between model calls.
AbortedByUser == pc = "model" /\ cancelled /\ EndWith("error", ladder)

\* ... and so is the abort of the call by the stall timer or by the user.
CallAborted == pc = "model" /\ (stalled \/ cancelled) /\ EndWith("error", ladder)

BackoffEnds ==
  /\ pc = "backoff" /\ pc' = "top"
  /\ UNCHANGED <<step, budget, evid, spin, ladder, work, reply, stalled, user, ghost>>

---------------------------------------------------------------------------
(* The model answers without a usable call.                                *)

Bounce(l) == pc' = "top" /\ step' = step + 1 /\ ladder' = l
             /\ UNCHANGED <<budget, evid, spin, work, reply, stalled, user, ran>>

Parsed(l) == [l EXCEPT !.parse = 0, !.invalid = 0]

MidTurn == step > 1 \/ evid.sawMutation \/ evid.hookFailing
Salvageable(kind) ==
  /\ kind # "empty"
  /\ ladder.parse >= MaxParseBounces \/ (kind = "answer" /\ ~MidTurn)

SendsProse(kind) ==
  /\ pc = "model" /\ kind \in {"answer", "garbled", "empty"} \cap Replies
  /\ LET l == [ladder EXCEPT !.parse = @ + 1] IN
     IF ~Salvageable(kind) THEN Bounce(l) /\ truth' = truth
     ELSE /\ pc' = IF l.parse <= MaxParseBounces THEN "precheck" ELSE "gate"
          /\ ladder' = IF l.parse <= MaxParseBounces THEN l ELSE Parsed(l)
          /\ reply' = "answer"
          /\ UNCHANGED <<step, budget, evid, spin, work, stalled, user, ghost>>

SendsNoTool ==
  /\ pc = "model" /\ "no_tool" \in Replies
  /\ LET l == [ladder EXCEPT !.parse = 0, !.invalid = @ + 1] IN
     IF l.invalid >= MaxInvalidCalls THEN EndWith("no_tool", l)
     ELSE Bounce(l) /\ truth' = truth

---------------------------------------------------------------------------
(* A completion candidate: the caller's check, the gate, late steering.    *)

Asked(class) == truth' = [truth EXCEPT !.asked = @ \cup {class}]
Rejected(class) ==
  /\ pc' = "rejected" /\ truth' = [truth EXCEPT !.refused = class]
  /\ UNCHANGED <<step, budget, evid, spin, ladder, work, reply, stalled, user, ran>>

SendsDone ==
  /\ pc = "model" /\ "done" \in Replies
  /\ pc' = "gate" /\ reply' = "done" /\ ladder' = Parsed(ladder)
  /\ UNCHANGED <<step, budget, evid, spin, work, stalled, user, ghost>>

PreCheck(nudge) ==
  /\ pc = "precheck"
  /\ IF nudge = "none"
     THEN /\ pc' = "gate" /\ ladder' = Parsed(ladder)
          /\ UNCHANGED <<step, budget, evid, spin, work, reply, stalled, user, ghost>>
     ELSE IF ladder.done >= MaxDoneCorrections THEN Rejected("full")
     ELSE Bounce([ladder EXCEPT !.done = @ + 1]) /\ Asked("full")

\* The caller's restatement of the mutation gate is no reason of its own.
Independent(nudge) == nudge # "none" /\ ~(GateBlocks(evid) /\ nudge = "mutation")
ShellOnly(nudge) ==
  GateBlocks(evid) /\ ~evid.hookFailing /\ ~evid.definite /\ ~Independent(nudge)

\* Defect: every correction counts against the shell-only limit.
SpentTogether(nudge) ==
  ladder.done >= IF ShellOnly(nudge) THEN MaxShellOnlyCorrections ELSE MaxDoneCorrections

CorrectionsSpent(nudge) ==
  IF ShellOnly(nudge) THEN ladder.shellOnly >= MaxShellOnlyCorrections
                      ELSE ladder.done >= MaxDoneCorrections

DoneRefused(nudge) ==
  /\ pc = "gate" /\ (GateBlocks(evid) \/ Independent(nudge))
  /\ LET class == IF ShellOnly(nudge) THEN "shell" ELSE "full" IN
     IF CorrectionsSpent(nudge) THEN Rejected(class)
     ELSE /\ Asked(class)
          /\ Bounce([ladder EXCEPT
                !.done = @ + 1,
                !.shellOnly = IF ShellOnly(nudge) THEN @ + 1 ELSE @])

DoneAccepted(nudge) ==
  /\ pc = "gate" /\ ~GateBlocks(evid) /\ ~Independent(nudge)
  /\ IF undrained > 0
     THEN \* steering arrived while the model was finishing: reopen the turn
          /\ pc' = "top" /\ step' = step + 1 /\ undrained' = 0
          /\ budget' = Steered(budget) /\ spin' = GuardsReset(spin)
          /\ truth' = [truth EXCEPT !.unserved = TRUE] /\ ran' = <<>>
          /\ UNCHANGED <<evid, ladder, work, reply, stalled, cancelled, sent>>
     ELSE EndWith("done", ladder)

---------------------------------------------------------------------------
(* A batch of calls: the anti-spin guards judge it before it runs.         *)

ReadOnly(batch) == \A i \in DOMAIN batch : KindOf[batch[i]] = "read"

\* The next decision after an elision may repeat the last one, if read-only.
Noticed(batch) ==
  [spin EXCEPT
     !.replay = NoBatch, !.lastSig = batch,
     !.repeats = IF (spin.replay = batch /\ ReadOnly(batch)) \/ batch # spin.lastSig
                 THEN 1 ELSE @ + 1]

WindowWith(batch) ==
  LET longer == Append(spin.recent, batch)
  IN  IF Len(longer) > CycleWindow THEN Tail(longer) ELSE longer

DistinctIn(s) == Cardinality({s[i] : i \in DOMAIN s})
\* Defect: two alternating batches do not count as a cycle.
CyclingOnOne(w) == Len(w) = CycleWindow /\ DistinctIn(w) < 2

Cycling(w) == Len(w) = CycleWindow /\ DistinctIn(w) <= 2

\* Ghost: the executed batches, as far back as they are at most two different ones.
TwoDistinctTail(s) ==
  SubSeq(s, CHOOSE k \in 1 .. Len(s) :
              /\ DistinctIn(SubSeq(s, k, Len(s))) <= 2
              /\ k = 1 \/ DistinctIn(SubSeq(s, k - 1, Len(s))) > 2, Len(s))

Skips(s) == /\ pc' = "top" /\ step' = step + 1 /\ spin' = s /\ ladder' = Parsed(ladder)
            /\ UNCHANGED <<budget, evid, work, reply, stalled, user, ghost>>
Gives(up, s) == /\ pc' = up /\ spin' = s /\ ladder' = Parsed(ladder)
                /\ UNCHANGED <<step, budget, evid, work, reply, stalled, user, ghost>>

SendsBatch(batch) ==
  /\ pc = "model"
  /\ LET s == Noticed(batch)
         w == WindowWith(batch)
     IN  IF s.repeats \in {2, MaxRepeat - 1} THEN Skips(s)
         ELSE IF s.repeats >= MaxRepeat THEN Gives("consolidate_repeat", s)
         ELSE IF Cycling(w)
         THEN IF spin.bounced
              THEN Gives("consolidate_cycle", [s EXCEPT !.recent = w])
              ELSE Skips([s EXCEPT !.recent = <<>>, !.bounced = TRUE])
         ELSE /\ pc' = "tools" /\ spin' = [s EXCEPT !.recent = w]
              /\ ladder' = Parsed(ladder)
              /\ work' = [NoWork EXCEPT !.batch = batch, !.mark = evid.cycles]
              /\ ran' = TwoDistinctTail(Append(ran, batch))
              /\ UNCHANGED <<step, budget, evid, reply, stalled, user, truth>>

---------------------------------------------------------------------------
(* Execution by groups: consecutive reads together, writes to distinct     *)
(* files together, anything else alone; cancellation between groups.       *)

Together(b, i, j) ==
  \/ i = j
  \/ \A k \in i .. j : KindOf[b[k]] = "read"
  \/ /\ \A k \in i .. j : KindOf[b[k]] = "write" /\ (k > i => TargetOf[b[k]] # NoTarget)
     /\ \A k, m \in i .. j : TargetOf[b[k]] = TargetOf[b[m]] => k = m

\* The calls i..j are a whole group.
IsGroup(b, i, j) ==
  Together(b, i, j) /\ \A k \in j + 1 .. Len(b) : ~Together(b, i, k)

Executed == Len(work.results)
Complete == Executed = Len(work.batch)

RunGroup ==
  /\ pc = "tools" /\ ~Complete /\ ~cancelled
  /\ \E last \in Executed + 1 .. Len(work.batch) :
       /\ IsGroup(work.batch, Executed + 1, last)
       /\ \E rs \in [1 .. last - Executed -> ResultType] :
            /\ \A k \in DOMAIN rs : rs[k] \in ResultsOf(KindOf[work.batch[Executed + k]])
            /\ work' = [work EXCEPT !.results = @ \o rs]
  /\ UNCHANGED <<pc, step, budget, evid, spin, ladder, reply, stalled, user, ghost>>

\* processAndPushResults: report, and run the post-turn hooks of what ran.
Report(hook) ==
  /\ pc = "tools" /\ (Complete \/ cancelled)
  /\ Executed = 0 => hook = "none"
  /\ pc' = "judging" /\ work' = [work EXCEPT !.cut = ~Complete]
  /\ evid' = AfterHooks(evid, hook)
  /\ UNCHANGED <<step, budget, spin, ladder, reply, stalled, user, ghost>>

NoveltyKey(c) ==
  IF TargetOf[c] = NoTarget THEN <<c>> ELSE <<TargetOf[c], work.mark>>

\* One executed call scores the budget and moves the evidence.
JudgeCall ==
  /\ pc = "judging" /\ work.judged < Executed
  /\ LET i     == work.judged + 1
         c     == work.batch[i]
         r     == work.results[i]
         kind  == KindOf[c]
         clears == /\ ~evid.hookFailing
                   /\ \/ Verifies(kind, r)
                      \/ /\ kind = "todo" /\ r.ok
                         /\ evid.sawMutation =>
                              evid.sawVerification /\ evid.latest = "verification"
     IN  /\ work' = [work EXCEPT !.judged = i]
         /\ budget' = Recorded(budget, c, r.ok, NoveltyKey(c))
         /\ evid' = AfterCall(evid, kind, r)
         /\ ladder' = IF clears THEN [ladder EXCEPT !.done = 0, !.shellOnly = 0]
                      ELSE ladder
         /\ truth' = [truth EXCEPT
              !.dirty = IF Verifies(kind, r) THEN FALSE ELSE @ \/ r.wrote,
              !.check = IF kind # "verify" THEN @
                        ELSE IF Verifies(kind, r) THEN "pass" ELSE "fail"]
  /\ UNCHANGED <<pc, step, spin, reply, stalled, user, ran>>

\* Judged by its non-trivial calls, if it has any.
StepSucceeded ==
  LET acted == {i \in 1 .. Executed : KindOf[work.batch[i]] # "read"}
      judged == IF acted = {} THEN 1 .. Executed ELSE acted
  IN  \E i \in judged : work.results[i].ok

EndStep ==
  /\ pc = "judging" /\ work.judged = Executed
  /\ work' = NoWork
  /\ LET failures == IF StepSucceeded THEN 0 ELSE spin.failures + 1 IN
     IF work.cut
     THEN pc' = "cancelled" /\ UNCHANGED <<step, spin, stalled>>
     ELSE /\ spin' = [spin EXCEPT !.failures = failures]
          /\ IF failures >= MaxFailures
             THEN pc' = "failures" /\ UNCHANGED <<step, stalled>>
             ELSE pc' = "top" /\ step' = step + 1 /\ stalled' = FALSE
  /\ UNCHANGED <<budget, evid, ladder, reply, user, ghost>>

---------------------------------------------------------------------------
(* The final wrap-up call, best effort: a failure or Esc only changes the   *)
(* wording of the result.                                                   *)

WrapUp ==
  /\ pc \in {"wrapup_time", "wrapup_steps", "consolidate_repeat", "consolidate_cycle"}
  /\ pc' = CASE pc = "wrapup_time" -> "time"
             [] pc = "wrapup_steps" -> "steps"
             [] pc = "consolidate_repeat" -> "repeat"
             [] OTHER -> "cycle"
  /\ UNCHANGED <<step, budget, evid, spin, ladder, work, reply, stalled, user, ghost>>

ModelAnswers ==
  \/ \E batch \in Batches : SendsBatch(batch)
  \/ \E kind \in ReplyKinds : SendsProse(kind)
  \/ SendsNoTool
  \/ SendsDone

ModelFails == Overflows \/ Refuses \/ Drops \/ CallFails

TopOfLoop == StopForTime \/ StopForSteps \/ StopCancelled \/ AskModel

Completion == \E nudge \in Nudges : PreCheck(nudge) \/ DoneRefused(nudge) \/ DoneAccepted(nudge)

Execution == RunGroup \/ (\E hook \in Hooks : Report(hook)) \/ JudgeCall \/ EndStep

Loop == TopOfLoop \/ ModelAnswers \/ ModelFails \/ CallAborted \/ BackoffEnds \/ Completion
        \/ Execution \/ WrapUp

Next == Loop \/ Steer \/ Cancel \/ StallClock

Spec == Init /\ [][Next]_vars

\* What is owed to the turn: the loop's own code runs, waits and backoffs end,
\* the caller's check, tools, hooks and the wrap-up call return, a call whose
\* signal is aborted settles, and time passes.  A model call owes nothing: it
\* may stream or hang for ever.
Fairness ==
  /\ WF_vars(TopOfLoop) /\ WF_vars(CallAborted) /\ WF_vars(BackoffEnds)
  /\ WF_vars(Completion) /\ WF_vars(Execution) /\ WF_vars(WrapUp)
  /\ WF_vars(StallClock)

FairSpec == Spec /\ Fairness

---------------------------------------------------------------------------
(* Properties                                                              *)

Waits == {"top", "model", "backoff", "precheck", "gate", "tools", "judging",
          "wrapup_time", "wrapup_steps", "consolidate_repeat", "consolidate_cycle"}

BudgetType ==
  /\ budget.limit \in BaseSteps .. HardCap /\ budget.extensions \in 0 .. MaxExtensions
  /\ budget.window \in Seq([sig : Calls, ok : BOOLEAN])
  /\ Len(budget.window) <= WindowSize /\ budget.novel \in BOOLEAN

\* Type invariant of the turn.
TypeOK ==
  /\ pc \in Waits \cup Ends /\ step \in Nat \ {0}
  /\ BudgetType /\ evid \in EvidenceType
  /\ spin.repeats \in 0 .. MaxRepeat /\ spin.bounced \in BOOLEAN
  /\ spin.failures \in 0 .. MaxFailures /\ Len(spin.recent) <= CycleWindow
  /\ ladder.refusals \in 0 .. 4 /\ ladder.invalid \in 0 .. MaxInvalidCalls
  /\ work.batch \in Batches \cup {NoBatch} /\ Executed <= Len(work.batch)
  /\ work.judged \in 0 .. Executed
  /\ stalled \in BOOLEAN /\ cancelled \in BOOLEAN /\ undrained \in 0 .. sent

\* A turn that changed the workspace is accepted as done only if a verification
\* passed after the last change, the latest verification did not fail and no
\* post-turn hook is failing (the done gate, engine.ts and classifyDoneGate).
NoUnverifiedCompletion ==
  pc = "done" =>
    /\ ~truth.dirty
    /\ evid.sawMutation => truth.check = "pass" /\ ~evid.hookFailing

\* Completion is never rejected out of hand: a turn stopped on shell-only
\* evidence was once told the changed paths, and any other rejected turn was
\* once asked to correct (the two counters of the done gate).
RejectionWasAsked ==
  /\ truth.refused = "shell" => "shell" \in truth.asked
  /\ truth.refused = "full" => truth.asked # {}

\* However its batches alternate, fail and are replayed after a context overflow, a
\* model that repeats itself is stopped: it never runs more than two windows (less
\* their last step) of batches drawn from two, unless the user steers (the anti-spin
\* guards of engine.ts).
SpinBounded == Len(ran) <= 2 * (CycleWindow - 1)

\* However extensions, steering, free resends and the completion grace mix, the
\* step counter never passes the hard cap by more than the grace step and the
\* increment that ends it (the budget check at the top of the loop).
StepsBounded == budget.limit <= HardCap /\ step <= HardCap + 2

\* Every turn ends, even if the provider refuses or hangs for ever, as long as
\* the stall budget is on (the stall clock, the step budget, the ladders).
TurnEnds == <>Ended

\* Steering restarts the stall clock: a turn is never stopped for want of
\* progress between accepting an instruction and showing it to the model.
SteeringRestartsClock == pc = "wrapup_time" => ~truth.unserved
=============================================================================

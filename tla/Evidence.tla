------------------------------ MODULE Evidence ------------------------------
(***************************************************************************)
(* The completion evidence of one engine turn: what runAgentLoop remembers *)
(* of mutations and verifications, how one executed call changes it, and   *)
(* the done gate's verdict (classifyDoneGate).                             *)
(*                                                                         *)
(* The engine orders mutations and passing verifications by a counter and  *)
(* compares the last of each; only which came last matters, so `latest`    *)
(* stands for lastMutationSeq and lastVerificationSeq.                     *)
(*                                                                         *)
(* A call has a kind and its result is a record                            *)
(*   ok       the tool reported success                                    *)
(*   flagged  the result carries mutationMayHaveOccurred                   *)
(*   proof    the verifier's output is evidence (verificationProduced...)  *)
(*   wrote    the workspace did change: what the engine tries to know      *)
(***************************************************************************)
EXTENDS Integers, FiniteSets

\* read: a read-only tool.  write: a built-in mutator.  shell: bash or
\* computer inside a snapshot bracket.  verify: a recognised verification
\* command.  todo: the todo list.  start: job/monitor start and the mutating
\* debug actions.  delegate: every other tool, known only by its flag.
Kinds == {"read", "write", "shell", "verify", "todo", "start", "delegate"}

Latest == {"none", "mutation", "verification"}

EvidenceType ==
  [sawMutation : BOOLEAN, sawVerification : BOOLEAN, latest : Latest,
   definite : BOOLEAN, cycles : 0..4, hookFailing : BOOLEAN]

NoEvidence ==
  [sawMutation |-> FALSE, sawVerification |-> FALSE, latest |-> "none",
   definite |-> FALSE, cycles |-> 0, hookFailing |-> FALSE]

ResultType == [ok : BOOLEAN, flagged : BOOLEAN, proof : BOOLEAN, wrote : BOOLEAN]

\* What the tools of each kind can report.  A built-in mutator raises the flag
\* before it touches the disk; a bracketed call is flagged whenever the two
\* snapshots differ; a verifier is trusted not to write unless it threw.
ResultsOf(kind) ==
  {r \in ResultType :
     /\ r.proof => kind = "verify" /\ r.ok
     /\ r.wrote => r.ok \/ r.flagged
     /\ kind \in {"read", "todo"} => ~r.flagged /\ ~r.wrote
     /\ kind \in {"shell", "delegate"} /\ r.wrote => r.flagged
     /\ kind = "verify" => (r.flagged => ~r.ok) /\ (r.wrote => r.flagged)}

Verifies(kind, r) == kind = "verify" /\ r.ok /\ r.proof

Mutates(kind, r) ==
  CASE kind = "verify" -> ~Verifies(kind, r) /\ r.flagged
    [] kind = "start" -> TRUE
    [] kind = "write" -> r.ok \/ r.flagged
    [] OTHER -> r.flagged

Mutated(e, firmly) ==
  [e EXCEPT !.sawMutation = TRUE, !.latest = "mutation",
            !.definite = @ \/ firmly]

\* One executed call, in the order of the batch.
AfterCall(e, kind, r) ==
  IF kind # "verify"
  THEN IF Mutates(kind, r) THEN Mutated(e, kind # "shell") ELSE e
  ELSE LET counted == [e EXCEPT !.cycles = IF e.sawMutation /\ @ < 4 THEN @ + 1 ELSE @]
           failed  == [counted EXCEPT !.sawVerification = FALSE]
       IN  IF Verifies(kind, r)
           THEN [counted EXCEPT !.sawVerification = TRUE, !.latest = "verification",
                                !.definite = FALSE]
           ELSE IF Mutates(kind, r) THEN Mutated(failed, TRUE) ELSE failed

\* A batch's hooks: any diagnostics leave a pending failure, a clean run clears it.
AfterHooks(e, hook) ==
  CASE hook = "red" -> [e EXCEPT !.hookFailing = TRUE]
    [] hook = "clean" -> [e EXCEPT !.hookFailing = FALSE]
    [] OTHER -> e

\* Defect: a change seen only by a snapshot bracket leaves a verification fresh.
StaleIfDefinite(e) == e.sawMutation /\ e.latest = "mutation" /\ e.definite

Stale(e) == e.sawMutation /\ e.latest = "mutation"

\* The mutation was followed by a passing verification and no failing hook.
Settled(e) ==
  e.sawMutation /\ e.sawVerification /\ e.latest = "verification" /\ ~e.hookFailing

GateBlocks(e) ==
  e.sawMutation /\ (~e.sawVerification \/ Stale(e) \/ e.hookFailing)
=============================================================================

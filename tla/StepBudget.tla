----------------------------- MODULE StepBudget -----------------------------
(***************************************************************************)
(* The flexible step budget of one agent turn (class StepBudget), as       *)
(* operators over a record                                                 *)
(*   limit       the current step limit                                    *)
(*   extensions  extensions granted so far                                 *)
(*   window      the scored calls, oldest first, each [sig, ok]            *)
(*   seen        novelty keys recorded this turn                           *)
(*   novel       a never-seen key was recorded since the last extension    *)
(* novelSinceExtension is only ever compared with 1, so it is a Boolean.   *)
(* An unbounded maxExtensions is any number not below HardCap: every       *)
(* extension raises the limit by at least one.                             *)
(***************************************************************************)
EXTENDS Integers, Sequences, FiniteSets

CONSTANTS BaseSteps, ExtensionSteps, MaxExtensions, HardCap, WindowSize

\* What resolveStepBudgetConfig guarantees of the configuration it returns.
ASSUME BudgetConfig ==
  /\ BaseSteps \in Nat \ {0} /\ ExtensionSteps \in Nat \ {0}
  /\ MaxExtensions \in Nat /\ HardCap \in Nat /\ WindowSize \in Nat
  /\ BaseSteps <= HardCap /\ WindowSize >= 2

LesserOf(a, b) == IF a <= b THEN a ELSE b

FreshBudget ==
  [limit |-> LesserOf(BaseSteps, HardCap), extensions |-> 0, window |-> <<>>,
   seen |-> {}, novel |-> FALSE]

\* The limit after one more extension's worth of steps.
RaisedLimit(b) == LesserOf(b.limit + ExtensionSteps, HardCap)

\* record: novelty by key, then the scoring window, oldest entry dropped.
Recorded(b, sig, ok, key) ==
  LET longer == Append(b.window, [sig |-> sig, ok |-> ok])
  IN  [b EXCEPT !.window = IF Len(longer) > WindowSize THEN Tail(longer) ELSE longer,
                !.seen = @ \cup {key},
                !.novel = @ \/ key \notin b.seen]

\* noteSteer: headroom without spending an extension, nothing held against it.
Steered(b) ==
  [b EXCEPT !.window = <<>>, !.novel = FALSE, !.limit = RaisedLimit(b)]

\* Half of the window succeeded, on at least two distinct calls.
ProgressShown(b) ==
  LET w == b.window IN
  /\ Len(w) >= 2
  /\ 2 * Cardinality({i \in DOMAIN w : w[i].ok}) >= Len(w)
  /\ Cardinality({w[i].sig : i \in DOMAIN w}) >= 2

MayExtend(b) ==
  /\ b.extensions < MaxExtensions
  /\ b.limit < HardCap
  /\ ProgressShown(b)
  /\ b.novel

Extended(b) ==
  [b EXCEPT !.extensions = @ + 1, !.novel = FALSE, !.limit = RaisedLimit(b)]
=============================================================================

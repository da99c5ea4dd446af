---------------------------- MODULE SessionPool ----------------------------
(***************************************************************************)
(* The messenger session pool: every conversation (key) has at most one    *)
(* resident worker process, turns of one conversation run one at a time in *)
(* arrival order, and at most Limit turns of all conversations run at      *)
(* once.  A turn starts at most one worker, so the worker a turn starts is *)
(* named after that turn and needs no identifier of its own.               *)
(*                                                                         *)
(* A step is one stretch of the program between two awaits.  The event     *)
(* loop delivers what happens outside (output, exits, timers) only when no *)
(* reaction to an earlier event is queued (Quiet).  The queued reactions   *)
(* run in the order they were queued; here they run in any order, except   *)
(* where that would be too coarse: one reaction separates the start of a   *)
(* worker from the turn that receives it, so only what was queued before   *)
(* can come in between (ahead), and nothing comes in between the steps of  *)
(* start() itself (Undisturbed).                                           *)
(***************************************************************************)
EXTENDS Naturals, Sequences, FiniteSets

CONSTANTS
  Turn,                   \* the calls of turn()
  Key,                    \* the conversations
  KeyOf,                  \* the conversation of a turn
  PolicyOf,               \* the worker policy (policyKey) a turn asks for
  Limit,                  \* resident workers, and turns that run at once
  RequireSandboxCleanup,  \* workers must prove that their sandbox is gone
  Abortable,              \* bound: the turns whose caller may abort them
  NoTurn                  \* no turn, no worker

ASSUME TurnAssumption == IsFiniteSet(Turn)
ASSUME LimitAssumption == Limit \in Nat \ {0}
ASSUME KeyAssumption == KeyOf \in [Turn -> Key]
ASSUME NoTurnAssumption == NoTurn \notin Turn
ASSUME AbortableAssumption == Abortable \subseteq Turn
ASSUME CleanupAssumption == RequireSandboxCleanup \in BOOLEAN

Worker == Turn
MaybeTurn == Turn \cup {NoTurn}

VARIABLES
  pc,          \* where each call of turn() is
  prev,        \* the predecessor whose tail a queued turn waits for
  tailDone,    \* the turns whose tail promise has resolved
  keyTail,     \* keyTails: the last queued turn of a conversation
  aborted,     \* the turns whose caller has aborted
  waiting,     \* turns waiting for admission, oldest first
  admitted,    \* the count of admission slots in use
  ahead,       \* the turns whose reaction was queued before that of a turn
  on,          \* the worker a turn waits for, was given or writes to
  answer,      \* the turn whose answer a turn was resolved with
  arrivals,    \* history: the turns of each conversation as they arrived
  closed,      \* close() was called
  closing,     \* where close() is
  workers,     \* the resident worker of each conversation
  allWorkers,  \* workers not yet retired, or not yet proven gone
  retiring,    \* the worker whose exit blocks a conversation
  dead,        \* the retired workers
  exit,        \* the exit promise of each worker
  drained,     \* the workers whose stdout has ended
  holder,      \* the turn a worker has pending
  written,     \* the workers whose pending input is written and flushed
  reply,       \* the turn whose answer a worker has pending as result
  idle,        \* the workers with an armed idle timer
  newer,       \* the workers used after a worker (the order of lastUsed)
  inbox        \* the texts a worker process has read and not yet answered

turnVars == <<pc, prev, tailDone, keyTail, aborted, waiting, admitted, on,
              answer, arrivals>>
workerVars == <<workers, allWorkers, retiring, dead, exit, drained, holder,
                written, reply, idle, newer, inbox>>
queueVars == <<prev, tailDone, keyTail, arrivals>>
pendingVars == <<holder, written, reply, inbox>>
residentVars == <<workers, allWorkers, retiring, dead, idle, newer>>
closeVars == <<closed, closing>>
vars == <<turnVars, workerVars, closeVars, ahead>>

\* The steps of a turn that hold an admission slot.
Admitted == {"granted", "blocked", "starting", "evicting", "given", "sent",
             "leaving"}
\* The steps of a turn that has taken its place in its conversation.
InTurn == Admitted \cup {"ready", "waiting"}
Steps == InTurn \cup {"new", "queued", "done"}

Init ==
  /\ pc = [t \in Turn |-> "new"] /\ prev = [t \in Turn |-> NoTurn] /\ tailDone = {}
  /\ keyTail = [k \in Key |-> NoTurn] /\ aborted = {} /\ waiting = <<>>
  /\ admitted = 0 /\ ahead = [t \in Turn |-> {}] /\ on = [t \in Turn |-> NoTurn]
  /\ answer = [t \in Turn |-> NoTurn] /\ arrivals = [k \in Key |-> <<>>]
  /\ closed = FALSE /\ closing = "open" /\ workers = [k \in Key |-> NoTurn]
  /\ allWorkers = {} /\ retiring = [k \in Key |-> NoTurn] /\ dead = {}
  /\ exit = [w \in Worker |-> "none"] /\ drained = {}
  /\ holder = [w \in Worker |-> NoTurn] /\ written = {}
  /\ reply = [w \in Worker |-> NoTurn] /\ idle = {} /\ newer = [w \in Worker |-> {}]
  /\ inbox = [w \in Worker |-> <<>>]

Stopped(t) == closed \/ t \in aborted

Splice(s, i) == [j \in 1..(Len(s) - 1) |-> IF j < i THEN s[j] ELSE s[j + 1]]

-----------------------------------------------------------------------------
(* Retiring workers.                                                       *)

\* The turns that lose their worker when the workers S are retired.
Losers(S) == {holder[w] : w \in S} \ {NoTurn}

\* Defect: a retired worker does not block its conversation.
NothingBlocks(S, k) == {}

\* The workers among S whose process may still be there for conversation k.
Blocking(S, k) == {w \in S : KeyOf[w] = k /\ exit[w] # "resolved"}

\* retire() of the workers S that are not retired yet: each leaves the pool,
\* drops its pending turn, and blocks its conversation until its process is
\* known to be gone.  The signal or the shutdown message it sends shows only
\* in the exit that may follow.
Retire(S) ==
  /\ dead' = dead \cup S
  /\ workers' = [k \in Key |-> IF workers[k] \in S THEN NoTurn ELSE workers[k]]
  /\ allWorkers' = IF RequireSandboxCleanup THEN allWorkers ELSE allWorkers \ S
  /\ retiring' = [k \in Key |->
       IF Blocking(S, k) = {} THEN retiring[k]
       ELSE CHOOSE w \in Blocking(S, k) : TRUE]
  /\ idle' = idle \ S
  /\ newer' = [w \in Worker |-> IF w \in S THEN {} ELSE newer[w] \ S]
  /\ holder' = [w \in Worker |-> IF w \in S THEN NoTurn ELSE holder[w]]
  /\ written' = written \ S
  /\ reply' = [w \in Worker |-> IF w \in S THEN NoTurn ELSE reply[w]]
  /\ inbox' = [w \in Worker |-> IF w \in S THEN <<>> ELSE inbox[w]]
  /\ UNCHANGED <<exit, drained>>

\* The turns S settle: each still holds its slot until it is released.
Settle(S) ==
  /\ pc' = [t \in Turn |-> IF t \in S THEN "leaving" ELSE pc[t]]
  /\ on' = [t \in Turn |-> IF t \in S THEN NoTurn ELSE on[t]]

\* Defect: the pending turn of a retired worker is dropped without an answer.
RetireSilently(w) ==
  /\ Retire({w})
  /\ UNCHANGED <<pc, on, queueVars, tailDone, aborted, waiting, admitted,
                 answer, closeVars>>

\* retire() called for a live worker because of something the worker did.
RetireWorker(w) ==
  /\ Retire({w}) /\ Settle(Losers({w}))
  /\ UNCHANGED <<queueVars, tailDone, aborted, waiting, admitted, answer, closeVars>>

Touch(w) == newer' = [v \in Worker |->
  IF v = w THEN {}
  ELSE IF exit[v] # "none" /\ v \notin dead THEN newer[v] \cup {w}
  ELSE newer[v]]

-----------------------------------------------------------------------------
(* The event loop.                                                         *)

\* Defect for the mutation runs: the tail forgets the turn it was queued behind.
TailOfItselfOnly(t) == pc[t] = "done"

\* The tail of a turn resolves when the turn has settled and the tail it was
\* queued behind has resolved: an aborted turn lets nobody overtake.
TailCovers(t) == pc[t] = "done" /\ (prev[t] = NoTurn \/ prev[t] \in tailDone)

\* The pool reacts to the exit of a worker it has not retired: at once when
\* the exit is unconfirmed, and otherwise when stdout has ended and no answer
\* waits for its write.
ExitCalls(w) ==
  /\ w \notin dead
  /\ \/ exit[w] = "rejected"
     \/ /\ exit[w] = "resolved" /\ w \in drained
        /\ reply[w] = NoTurn \/ w \in written

\* A reaction of turn t is queued.
Queued(t) ==
  \/ pc[t] \in {"ready", "granted", "starting", "given", "leaving"}
  \/ pc[t] = "queued" /\ prev[t] \in tailDone
  \/ pc[t] \in {"blocked", "evicting"} /\ exit[on[t]] # "pending"

\* No reaction is queued: the next event from outside may be delivered.
Quiet ==
  /\ \A t \in Turn : ~Queued(t) /\ (TailCovers(t) => t \in tailDone)
  /\ \A w \in Worker : ~ExitCalls(w)

\* start() runs without an await until the worker is spawned or waits: nobody
\* but the turns S comes in between.
Undisturbed(S) == \A u \in Turn \ S : pc[u] # "starting"

\* A reaction of t may run now: it was queued before that of any turn that is
\* about to receive the worker it started.
MayRun(t) ==
  /\ Undisturbed({t})
  /\ \A u \in Turn \ {t} : pc[u] = "given" => t \in ahead[u]

\* After a step of t its next reaction is behind all others, unless it goes
\* on without an await; a worker it started is handed over after whatever is
\* queued by then.
Requeue(t) == ahead' = [u \in Turn |->
  IF u = t
  THEN IF pc'[t] = "given" THEN {v \in Turn \ {t} : Queued(v)} ELSE {}
  ELSE IF pc'[t] \in {"granted", "starting"} THEN ahead[u] ELSE ahead[u] \ {t}]

-----------------------------------------------------------------------------
(* The turn: its place in the conversation, and admission.                 *)

\* Defect: one turn too many is admitted.
AdmitOneMore(t) ==
  IF Stopped(t)
  THEN pc' = [pc EXCEPT ![t] = "done"] /\ UNCHANGED <<admitted, waiting>>
  ELSE IF admitted <= Limit /\ waiting = <<>>
  THEN /\ pc' = [pc EXCEPT ![t] = "granted"]
       /\ admitted' = admitted + 1 /\ UNCHANGED waiting
  ELSE /\ pc' = [pc EXCEPT ![t] = "waiting"]
       /\ waiting' = Append(waiting, t) /\ UNCHANGED admitted

\* Admission, with the turn in its first step or its predecessors settled.
AdmitRun(t) ==
  IF Stopped(t)
  THEN pc' = [pc EXCEPT ![t] = "done"] /\ UNCHANGED <<admitted, waiting>>
  ELSE IF admitted < Limit /\ waiting = <<>>
  THEN /\ pc' = [pc EXCEPT ![t] = "granted"]
       /\ admitted' = admitted + 1 /\ UNCHANGED waiting
  ELSE /\ pc' = [pc EXCEPT ![t] = "waiting"]
       /\ waiting' = Append(waiting, t) /\ UNCHANGED admitted

\* turn() is called.  Behind an unsettled tail of its conversation the turn
\* queues without a slot, otherwise it asks for admission at once.
Arrive(t) ==
  LET k == KeyOf[t] IN
  /\ Undisturbed({}) /\ pc[t] = "new" /\ ~Stopped(t)
  /\ prev' = [prev EXCEPT ![t] = keyTail[k]] /\ keyTail' = [keyTail EXCEPT ![k] = t]
  /\ arrivals' = [arrivals EXCEPT ![k] = Append(@, t)]
  /\ IF keyTail[k] = NoTurn
       THEN AdmitRun(t)
       ELSE pc' = [pc EXCEPT ![t] = "queued"] /\ UNCHANGED <<admitted, waiting>>
  /\ ahead' = [u \in Turn |->
       IF pc[u] = "given" /\ pc'[t] = "granted" THEN ahead[u] \cup {t} ELSE ahead[u]]
  /\ UNCHANGED <<tailDone, aborted, on, answer, workerVars, closeVars>>

\* waitForTurn: the tail of the predecessor has resolved.
PredecessorsSettled(t) ==
  /\ pc[t] = "queued" /\ prev[t] \in tailDone /\ pc' = [pc EXCEPT ![t] = "ready"]
  /\ UNCHANGED <<queueVars, tailDone, aborted, waiting, admitted, on, answer,
                 workerVars, closeVars>>

Admit(t) ==
  /\ pc[t] = "ready" /\ AdmitRun(t)
  /\ UNCHANGED <<queueVars, tailDone, aborted, on, answer, workerVars, closeVars>>

\* Defect: the slot is handed on and counted as free as well.
ReleaseTwice(t) ==
  /\ pc[t] = "leaving" /\ admitted' = admitted - 1
  /\ IF waiting = <<>>
       THEN pc' = [pc EXCEPT ![t] = "done"] /\ UNCHANGED waiting
       ELSE /\ pc' = [pc EXCEPT ![t] = "done", ![Head(waiting)] = "granted"]
            /\ waiting' = Tail(waiting)
  /\ UNCHANGED <<queueVars, tailDone, aborted, on, answer, workerVars, closeVars>>

\* Defect: the slot is freed although a turn waits for it.
ReleaseForgetsWaiter(t) ==
  /\ pc[t] = "leaving" /\ admitted' = admitted - 1 /\ pc' = [pc EXCEPT ![t] = "done"]
  /\ UNCHANGED <<queueVars, waiting, tailDone, aborted, on, answer, workerVars,
                 closeVars>>

\* release(): the slot goes to the oldest waiter, or is freed.
Release(t) ==
  /\ pc[t] = "leaving"
  /\ IF waiting = <<>>
       THEN /\ admitted' = admitted - 1
            /\ pc' = [pc EXCEPT ![t] = "done"] /\ UNCHANGED waiting
       ELSE /\ pc' = [pc EXCEPT ![t] = "done", ![Head(waiting)] = "granted"]
            /\ waiting' = Tail(waiting) /\ UNCHANGED admitted
  /\ UNCHANGED <<queueVars, tailDone, aborted, on, answer, workerVars, closeVars>>

TailResolves(t) ==
  /\ t \notin tailDone /\ TailCovers(t) /\ tailDone' = tailDone \cup {t}
  /\ keyTail' = [k \in Key |-> IF keyTail[k] = t THEN NoTurn ELSE keyTail[k]]
  /\ UNCHANGED <<pc, prev, arrivals, aborted, waiting, admitted, on, answer,
                 workerVars, closeVars>>

-----------------------------------------------------------------------------
(* The turn: finding its worker.                                           *)

\* Turn t takes the live worker w, which has nothing pending: its text is
\* on its way, and the idle timer is off.
Deliver(t, w) ==
  /\ holder' = [holder EXCEPT ![w] = t] /\ inbox' = [inbox EXCEPT ![w] = Append(@, t)]
  /\ idle' = idle \ {w} /\ pc' = [pc EXCEPT ![t] = "sent"]
  /\ on' = [on EXCEPT ![t] = w]
  /\ UNCHANGED <<workers, allWorkers, retiring, dead, exit, drained, written,
                 reply, newer>>

Active(k) == \E w \in allWorkers : KeyOf[w] = k /\ holder[w] # NoTurn

\* runTurn up to its first await.  A resident worker with another policy is
\* retired, a retiring worker is waited for, a resident worker is used.
RunTurn(t) ==
  LET k        == KeyOf[t]
      existing == workers[k]
      mismatch == existing # NoTurn /\ PolicyOf[existing] # PolicyOf[t]
  IN
  /\ pc[t] = "granted"
  /\ IF Stopped(t) \/ (mismatch /\ holder[existing] # NoTurn)
     THEN Settle({t}) /\ UNCHANGED workerVars
     ELSE IF mismatch
     THEN /\ Retire({existing})
          /\ pc' = [pc EXCEPT ![t] = "blocked"] /\ on' = [on EXCEPT ![t] = existing]
     ELSE IF retiring[k] # NoTurn
     THEN /\ pc' = [pc EXCEPT ![t] = "blocked"]
          /\ on' = [on EXCEPT ![t] = retiring[k]] /\ UNCHANGED workerVars
     ELSE IF Active(k)
     THEN Settle({t}) /\ UNCHANGED workerVars
     ELSE IF existing # NoTurn
     THEN Deliver(t, existing)
     ELSE pc' = [pc EXCEPT ![t] = "starting"] /\ UNCHANGED <<on, workerVars>>
  /\ UNCHANGED <<queueVars, tailDone, aborted, waiting, admitted, answer, closeVars>>

Residents == {workers[k] : k \in Key} \ {NoTurn}

\* Defect: a retired worker whose sandbox may still be there does not count.
CountedResidents == Residents

\* The workers that count against Limit when another one is to be started.
Counted == IF RequireSandboxCleanup THEN allWorkers ELSE Residents
Full == Cardinality(Counted) >= Limit
Spare == {w \in Residents : holder[w] = NoTurn}

\* Defect: the most recently used spare worker is evicted.
Newest(w) == w \in Spare /\ \A v \in Spare \ {w} : w \in newer[v]

\* The spare worker that was used least recently.
Oldest(w) == w \in Spare /\ \A v \in Spare \ {w} : v \in newer[w]

\* start() at capacity retires the least recently used spare worker; with
\* sandbox cleanup it also waits until that worker is proven gone.
Evict(t, w) ==
  /\ pc[t] = "starting" /\ Full /\ Oldest(w) /\ Retire({w})
  /\ IF ~RequireSandboxCleanup
     THEN UNCHANGED <<pc, on>>
     ELSE IF Stopped(t) THEN Settle({t})
     ELSE /\ pc' = [pc EXCEPT ![t] = "evicting"]
          /\ on' = [on EXCEPT ![t] = w]
  /\ UNCHANGED <<queueVars, tailDone, aborted, waiting, admitted, answer, closeVars>>

\* start() at capacity with nothing to evict waits for a dying worker; it
\* fails ("Messenger worker capacity reached") when there is none.
AwaitCapacity(t) ==
  LET dying == IF RequireSandboxCleanup THEN allWorkers \cap dead ELSE {} IN
  /\ pc[t] = "starting" /\ Full /\ Spare = {}
  /\ IF dying = {} \/ Stopped(t)
     THEN Settle({t})
     ELSE \E w \in dying :
            /\ pc' = [pc EXCEPT ![t] = "evicting"] /\ on' = [on EXCEPT ![t] = w]
  /\ UNCHANGED <<queueVars, tailDone, aborted, waiting, admitted, answer,
                 workerVars, closeVars>>

\* Defect: the pool may have been closed during the wait for capacity.
SpawnUnchecked(t) ==
  /\ pc[t] = "starting" /\ ~Full /\ workers' = [workers EXCEPT ![KeyOf[t]] = t]
  /\ allWorkers' = allWorkers \cup {t} /\ exit' = [exit EXCEPT ![t] = "pending"]
  /\ Touch(t) /\ pc' = [pc EXCEPT ![t] = "given"] /\ on' = [on EXCEPT ![t] = t]
  /\ UNCHANGED <<retiring, dead, drained, pendingVars, idle, queueVars,
                 tailDone, aborted, waiting, admitted, answer, closeVars>>

\* start() below capacity spawns the worker, unless the turn was stopped while
\* start() waited.
Spawn(t) ==
  /\ pc[t] = "starting" /\ ~Full
  /\ IF Stopped(t)
     THEN Settle({t}) /\ UNCHANGED workerVars
     ELSE /\ workers' = [workers EXCEPT ![KeyOf[t]] = t]
          /\ allWorkers' = allWorkers \cup {t}
          /\ exit' = [exit EXCEPT ![t] = "pending"] /\ Touch(t)
          /\ pc' = [pc EXCEPT ![t] = "given"] /\ on' = [on EXCEPT ![t] = t]
          /\ UNCHANGED <<retiring, dead, drained, pendingVars, idle>>
  /\ UNCHANGED <<queueVars, tailDone, aborted, waiting, admitted, answer, closeVars>>

\* The worker that start() returned reaches runTurn, unless it was retired or
\* the turn was stopped in between.
TakeWorker(t) ==
  LET w == on[t] IN
  /\ pc[t] = "given"
  /\ IF Stopped(t) \/ w \in dead
     THEN /\ Retire({w} \ dead)
          /\ Settle({t} \cup Losers({w} \ dead))
     ELSE IF holder[w] # NoTurn
     THEN Settle({t}) /\ UNCHANGED workerVars
     ELSE Deliver(t, w)
  /\ UNCHANGED <<queueVars, tailDone, aborted, waiting, admitted, answer, closeVars>>

-----------------------------------------------------------------------------
(* waitForExit: the exit is confirmed, cannot be confirmed, or takes too    *)
(* long.                                                                   *)

AwaitsExit(t) == pc[t] \in {"blocked", "evicting"} /\ exit[on[t]] = "pending"

ExitConfirmed(t) ==
  /\ pc[t] \in {"blocked", "evicting"} /\ exit[on[t]] = "resolved"
  /\ pc' = [pc EXCEPT ![t] = IF @ = "blocked" THEN "granted" ELSE "starting"]
  /\ on' = [on EXCEPT ![t] = NoTurn]
  /\ UNCHANGED <<queueVars, tailDone, aborted, waiting, admitted, answer,
                 workerVars, closeVars>>

ExitUnconfirmed(t) ==
  /\ pc[t] \in {"blocked", "evicting"} /\ exit[on[t]] = "rejected" /\ Settle({t})
  /\ UNCHANGED <<queueVars, tailDone, aborted, waiting, admitted, answer,
                 workerVars, closeVars>>

ExitTimeout(t) ==
  /\ Quiet /\ AwaitsExit(t) /\ Settle({t})
  /\ UNCHANGED <<queueVars, tailDone, aborted, waiting, admitted, answer,
                 workerVars, closeVars>>

-----------------------------------------------------------------------------
(* The caller aborts.                                                      *)

AbortSignal(t) ==
  /\ t \in Abortable \ aborted /\ aborted' = aborted \cup {t}
  /\ UNCHANGED <<queueVars, tailDone, admitted, answer, closeVars>>

\* The turn has no slot yet: it gives up its place and settles.
AbortQueued(t) ==
  /\ AbortSignal(t) /\ pc[t] \in {"queued", "waiting"}
  /\ pc' = [pc EXCEPT ![t] = "done"]
  /\ IF pc[t] = "queued"
       THEN UNCHANGED waiting
       ELSE \E i \in DOMAIN waiting : waiting[i] = t /\ waiting' = Splice(waiting, i)
  /\ UNCHANGED <<on, workerVars>>

AbortAtExit(t) ==
  /\ AbortSignal(t) /\ AwaitsExit(t) /\ Settle({t})
  /\ UNCHANGED <<waiting, workerVars>>

\* A reaction of the turn is queued: it reads its signal at the next check.
AbortNoted(t) ==
  /\ AbortSignal(t) /\ pc[t] \in {"ready", "granted", "given", "blocked", "evicting"}
  /\ ~AwaitsExit(t) /\ UNCHANGED <<pc, on, waiting, workerVars>>

\* Defect: the turn is rejected but its worker serves on.
AbortSentKeepsWorker(t) ==
  /\ AbortSignal(t) /\ pc[t] = "sent" /\ holder' = [holder EXCEPT ![on[t]] = NoTurn]
  /\ written' = written \ {on[t]} /\ reply' = [reply EXCEPT ![on[t]] = NoTurn]
  /\ Settle({t})
  /\ UNCHANGED <<waiting, residentVars, exit, drained, inbox>>

\* The worker has the turn's text: it is retired with it.
AbortSent(t) ==
  /\ AbortSignal(t) /\ pc[t] = "sent" /\ Retire({on[t]}) /\ Settle(Losers({on[t]}))
  /\ UNCHANGED waiting

Abort(t) == AbortQueued(t) \/ AbortAtExit(t) \/ AbortNoted(t) \/ AbortSent(t)

-----------------------------------------------------------------------------
(* The worker and its process.                                             *)

\* finishTurn: the input of the pending turn is written and its answer r is
\* known.  The worker stays for the next turn unless its process is gone.
FinishTurn(w, r, rest) ==
  /\ answer' = [answer EXCEPT ![holder[w]] = r] /\ Settle({holder[w]})
  /\ IF exit[w] = "resolved"
     THEN Retire({w})
     ELSE /\ holder' = [holder EXCEPT ![w] = NoTurn]
          /\ written' = written \ {w} /\ reply' = [reply EXCEPT ![w] = NoTurn]
          /\ inbox' = [inbox EXCEPT ![w] = rest] /\ idle' = idle \cup {w} /\ Touch(w)
          /\ UNCHANGED <<workers, allWorkers, retiring, dead, exit, drained>>

\* write() and flush() of the pending input settle.
InputWritten(w) ==
  /\ holder[w] # NoTurn /\ w \notin written
  /\ IF reply[w] # NoTurn
     THEN FinishTurn(w, reply[w], inbox[w])
     ELSE /\ written' = written \cup {w}
          /\ UNCHANGED <<residentVars, exit, drained, holder, reply, inbox, pc,
                         on, answer>>
  /\ UNCHANGED <<queueVars, tailDone, aborted, waiting, admitted, closeVars>>

\* The process answers the oldest text it has read (a RESULT or an UNVERIFIED
\* line).  The line belongs to whatever turn is pending when it is read.
Answer(w) ==
  LET r == Head(inbox[w]) IN
  /\ inbox[w] # <<>> /\ w \notin drained
  /\ IF holder[w] # NoTurn /\ w \in written
     THEN FinishTurn(w, r, Tail(inbox[w]))
     ELSE /\ reply' = IF holder[w] = NoTurn THEN reply ELSE [reply EXCEPT ![w] = r]
          /\ inbox' = [inbox EXCEPT ![w] = Tail(@)]
          /\ UNCHANGED <<residentVars, exit, drained, holder, written, pc, on, answer>>
  /\ UNCHANGED <<queueVars, tailDone, aborted, waiting, admitted, closeVars>>

InputFails(w) == holder[w] # NoTurn /\ w \notin written /\ RetireWorker(w)

\* An error line, an unusable result, oversized output or a broken stream.
WorkerFault(w) ==
  /\ exit[w] # "none" /\ w \notin dead /\ RetireWorker(w)

IdleTimeout(w) == w \in idle /\ RetireWorker(w)

StdoutEnds(w) ==
  /\ exit[w] # "none" /\ w \notin drained /\ drained' = drained \cup {w}
  /\ UNCHANGED <<turnVars, residentVars, exit, pendingVars, closeVars>>

\* The exit promise resolves: the process ended, and with sandbox cleanup its
\* streams ended too and it had acknowledged that its sandbox is gone.
ExitResolves(w) ==
  /\ exit[w] = "pending"
  /\ RequireSandboxCleanup => w \in drained
  /\ exit' = [exit EXCEPT ![w] = "resolved"]
  /\ allWorkers' = IF RequireSandboxCleanup THEN allWorkers \ {w} ELSE allWorkers
  /\ workers' = [k \in Key |-> IF workers[k] = w THEN NoTurn ELSE workers[k]]
  /\ retiring' = [k \in Key |-> IF retiring[k] = w THEN NoTurn ELSE retiring[k]]
  /\ UNCHANGED <<turnVars, dead, idle, newer, drained, pendingVars, closeVars>>

\* The exit cannot be confirmed: without an acknowledgement, or when the
\* process cannot be inspected.
ExitRejects(w) ==
  /\ exit[w] = "pending" /\ exit' = [exit EXCEPT ![w] = "rejected"]
  /\ UNCHANGED <<turnVars, residentVars, drained, pendingVars, closeVars>>

ReactToExit(w) == ExitCalls(w) /\ RetireWorker(w)

\* exitTimer: the pipes of a process that is gone stayed open too long.
ExitTimer(w) ==
  /\ exit[w] = "resolved" /\ w \notin dead /\ RetireWorker(w)

-----------------------------------------------------------------------------
(* close().                                                                *)

Close ==
  /\ closing = "open" /\ closed' = TRUE /\ closing' = "graceful"
  /\ Retire(allWorkers \ dead)
  /\ LET stopped == Losers(allWorkers \ dead)
                    \cup {t \in Turn : AwaitsExit(t)}
     IN  /\ pc' = [t \in Turn |-> IF t \in stopped THEN "leaving"
                                  ELSE IF pc[t] \in {"queued", "waiting"} THEN "done"
                                  ELSE pc[t]]
         /\ on' = [t \in Turn |-> IF t \in stopped THEN NoTurn ELSE on[t]]
  /\ waiting' = <<>>
  /\ UNCHANGED <<queueVars, tailDone, aborted, admitted, answer>>

AllExitsSettled == \A w \in Worker : exit[w] # "pending"
Unverified == RequireSandboxCleanup /\ \E w \in Worker : exit[w] = "rejected"

CloseReturns ==
  /\ closing \in {"graceful", "forced"} /\ AllExitsSettled
  /\ closing' = IF Unverified THEN "failed" ELSE "closed"
  /\ UNCHANGED <<turnVars, workerVars, closed>>

\* The workers get shutdownTimeoutMs, and once more after the forced kill.
CloseTimeout ==
  /\ Quiet /\ closing \in {"graceful", "forced"} /\ ~AllExitsSettled
  /\ closing' = IF closing = "graceful" /\ ~RequireSandboxCleanup
                THEN "forced" ELSE "failed"
  /\ UNCHANGED <<turnVars, workerVars, closed>>

-----------------------------------------------------------------------------
\* The reactions of the program on behalf of turn t.
TurnStep(t) ==
  /\ MayRun(t)
  /\ \/ PredecessorsSettled(t) \/ Admit(t) \/ Release(t)
     \/ RunTurn(t) \/ AwaitCapacity(t) \/ Spawn(t) \/ TakeWorker(t)
     \/ ExitConfirmed(t) \/ ExitUnconfirmed(t)
     \/ \E w \in Worker : Evict(t, w)
  /\ Requeue(t)

\* What the event loop delivers about worker w.
WorkerEvent(w) ==
  /\ Quiet
  /\ \/ Answer(w) \/ WorkerFault(w) \/ IdleTimeout(w) \/ StdoutEnds(w)
     \/ ExitResolves(w) \/ ExitRejects(w) \/ ExitTimer(w)

\* All turns are over and close() is not running: nothing need happen.
Terminating ==
  /\ \A t \in Turn : t \in tailDone \/ (pc[t] = "new" /\ closed)
  /\ closing \notin {"graceful", "forced"} /\ UNCHANGED vars

\* What happens besides: tails resolve, writes settle, the event loop delivers
\* events and timers, callers abort turns and close the pool.
OtherStep ==
  /\ Undisturbed({})
  /\ \/ \E t \in Turn : TailResolves(t) \/ ExitTimeout(t) \/ Abort(t)
     \/ \E w \in Worker :
          InputWritten(w) \/ InputFails(w) \/ ReactToExit(w) \/ WorkerEvent(w)
     \/ Close \/ CloseReturns \/ CloseTimeout
  /\ UNCHANGED ahead

Next ==
  \/ \E t \in Turn : Arrive(t) \/ TurnStep(t)
  \/ OtherStep
  \/ Terminating

\* A worker that has read a text answers it, or its process ends.
Responds(w) ==
  Answer(w) \/ (w \in drained /\ (ExitResolves(w) \/ ExitRejects(w)))

\* A as one of the other steps.
Besides(A) == Undisturbed({}) /\ A /\ UNCHANGED ahead

\* The event loop runs every reaction it has queued, timers fire, writes
\* settle and worker processes respond.  Callers need not call, abort or
\* close.
Fairness ==
  /\ \A t \in Turn : /\ WF_vars(TurnStep(t))
                     /\ WF_vars(Besides(TailResolves(t)))
                     /\ WF_vars(Besides(ExitTimeout(t)))
  /\ \A w \in Worker : /\ WF_vars(Besides(InputWritten(w)))
                       /\ WF_vars(Besides(ReactToExit(w)))
                       /\ WF_vars(Besides(Quiet /\ Responds(w)))
                       /\ WF_vars(Besides(Quiet /\ ExitTimer(w)))
  /\ WF_vars(Besides(CloseReturns)) /\ WF_vars(Besides(CloseTimeout))

Spec == Init /\ [][Next]_vars /\ Fairness

-----------------------------------------------------------------------------
(* Properties.                                                             *)

TurnTypes ==
  /\ pc \in [Turn -> Steps] /\ prev \in [Turn -> MaybeTurn] /\ tailDone \subseteq Turn
  /\ keyTail \in [Key -> MaybeTurn] /\ aborted \subseteq Turn /\ waiting \in Seq(Turn)
  /\ admitted \in Nat /\ ahead \in [Turn -> SUBSET Turn] /\ on \in [Turn -> MaybeTurn]
  /\ answer \in [Turn -> MaybeTurn] /\ arrivals \in [Key -> Seq(Turn)]

WorkerTypes ==
  /\ workers \in [Key -> MaybeTurn] /\ allWorkers \subseteq Worker
  /\ retiring \in [Key -> MaybeTurn] /\ dead \subseteq Worker
  /\ exit \in [Worker -> {"none", "pending", "resolved", "rejected"}]
  /\ drained \subseteq Worker /\ holder \in [Worker -> MaybeTurn]
  /\ written \subseteq Worker /\ reply \in [Worker -> MaybeTurn]
  /\ idle \subseteq Worker /\ newer \in [Worker -> SUBSET Worker]
  /\ inbox \in [Worker -> Seq(Turn)]

CloseTypes ==
  /\ closed \in BOOLEAN
  /\ closing \in {"open", "graceful", "forced", "closed", "failed"}

\* Every variable stays within its type; in particular the count of slots in
\* use never drops below zero.
TypeOK == TurnTypes /\ WorkerTypes /\ CloseTypes

\* The turns that hold a slot.
Holding == {t \in Turn : pc[t] \in Admitted}

\* Admission never loses or invents a slot: the count is the number of turns
\* that hold one, it stays within Limit, and nobody waits while one is free.
SlotAccounting ==
  /\ admitted = Cardinality(Holding) /\ admitted <= Limit
  /\ waiting # <<>> => admitted = Limit

\* Turns of one conversation run strictly in arrival order, one at a time:
\* when a turn has left the queue, every earlier one has settled, even when
\* turns between them were aborted (the keyTails of turn()).
InArrivalOrder ==
  \A k \in Key : \A j \in DOMAIN arrivals[k] : \A i \in 1..(j - 1) :
    pc[arrivals[k][j]] \in InTurn => pc[arrivals[k][i]] = "done"

MayBeAlive(w) == exit[w] \in {"pending", "rejected"}

\* A conversation never gets a second process while an earlier one may still
\* be alive, whether that one was evicted, aborted, timed out or replaced: of
\* the processes started for two of its turns one is proven gone (runTurn and
\* start wait for the old exit).
OneProcessPerKey ==
  \A k \in Key : \A i, j \in DOMAIN arrivals[k] :
    i # j => ~(MayBeAlive(arrivals[k][i]) /\ MayBeAlive(arrivals[k][j]))

\* With sandbox cleanup, processes that are not proven gone count against the
\* limit, the retired ones included.
ProtectedProcessesBounded ==
  RequireSandboxCleanup => Cardinality({w \in Worker : MayBeAlive(w)}) <= Limit

\* A turn is never resolved with the answer to another turn's text, although
\* the answer of an aborted turn may still arrive (an abort retires the worker).
OwnAnswer == \A t \in Turn : answer[t] \in {NoTurn, t}

\* An admitted turn always finds a place for its worker: "capacity reached"
\* is never the answer to it.
CapacityForAdmitted ==
  \A t \in Turn : pc[t] = "starting" /\ Full =>
    Spare # {} \/ (RequireSandboxCleanup /\ allWorkers \cap dead # {})

\* When close() has returned, no process is left, and none is started later.
CloseConfirmsExits ==
  closing = "closed" =>
    \A w \in Worker : /\ exit[w] # "pending"
                      /\ RequireSandboxCleanup => exit[w] # "rejected"

\* A worker that was started for a turn is not taken away to make room for
\* another turn before it has reached its own: a busy pool makes a request
\* wait, it does not fail it.
StartedWorkerServesItsTurn ==
  \A t \in Turn : pc[t] = "given" /\ ~Stopped(t) => on[t] \notin dead

\* Every turn that was called settles.
EveryTurnSettles == \A t \in Turn : pc[t] # "new" ~> pc[t] = "done"

\* The pool's admission is the abstract slot queue.
Slots == INSTANCE SlotQueue WITH
  Client <- Turn, running <- Holding, line <- waiting
AdmissionIsSlotQueue == Slots!Spec
=============================================================================

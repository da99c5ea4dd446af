----------------------- MODULE SessionPoolTurnProofs -----------------------
(***************************************************************************)
(* More proofs about the messenger session pool: the order of the turns of *)
(* a conversation, the one process it may have, whose answer a turn gets,  *)
(* room for admitted turns, and what close() confirms.                     *)
(*                                                                         *)
(* None of these holds by itself from step to step.  The order of turns    *)
(* rests on what the tails say of the turns that arrived (ArrivalsOK,      *)
(* TailsOK, PrevOK).  That a conversation has one process rests on that    *)
(* order, on workers and retiring naming every process that may be alive   *)
(* (WorkersOK), on a turn starting only one (StartedOK) and on the wait    *)
(* before it starts it (NoneBefore).  Together they are inductive (Inv).   *)
(***************************************************************************)
EXTENDS SessionPoolProofs

\* The turns of a conversation have arrived once each.
ArrivalsOK ==
  /\ \A k \in Key : \A i \in DOMAIN arrivals[k] :
       KeyOf[arrivals[k][i]] = k /\ pc[arrivals[k][i]] # "new"
  /\ \A k \in Key : \A i, j \in DOMAIN arrivals[k] :
       arrivals[k][i] = arrivals[k][j] => i = j
  /\ \A t \in Turn : pc[t] # "new" =>
       \E i \in DOMAIN arrivals[KeyOf[t]] : arrivals[KeyOf[t]][i] = t

\* Tails resolve in order, after their turns have settled, and a conversation
\* without a tail has none that is unresolved.
TailsOK ==
  /\ \A t \in tailDone : pc[t] = "done"
  /\ \A k \in Key : \A j \in DOMAIN arrivals[k] : \A i \in 1..(j - 1) :
       arrivals[k][j] \in tailDone => arrivals[k][i] \in tailDone
  /\ \A k \in Key :
       IF keyTail[k] = NoTurn
       THEN \A i \in DOMAIN arrivals[k] : arrivals[k][i] \in tailDone
       ELSE arrivals[k] # <<>> /\ keyTail[k] = arrivals[k][Len(arrivals[k])]

\* A turn is queued behind the one that arrived before it, or behind nobody
\* because all earlier tails have resolved.
PrevOK ==
  \A k \in Key : \A j \in DOMAIN arrivals[k] :
    IF prev[arrivals[k][j]] = NoTurn
    THEN \A i \in 1..(j - 1) : arrivals[k][i] \in tailDone
    ELSE j > 1 /\ prev[arrivals[k][j]] = arrivals[k][j - 1]

OrderInv == ArrivalsOK /\ TailsOK /\ PrevOK /\ InArrivalOrder

\* Every process that may be alive is the resident worker of its conversation
\* or the worker whose exit blocks it.
WorkersOK ==
  /\ \A k \in Key : workers[k] # NoTurn =>
       /\ KeyOf[workers[k]] = k /\ workers[k] \in allWorkers \ dead
       /\ MayBeAlive(workers[k])
  /\ \A k \in Key : retiring[k] # NoTurn =>
       /\ KeyOf[retiring[k]] = k /\ retiring[k] \in dead
       /\ MayBeAlive(retiring[k])
  /\ \A w \in Worker : MayBeAlive(w) =>
       workers[KeyOf[w]] = w \/ retiring[KeyOf[w]] = w

OneAlive ==
  \A w, v \in Worker :
    KeyOf[w] = KeyOf[v] /\ MayBeAlive(w) /\ MayBeAlive(v) => w = v

Started == {w \in Worker : exit[w] # "none"}

\* A turn starts one worker, and is served by a worker of its conversation.
StartedOK ==
  /\ \A t \in Started : pc[t] \in {"given", "sent", "leaving", "done"}
  /\ \A t \in Turn : pc[t] \in {"given", "sent"} =>
       on[t] \in Started /\ KeyOf[on[t]] = KeyOf[t]
  /\ dead \subseteq Started /\ idle \subseteq Started /\ allWorkers \subseteq Started

\* A turn that is about to start a worker has waited for the last one.
NoneBefore ==
  \A t \in Turn : pc[t] \in {"starting", "evicting"} =>
    \A w \in Worker : KeyOf[w] = KeyOf[t] => ~MayBeAlive(w)

ProcessInv == WorkersOK /\ OneAlive /\ StartedOK /\ NoneBefore

Inv == PoolInv /\ OrderInv /\ ProcessInv

-----------------------------------------------------------------------------
(* The life of a turn.                                                     *)

Life(t) ==
  \/ pc'[t] = pc[t] /\ (pc[t] \in {"given", "sent"} => on'[t] = on[t])
  \/ pc[t] = "new" /\ Arrive(t) /\ pc'[t] \in {"queued", "granted", "waiting"}
  \/ pc[t] = "queued" /\ prev[t] \in tailDone /\ pc'[t] = "ready"
  \/ pc[t] \in {"queued", "waiting", "leaving"} /\ pc'[t] = "done"
  \/ pc[t] = "ready" /\ pc'[t] \in {"done", "granted", "waiting"}
  \/ pc[t] \in {"waiting", "blocked"} /\ pc'[t] = "granted"
  \/ pc[t] \in Admitted /\ pc'[t] = "leaving"
  \/ pc[t] = "granted" /\ pc'[t] = "blocked"
  \/ /\ pc[t] = "granted" /\ pc'[t] = "starting"
     /\ workers[KeyOf[t]] = NoTurn /\ retiring[KeyOf[t]] = NoTurn
  \/ /\ pc[t] = "granted" /\ pc'[t] = "sent"
     /\ workers[KeyOf[t]] # NoTurn /\ on'[t] = workers[KeyOf[t]]
  \/ pc[t] = "starting" /\ pc'[t] = "evicting"
  \/ pc[t] = "evicting" /\ pc'[t] = "starting"
  \/ pc[t] = "starting" /\ pc'[t] = "given" /\ ~Stopped(t) /\ Spawn(t)
  \/ pc[t] = "given" /\ pc'[t] = "sent" /\ on'[t] = on[t]

\* Turns that settle give up what they did; the others stay where they are.
LEMMA SettleLives ==
  ASSUME TypeOK, NEW S \in SUBSET Holding, Settle(S)
  PROVE  \A t \in Turn : Life(t)
<1> SUFFICES ASSUME NEW t \in Turn PROVE Life(t)
  OBVIOUS
<1>1. CASE t \in S
  <2>1. pc[t] \in Admitted /\ pc'[t] = "leaving"
    BY <1>1 DEF Settle, Holding
  <2> QED
    BY <2>1 DEF Life
<1>2. CASE t \notin S
  <2>1. pc'[t] = pc[t] /\ on'[t] = on[t]
    BY <1>2 DEF Settle
  <2> QED
    BY <2>1 DEF Life
<1> QED
  BY <1>1, <1>2

LEMMA StillLives ==
  ASSUME UNCHANGED <<pc, on>>
  PROVE  \A t \in Turn : Life(t)
BY DEF Life

\* One turn moves on.
LEMMA MoveLives ==
  ASSUME TypeOK, NEW t \in Turn, Life(t), NEW s, pc' = [pc EXCEPT ![t] = s],
         \A u \in Turn \ {t} : on'[u] = on[u]
  PROVE  \A u \in Turn : Life(u)
<1> SUFFICES ASSUME NEW u \in Turn, u # t PROVE Life(u)
  OBVIOUS
<1>1. pc'[u] = pc[u] /\ on'[u] = on[u]
  BY DEF TypeOK, TurnTypes
<1> QED
  BY <1>1 DEF Life

LEMMA AdmitRunLives ==
  ASSUME TypeOK, NEW t \in Turn, AdmitRun(t), on' = on,
         pc[t] = "ready" \/ (pc[t] = "new" /\ Arrive(t))
  PROVE  \A u \in Turn : Life(u)
<1>1. pc \in [Turn -> Steps]
  BY DEF TypeOK, TurnTypes
<1>2. PICK s \in {"done", "granted", "waiting"} :
        pc' = [pc EXCEPT ![t] = s] /\ (s = "done" => Stopped(t))
  BY DEF AdmitRun
<1>3. pc'[t] = s
  BY <1>1, <1>2
<1>4. Life(t)
  BY <1>2, <1>3 DEF Life, Arrive
<1> QED
  BY <1>2, <1>4, MoveLives

LEMMA ReleaseLives ==
  ASSUME PoolInv, NEW t \in Turn, Release(t)
  PROVE  \A u \in Turn : Life(u)
<1>1. /\ pc \in [Turn -> Steps] /\ waiting \in Seq(Turn) /\ pc[t] = "leaving"
      /\ on' = on
  BY DEF Release, PoolInv, TypeOK, TurnTypes
<1>2. CASE waiting = <<>>
  <2>1. pc' = [pc EXCEPT ![t] = "done"]
    BY <1>2 DEF Release
  <2>2. Life(t)
    BY <1>1, <2>1 DEF Life
  <2> QED
    BY <1>1, <2>1, <2>2, MoveLives DEF PoolInv
<1>3. CASE waiting # <<>>
  <2> DEFINE h == Head(waiting)
  <2>1. pc' = [pc EXCEPT ![t] = "done", ![h] = "granted"]
    BY <1>3 DEF Release
  <2>2. h \in Turn /\ pc[h] = "waiting"
    BY <1>1, <1>3 DEF PoolInv, LineOK
  <2> HIDE DEF h
  <2>3. ASSUME NEW u \in Turn PROVE Life(u)
    BY <1>1, <2>1, <2>2 DEF Life
  <2> QED
    BY <2>3
<1> QED
  BY <1>2, <1>3

LEMMA RunTurnLives ==
  ASSUME PoolInv, NEW t \in Turn, RunTurn(t)
  PROVE  \A u \in Turn : Life(u)
<1> DEFINE k == KeyOf[t]
           existing == workers[k]
           mismatch == existing # NoTurn /\ PolicyOf[existing] # PolicyOf[t]
<1>1. /\ pc[t] = "granted" /\ TypeOK /\ pc \in [Turn -> Steps]
      /\ on \in [Turn -> MaybeTurn] /\ t \in Holding
  BY DEF RunTurn, PoolInv, TypeOK, TurnTypes, Holding, Admitted
<1>2. CASE Settle({t}) /\ UNCHANGED workerVars
  BY <1>1, <1>2, SettleLives
<1>3. ASSUME NEW w, pc' = [pc EXCEPT ![t] = "blocked"], on' = [on EXCEPT ![t] = w]
      PROVE  \A u \in Turn : Life(u)
  <2>1. Life(t)
    BY <1>1, <1>3 DEF Life
  <2> QED
    BY <1>1, <1>3, <2>1, MoveLives
<1>4. CASE existing # NoTurn /\ Deliver(t, existing)
  <2>1. pc' = [pc EXCEPT ![t] = "sent"] /\ on' = [on EXCEPT ![t] = existing]
    BY <1>4 DEF Deliver
  <2>2. Life(t)
    BY <1>1, <1>4, <2>1 DEF Life
  <2> QED
    BY <1>1, <2>1, <2>2, MoveLives
<1>5. CASE /\ existing = NoTurn /\ retiring[k] = NoTurn
           /\ pc' = [pc EXCEPT ![t] = "starting"] /\ UNCHANGED <<on, workerVars>>
  <2>1. Life(t)
    BY <1>1, <1>5 DEF Life
  <2> QED
    BY <1>1, <1>5, <2>1, MoveLives
<1> QED
  BY <1>2, <1>3, <1>4, <1>5 DEF RunTurn

LEMMA StartingLives ==
  ASSUME PoolInv, NEW t \in Turn,
         AwaitCapacity(t) \/ Spawn(t) \/ \E w \in Worker : Evict(t, w)
  PROVE  \A u \in Turn : Life(u)
<1>1. /\ pc[t] = "starting" /\ TypeOK /\ pc \in [Turn -> Steps]
      /\ on \in [Turn -> MaybeTurn] /\ t \in Holding
  BY DEF AwaitCapacity, Spawn, Evict, PoolInv, TypeOK, TurnTypes, Holding, Admitted
<1>2. CASE Settle({t})
  BY <1>1, <1>2, SettleLives
<1>3. CASE UNCHANGED <<pc, on>>
  BY <1>3, StillLives
<1>4. ASSUME NEW w, pc' = [pc EXCEPT ![t] = "evicting"], on' = [on EXCEPT ![t] = w]
      PROVE  \A u \in Turn : Life(u)
  <2>1. Life(t)
    BY <1>1, <1>4 DEF Life
  <2> QED
    BY <1>1, <1>4, <2>1, MoveLives
<1>5. CASE Spawn(t) /\ ~Stopped(t)
  <2>1. pc' = [pc EXCEPT ![t] = "given"] /\ on' = [on EXCEPT ![t] = t]
    BY <1>5 DEF Spawn
  <2>2. Life(t)
    BY <1>1, <1>5, <2>1 DEF Life
  <2> QED
    BY <1>1, <2>1, <2>2, MoveLives
<1> QED
  BY <1>2, <1>3, <1>4, <1>5 DEF AwaitCapacity, Spawn, Evict

LEMMA TakeWorkerLives ==
  ASSUME PoolInv, NEW t \in Turn, TakeWorker(t)
  PROVE  \A u \in Turn : Life(u)
<1> DEFINE w == on[t]
<1>1. /\ pc[t] = "given" /\ w \in Turn /\ TypeOK /\ pc \in [Turn -> Steps]
      /\ on \in [Turn -> MaybeTurn] /\ t \in Holding
  BY DEF TakeWorker, PoolInv, OnKnown, TypeOK, TurnTypes, Holding, Admitted
<1>2. CASE Settle({t} \cup Losers({w} \ dead))
  <2>1. {w} \ dead \in SUBSET Worker
    BY <1>1 DEF Worker
  <2>2. {t} \cup Losers({w} \ dead) \in SUBSET Holding
    BY <1>1, <2>1, LosersHold DEF PoolInv
  <2> QED
    BY <1>1, <1>2, <2>2, SettleLives
<1>3. CASE Settle({t})
  BY <1>1, <1>3, SettleLives
<1>4. CASE Deliver(t, w)
  <2>1. pc' = [pc EXCEPT ![t] = "sent"] /\ on' = [on EXCEPT ![t] = w]
    BY <1>4 DEF Deliver
  <2>2. Life(t)
    BY <1>1, <2>1 DEF Life
  <2> QED
    BY <1>1, <2>1, <2>2, MoveLives
<1> QED
  BY <1>2, <1>3, <1>4 DEF TakeWorker

LEMMA ExitLives ==
  ASSUME PoolInv, NEW t \in Turn,
         ExitConfirmed(t) \/ ExitUnconfirmed(t) \/ ExitTimeout(t)
  PROVE  \A u \in Turn : Life(u)
<1>1. /\ pc[t] \in {"blocked", "evicting"} /\ TypeOK /\ pc \in [Turn -> Steps]
      /\ on \in [Turn -> MaybeTurn] /\ t \in Holding
  BY DEF ExitConfirmed, ExitUnconfirmed, ExitTimeout, AwaitsExit, PoolInv, TypeOK,
     TurnTypes, Holding, Admitted
<1>2. CASE Settle({t})
  BY <1>1, <1>2, SettleLives
<1>3. CASE ExitConfirmed(t)
  <2>1. PICK s : s = IF pc[t] = "blocked" THEN "granted" ELSE "starting"
    OBVIOUS
  <2>2. pc' = [pc EXCEPT ![t] = s] /\ on' = [on EXCEPT ![t] = NoTurn]
    BY <1>3, <2>1 DEF ExitConfirmed
  <2>3. Life(t)
    BY <1>1, <2>1, <2>2 DEF Life
  <2> QED
    BY <1>1, <2>2, <2>3, MoveLives
<1> QED
  BY <1>2, <1>3 DEF ExitUnconfirmed, ExitTimeout

LEMMA AbortLives ==
  ASSUME PoolInv, NEW t \in Turn, Abort(t)
  PROVE  \A u \in Turn : Life(u)
<1>1. TypeOK /\ pc \in [Turn -> Steps]
  BY DEF PoolInv, TypeOK, TurnTypes
<1>2. CASE AbortQueued(t)
  <2>1. /\ pc' = [pc EXCEPT ![t] = "done"] /\ on' = on
        /\ pc[t] \in {"queued", "waiting"}
    BY <1>2 DEF AbortQueued
  <2>2. Life(t)
    BY <1>1, <2>1 DEF Life
  <2> QED
    BY <1>1, <2>1, <2>2, MoveLives
<1>3. CASE AbortAtExit(t)
  <2>1. Settle({t}) /\ t \in Holding
    BY <1>3 DEF AbortAtExit, AwaitsExit, Holding, Admitted
  <2> QED
    BY <1>1, <2>1, SettleLives
<1>4. CASE AbortNoted(t)
  BY <1>4, StillLives DEF AbortNoted
<1>5. CASE AbortSent(t)
  <2>1. {on[t]} \in SUBSET Worker
    BY <1>5 DEF AbortSent, PoolInv, OnKnown, Worker
  <2>2. Settle(Losers({on[t]})) /\ Losers({on[t]}) \in SUBSET Holding
    BY <1>5, <2>1, LosersHold DEF AbortSent, PoolInv
  <2> QED
    BY <1>1, <2>2, SettleLives
<1> QED
  BY <1>2, <1>3, <1>4, <1>5 DEF Abort

LEMMA WorkerEventLives ==
  ASSUME PoolInv, NEW w \in Worker,
         InputWritten(w) \/ InputFails(w) \/ ReactToExit(w) \/ WorkerEvent(w)
  PROVE  \A u \in Turn : Life(u)
<1>1. TypeOK
  BY DEF PoolInv
<1>2. CASE RetireWorker(w)
  <2>1. {w} \in SUBSET Worker
    OBVIOUS
  <2>2. Settle(Losers({w})) /\ Losers({w}) \in SUBSET Holding
    BY <1>2, <2>1, LosersHold DEF RetireWorker, PoolInv
  <2> QED
    BY <1>1, <2>2, SettleLives
<1>3. ASSUME NEW r, NEW rest, FinishTurn(w, r, rest), holder[w] # NoTurn
      PROVE  \A u \in Turn : Life(u)
  <2>1. {holder[w]} \in SUBSET Holding
    BY <1>3 DEF Holding, Admitted, PoolInv, HoldersSent, TypeOK, WorkerTypes,
       MaybeTurn
  <2> QED
    BY <1>1, <1>3, <2>1, SettleLives DEF FinishTurn
<1>4. CASE InputWritten(w)
  <2>1. CASE reply[w] # NoTurn
    BY <1>3, <1>4, <2>1 DEF InputWritten
  <2>2. CASE reply[w] = NoTurn
    BY <1>4, <2>2, StillLives DEF InputWritten
  <2> QED
    BY <2>1, <2>2
<1>5. CASE Answer(w)
  <2>1. CASE holder[w] # NoTurn /\ w \in written
    BY <1>3, <1>5, <2>1 DEF Answer
  <2>2. CASE ~(holder[w] # NoTurn /\ w \in written)
    BY <1>5, <2>2, StillLives DEF Answer
  <2> QED
    BY <2>1, <2>2
<1>6. CASE StdoutEnds(w) \/ ExitResolves(w) \/ ExitRejects(w)
  BY <1>6, StillLives DEF StdoutEnds, ExitResolves, ExitRejects, turnVars
<1> QED
  BY <1>2, <1>4, <1>5, <1>6 DEF WorkerEvent, InputFails, ReactToExit, WorkerFault,
     IdleTimeout, ExitTimer

LEMMA CloseLives ==
  ASSUME PoolInv, Close
  PROVE  \A u \in Turn : Life(u)
<1> DEFINE S == allWorkers \ dead
           stopped == Losers(S) \cup {t \in Turn : AwaitsExit(t)}
<1>1. S \in SUBSET Worker
  BY DEF PoolInv, TypeOK, WorkerTypes
<1>2. stopped \in SUBSET Holding
  <2>1. {t \in Turn : AwaitsExit(t)} \in SUBSET Holding
    BY DEF AwaitsExit, Holding, Admitted
  <2> QED
    BY <1>1, <2>1, LosersHold DEF PoolInv
<1>3. /\ pc' = [t \in Turn |-> IF t \in stopped THEN "leaving"
                               ELSE IF pc[t] \in {"queued", "waiting"} THEN "done"
                               ELSE pc[t]]
      /\ on' = [t \in Turn |-> IF t \in stopped THEN NoTurn ELSE on[t]]
  BY DEF Close
<1> HIDE DEF stopped
<1> SUFFICES ASSUME NEW u \in Turn PROVE Life(u)
  OBVIOUS
<1>4. CASE u \in stopped
  <2>1. pc[u] \in Admitted /\ pc'[u] = "leaving"
    BY <1>2, <1>3, <1>4 DEF Holding
  <2> QED
    BY <2>1 DEF Life
<1>5. CASE u \notin stopped /\ pc[u] \in {"queued", "waiting"}
  BY <1>3, <1>5 DEF Life
<1>6. CASE u \notin stopped /\ pc[u] \notin {"queued", "waiting"}
  <2>1. pc'[u] = pc[u] /\ on'[u] = on[u]
    BY <1>3, <1>6
  <2> QED
    BY <2>1 DEF Life
<1> QED
  BY <1>4, <1>5, <1>6

LEMMA TurnStepLives ==
  ASSUME PoolInv, NEW t \in Turn, TurnStep(t)
  PROVE  \A u \in Turn : Life(u)
<1>1. TypeOK /\ pc \in [Turn -> Steps]
  BY DEF PoolInv, TypeOK, TurnTypes
<1>2. CASE PredecessorsSettled(t)
  <2>1. /\ pc' = [pc EXCEPT ![t] = "ready"] /\ on' = on
        /\ pc[t] = "queued" /\ prev[t] \in tailDone
    BY <1>2 DEF PredecessorsSettled
  <2>2. Life(t)
    BY <1>1, <2>1 DEF Life
  <2> QED
    BY <1>1, <2>1, <2>2, MoveLives
<1>3. CASE Admit(t)
  BY <1>1, <1>3, AdmitRunLives DEF Admit
<1>4. CASE Release(t)
  BY <1>4, ReleaseLives
<1>5. CASE RunTurn(t)
  BY <1>5, RunTurnLives
<1>6. CASE AwaitCapacity(t) \/ Spawn(t) \/ \E w \in Worker : Evict(t, w)
  BY <1>6, StartingLives
<1>7. CASE TakeWorker(t)
  BY <1>7, TakeWorkerLives
<1>8. CASE ExitConfirmed(t) \/ ExitUnconfirmed(t)
  BY <1>8, ExitLives
<1> QED
  BY <1>2, <1>3, <1>4, <1>5, <1>6, <1>7, <1>8 DEF TurnStep

LEMMA ArriveLives ==
  ASSUME PoolInv, NEW t \in Turn, Arrive(t)
  PROVE  \A u \in Turn : Life(u)
<1>1. /\ TypeOK /\ pc \in [Turn -> Steps] /\ pc[t] = "new" /\ on' = on
  BY DEF PoolInv, TypeOK, TurnTypes, Arrive
<1>2. CASE AdmitRun(t)
  BY <1>1, <1>2, AdmitRunLives
<1>3. CASE pc' = [pc EXCEPT ![t] = "queued"]
  <2>1. Life(t)
    BY <1>1, <1>3 DEF Life
  <2> QED
    BY <1>1, <1>3, <2>1, MoveLives
<1> QED
  BY <1>2, <1>3 DEF Arrive

\* Whatever happens, every turn goes on with its life.
LEMMA LifeGoesOn ==
  ASSUME PoolInv, [Next]_vars
  PROVE  \A t \in Turn : Life(t)
<1>1. ASSUME NEW t \in Turn, Arrive(t) \/ TurnStep(t) PROVE \A u \in Turn : Life(u)
  BY <1>1, ArriveLives, TurnStepLives
<1>2. CASE OtherStep
  <2>1. ASSUME NEW t \in Turn, TailResolves(t) PROVE \A u \in Turn : Life(u)
    BY <2>1, StillLives DEF TailResolves
  <2>2. ASSUME NEW t \in Turn, ExitTimeout(t) \/ Abort(t) PROVE \A u \in Turn : Life(u)
    BY <2>2, ExitLives, AbortLives
  <2>3. ASSUME NEW w \in Worker,
               InputWritten(w) \/ InputFails(w) \/ ReactToExit(w) \/ WorkerEvent(w)
        PROVE  \A u \in Turn : Life(u)
    BY <2>3, WorkerEventLives
  <2>4. CASE Close
    BY <2>4, CloseLives
  <2>5. CASE CloseReturns \/ CloseTimeout
    BY <2>5, StillLives DEF CloseReturns, CloseTimeout, turnVars
  <2> QED
    BY <1>2, <2>1, <2>2, <2>3, <2>4, <2>5 DEF OtherStep
<1>3. CASE UNCHANGED vars
  BY <1>3, StillLives DEF vars, turnVars
<1> QED
  BY <1>1, <1>2, <1>3 DEF Next, Terminating

-----------------------------------------------------------------------------
(* Turns keep their order.                                                 *)

\* What the order of turns needs to know of a turn's life.
LEMMA LifeInOrder ==
  ASSUME PoolInv, NEW t \in Turn, Life(t)
  PROVE  /\ pc[t] = "done" => pc'[t] = "done"
         /\ pc[t] # "new" => pc'[t] # "new"
         /\ pc[t] = "new" /\ pc'[t] # "new" => Arrive(t)
         /\ pc'[t] \in InTurn =>
              \/ pc[t] \in InTurn \/ Arrive(t)
              \/ pc[t] = "queued" /\ prev[t] \in tailDone
BY DEF Life, InTurn, Admitted

LEMMA OrderSteps ==
  ASSUME [Next]_vars
  PROVE  \/ UNCHANGED queueVars
         \/ \E t \in Turn : Arrive(t) \/ TailResolves(t)
<1>1. ASSUME NEW t \in Turn, TurnStep(t) PROVE UNCHANGED queueVars
  BY <1>1 DEF TurnStep, PredecessorsSettled, Admit, Release, RunTurn, AwaitCapacity,
     Spawn, TakeWorker, ExitConfirmed, ExitUnconfirmed, Evict
<1>2. ASSUME NEW t \in Turn, ExitTimeout(t) \/ Abort(t) PROVE UNCHANGED queueVars
  BY <1>2 DEF ExitTimeout, Abort, AbortQueued, AbortAtExit, AbortNoted, AbortSent,
     AbortSignal
<1>3. ASSUME NEW w \in Worker,
             InputWritten(w) \/ InputFails(w) \/ ReactToExit(w) \/ WorkerEvent(w)
      PROVE  UNCHANGED queueVars
  BY <1>3 DEF InputWritten, InputFails, ReactToExit, WorkerEvent, Answer,
     WorkerFault, IdleTimeout, StdoutEnds, ExitResolves, ExitRejects, ExitTimer,
     RetireWorker, turnVars, queueVars
<1>4. CASE Close \/ CloseReturns \/ CloseTimeout \/ UNCHANGED vars
  BY <1>4 DEF Close, CloseReturns, CloseTimeout, vars, turnVars, queueVars
<1> QED
  BY <1>1, <1>2, <1>3, <1>4 DEF Next, OtherStep, Terminating

LEMMA UntouchedOrder ==
  ASSUME PoolInv, OrderInv, \A t \in Turn : Life(t), UNCHANGED queueVars
  PROVE  OrderInv'
<1>1. /\ arrivals \in [Key -> Seq(Turn)] /\ KeyOf \in [Turn -> Key]
      /\ tailDone \subseteq Turn
      /\ UNCHANGED <<arrivals, prev, tailDone, keyTail>>
  BY KeyAssumption DEF PoolInv, TypeOK, TurnTypes, queueVars
<1>2. ASSUME NEW t \in Turn PROVE ~Arrive(t)
  <2>1. SUFFICES ASSUME Arrive(t) PROVE FALSE
    OBVIOUS
  <2>2. arrivals'[KeyOf[t]] = Append(arrivals[KeyOf[t]], t)
    BY <1>1, <2>1 DEF Arrive
  <2>3. Len(arrivals[KeyOf[t]]) \in Nat /\ arrivals[KeyOf[t]] \in Seq(Turn)
    BY <1>1
  <2> QED
    BY <1>1, <2>2, <2>3
<1>3. \A k \in Key : \A i \in DOMAIN arrivals[k] : arrivals[k][i] \in Turn
  BY <1>1
<1>4. ArrivalsOK'
  BY <1>1, <1>2, <1>3, LifeInOrder DEF OrderInv, ArrivalsOK
<1>5. TailsOK'
  BY <1>1, LifeInOrder DEF OrderInv, TailsOK
<1>6. PrevOK'
  BY <1>1 DEF OrderInv, PrevOK
<1>7. InArrivalOrder'
  <2> SUFFICES ASSUME NEW k \in Key, NEW j \in DOMAIN arrivals[k], NEW i \in 1..(j - 1),
                      pc'[arrivals[k][j]] \in InTurn
               PROVE  pc'[arrivals[k][i]] = "done"
    BY <1>1 DEF InArrivalOrder
  <2> DEFINE t == arrivals[k][j]
             u == arrivals[k][i]
  <2>1. /\ t \in Turn /\ u \in Turn /\ j \in Nat /\ i \in DOMAIN arrivals[k]
        /\ arrivals[k] \in Seq(Turn)
    BY <1>1, <1>3
  <2>2. pc[u] = "done"
    <3>1. CASE pc[t] \in InTurn
      BY <3>1 DEF OrderInv, InArrivalOrder
    <3>2. CASE pc[t] = "queued" /\ prev[t] \in tailDone
      <4>1. prev[t] # NoTurn
        BY <1>1, <3>2, NoTurnAssumption
      <4>2. j > 1 /\ prev[t] = arrivals[k][j - 1]
        BY <4>1 DEF OrderInv, PrevOK
      <4>3. j - 1 \in DOMAIN arrivals[k] /\ (i = j - 1 \/ i \in 1..(j - 1 - 1))
        BY <2>1, <4>2
      <4>4. u \in tailDone
        BY <3>2, <4>2, <4>3 DEF OrderInv, TailsOK
      <4> QED
        BY <4>4 DEF OrderInv, TailsOK
    <3> QED
      BY <1>2, <2>1, <3>1, <3>2, LifeInOrder
  <2> QED
    BY <2>1, <2>2, LifeInOrder
<1> QED
  BY <1>4, <1>5, <1>6, <1>7 DEF OrderInv

LEMMA TailResolvesInOrder ==
  ASSUME PoolInv, OrderInv, NEW t \in Turn, TailResolves(t)
  PROVE  OrderInv'
<1>1. /\ arrivals \in [Key -> Seq(Turn)] /\ tailDone \subseteq Turn
      /\ keyTail \in [Key -> MaybeTurn]
      /\ UNCHANGED <<arrivals, prev, pc>> /\ tailDone' = tailDone \cup {t}
      /\ keyTail' = [k \in Key |-> IF keyTail[k] = t THEN NoTurn ELSE keyTail[k]]
      /\ pc[t] = "done" /\ (prev[t] = NoTurn \/ prev[t] \in tailDone)
      /\ t # NoTurn
  BY NoTurnAssumption DEF PoolInv, TypeOK, TurnTypes, TailResolves, TailCovers
<1>2. ArrivalsOK' /\ InArrivalOrder'
  BY <1>1 DEF OrderInv, ArrivalsOK, InArrivalOrder
<1>3. PrevOK'
  BY <1>1 DEF OrderInv, PrevOK
\* All tails before that of t have resolved.
<1>4. ASSUME NEW k \in Key, NEW j \in DOMAIN arrivals[k], arrivals[k][j] = t,
             NEW i \in 1..(j - 1)
      PROVE  arrivals[k][i] \in tailDone
  <2>1. CASE prev[t] = NoTurn
    BY <1>4, <2>1 DEF OrderInv, PrevOK
  <2>2. CASE prev[t] # NoTurn
    <3>1. j > 1 /\ prev[t] = arrivals[k][j - 1] /\ prev[t] \in tailDone
      BY <1>1, <1>4, <2>2 DEF OrderInv, PrevOK
    <3>2. arrivals[k] \in Seq(Turn) /\ j \in Nat
      BY <1>1
    <3>3. j - 1 \in DOMAIN arrivals[k] /\ (i = j - 1 \/ i \in 1..(j - 1 - 1))
      BY <3>1, <3>2
    <3> QED
      BY <3>1, <3>3 DEF OrderInv, TailsOK
  <2> QED
    BY <2>1, <2>2
<1>5. TailsOK'
  <2>1. \A u \in tailDone' : pc'[u] = "done"
    BY <1>1 DEF OrderInv, TailsOK
  <2>2. \A k \in Key : \A j \in DOMAIN arrivals[k] : \A i \in 1..(j - 1) :
          arrivals[k][j] \in tailDone' => arrivals[k][i] \in tailDone'
    BY <1>1, <1>4 DEF OrderInv, TailsOK
  <2>3. ASSUME NEW k \in Key
        PROVE  IF keyTail'[k] = NoTurn
               THEN \A i \in DOMAIN arrivals[k] : arrivals[k][i] \in tailDone'
               ELSE arrivals[k] # <<>> /\ keyTail'[k] = arrivals[k][Len(arrivals[k])]
    <3>1. CASE keyTail[k] = t
      <4>1. arrivals[k] # <<>> /\ t = arrivals[k][Len(arrivals[k])]
        BY <1>1, <3>1 DEF OrderInv, TailsOK
      <4>2. arrivals[k] \in Seq(Turn)
        BY <1>1
      <4> DEFINE n == Len(arrivals[k])
      <4>3. n \in DOMAIN arrivals[k] /\ \A i \in DOMAIN arrivals[k] : i = n \/ i \in 1..(n - 1)
        BY <4>1, <4>2
      <4> HIDE DEF n
      <4>4. arrivals[k][n] = t
        BY <4>1 DEF n
      <4>5. keyTail'[k] = NoTurn
        BY <1>1, <3>1
      <4> QED
        BY <1>1, <1>4, <4>3, <4>4, <4>5
    <3>2. CASE keyTail[k] # t
      <4>1. keyTail'[k] = keyTail[k]
        BY <1>1, <3>2
      <4> QED
        BY <1>1, <4>1 DEF OrderInv, TailsOK
    <3> QED
      BY <3>1, <3>2
  <2> QED
    BY <1>1, <2>1, <2>2, <2>3 DEF TailsOK
<1> QED
  BY <1>2, <1>3, <1>5 DEF OrderInv

LEMMA Appended ==
  ASSUME NEW s \in Seq(Turn), NEW t \in Turn, NEW r, r = Append(s, t)
  PROVE  /\ DOMAIN r = 1..(Len(s) + 1) /\ DOMAIN s = 1..Len(s)
         /\ Len(r) = Len(s) + 1 /\ r # <<>> /\ r[Len(s) + 1] = t
         /\ \A i \in 1..Len(s) : r[i] = s[i] /\ s[i] \in Turn
OBVIOUS

LEMMA ArriveInOrder ==
  ASSUME PoolInv, OrderInv, NEW t \in Turn, Arrive(t)
  PROVE  OrderInv'
<1> DEFINE k == KeyOf[t]
           n == Len(arrivals[k])
<1>1. /\ arrivals \in [Key -> Seq(Turn)] /\ tailDone \subseteq Turn /\ k \in Key
      /\ KeyOf \in [Turn -> Key] /\ pc \in [Turn -> Steps] /\ n \in Nat
      /\ arrivals[k] \in Seq(Turn) /\ keyTail \in [Key -> MaybeTurn]
      /\ prev \in [Turn -> MaybeTurn] /\ t # NoTurn
  BY KeyAssumption, NoTurnAssumption DEF PoolInv, TypeOK, TurnTypes
<1>2. /\ pc[t] = "new" /\ tailDone' = tailDone /\ prev'[t] = keyTail[k]
      /\ \A u \in Turn \ {t} : prev'[u] = prev[u]
      /\ keyTail'[k] = t /\ \A l \in Key \ {k} : keyTail'[l] = keyTail[l]
      /\ arrivals'[k] = Append(arrivals[k], t)
      /\ \A l \in Key \ {k} : arrivals'[l] = arrivals[l]
  BY <1>1 DEF Arrive
<1>3. /\ \A u \in Turn \ {t} : pc'[u] = pc[u]
      /\ pc'[t] # "new" /\ (pc'[t] \in InTurn => keyTail[k] = NoTurn)
  BY <1>1 DEF Arrive, AdmitRun, InTurn, Admitted
<1>4. /\ DOMAIN arrivals'[k] = 1..(n + 1) /\ arrivals'[k][n + 1] = t
      /\ DOMAIN arrivals[k] = 1..n /\ Len(arrivals'[k]) = n + 1
      /\ \A i \in 1..n : arrivals'[k][i] = arrivals[k][i] /\ arrivals[k][i] \in Turn
      /\ arrivals'[k] # <<>>
  <2> DEFINE s == arrivals[k]
             r == arrivals'[k]
  <2>1. s \in Seq(Turn) /\ r = Append(s, t) /\ n = Len(s)
    BY <1>1, <1>2
  <2> HIDE DEF s, r, n
  <2>2. /\ DOMAIN r = 1..(n + 1) /\ DOMAIN s = 1..n
        /\ Len(r) = n + 1 /\ r # <<>> /\ r[n + 1] = t
        /\ \A i \in 1..n : r[i] = s[i] /\ s[i] \in Turn
    BY <2>1, Appended
  <2> QED
    BY <2>2 DEF r, s
<1> HIDE DEF k, n
<1>5. \A l \in Key : \A i \in DOMAIN arrivals[l] :
        arrivals[l][i] \in Turn /\ arrivals[l][i] # t
  BY <1>1, <1>2 DEF OrderInv, ArrivalsOK
\* An entry of arrivals is an old one or the last.
<1>6. \A l \in Key : \A i \in DOMAIN arrivals'[l] :
        \/ i \in DOMAIN arrivals[l] /\ arrivals'[l][i] = arrivals[l][i]
        \/ l = k /\ i = n + 1 /\ arrivals'[l][i] = t
  <2> SUFFICES ASSUME NEW l \in Key, NEW i \in DOMAIN arrivals'[l]
               PROVE  \/ i \in DOMAIN arrivals[l] /\ arrivals'[l][i] = arrivals[l][i]
                      \/ l = k /\ i = n + 1 /\ arrivals'[l][i] = t
    OBVIOUS
  <2>1. CASE l = k
    <3>1. i \in 1..n \/ i = n + 1
      BY <1>1, <1>4, <2>1
    <3> QED
      BY <1>4, <2>1, <3>1
  <2>2. CASE l # k
    BY <1>2, <2>2
  <2> QED
    BY <2>1, <2>2
\* The entries before an old one are old.
<1>7. \A l \in Key : \A j \in DOMAIN arrivals'[l] : \A i \in 1..(j - 1) :
        i \in DOMAIN arrivals[l] /\ arrivals'[l][i] = arrivals[l][i]
  <2> SUFFICES ASSUME NEW l \in Key, NEW j \in DOMAIN arrivals'[l], NEW i \in 1..(j - 1)
               PROVE  i \in DOMAIN arrivals[l] /\ arrivals'[l][i] = arrivals[l][i]
    OBVIOUS
  <2>1. CASE l = k
    BY <1>1, <1>4, <2>1
  <2>2. CASE l # k
    <3>1. arrivals[l] \in Seq(Turn) /\ arrivals'[l] = arrivals[l]
      BY <1>1, <1>2, <2>2
    <3> QED
      BY <3>1
  <2> QED
    BY <2>1, <2>2
<1>8. ArrivalsOK'
  <2>1. \A l \in Key : \A i \in DOMAIN arrivals'[l] :
          KeyOf[arrivals'[l][i]] = l /\ pc'[arrivals'[l][i]] # "new"
    BY <1>3, <1>5, <1>6 DEF OrderInv, ArrivalsOK, k
  <2>2. \A l \in Key : \A i, j \in DOMAIN arrivals'[l] :
          arrivals'[l][i] = arrivals'[l][j] => i = j
    BY <1>5, <1>6 DEF OrderInv, ArrivalsOK
  <2>3. ASSUME NEW u \in Turn, pc'[u] # "new"
        PROVE  \E i \in DOMAIN arrivals'[KeyOf[u]] : arrivals'[KeyOf[u]][i] = u
    <3>1. CASE u = t
      <4>1. n + 1 \in DOMAIN arrivals'[k]
        BY <1>1, <1>4
      <4> QED
        BY <1>4, <3>1, <4>1 DEF k
    <3>2. CASE u # t
      <4>1. PICK i \in DOMAIN arrivals[KeyOf[u]] : arrivals[KeyOf[u]][i] = u
        BY <1>3, <2>3, <3>2 DEF OrderInv, ArrivalsOK
      <4>2. i \in DOMAIN arrivals'[KeyOf[u]] /\ arrivals'[KeyOf[u]][i] = u
        <5>1. CASE KeyOf[u] = k
          BY <1>1, <1>4, <4>1, <5>1
        <5>2. CASE KeyOf[u] # k
          BY <1>1, <1>2, <4>1, <5>2
        <5> QED
          BY <5>1, <5>2
      <4> QED
        BY <4>2
    <3> QED
      BY <3>1, <3>2
  <2> QED
    BY <2>1, <2>2, <2>3 DEF ArrivalsOK
<1>9. TailsOK'
  <2>1. \A u \in tailDone' : pc'[u] = "done"
    BY <1>1, <1>2, <1>3 DEF OrderInv, TailsOK
  <2>2. t \notin tailDone
    BY <1>2 DEF OrderInv, TailsOK
  <2>3. \A l \in Key : \A j \in DOMAIN arrivals'[l] : \A i \in 1..(j - 1) :
          arrivals'[l][j] \in tailDone' => arrivals'[l][i] \in tailDone'
    BY <1>2, <1>6, <1>7, <2>2 DEF OrderInv, TailsOK
  <2>4. ASSUME NEW l \in Key
        PROVE  IF keyTail'[l] = NoTurn
               THEN \A i \in DOMAIN arrivals'[l] : arrivals'[l][i] \in tailDone'
               ELSE arrivals'[l] # <<>> /\ keyTail'[l] = arrivals'[l][Len(arrivals'[l])]
    <3>1. CASE l = k
      BY <1>1, <1>2, <1>4, <3>1
    <3>2. CASE l # k
      BY <1>2, <3>2 DEF OrderInv, TailsOK
    <3> QED
      BY <3>1, <3>2
  <2> QED
    BY <2>1, <2>3, <2>4 DEF TailsOK
<1>10. keyTail[k] = NoTurn => \A i \in 1..n : arrivals[k][i] \in tailDone
  BY <1>1, <1>4 DEF OrderInv, TailsOK
<1>11. PrevOK'
  <2> SUFFICES ASSUME NEW l \in Key, NEW j \in DOMAIN arrivals'[l]
               PROVE  IF prev'[arrivals'[l][j]] = NoTurn
                      THEN \A i \in 1..(j - 1) : arrivals'[l][i] \in tailDone'
                      ELSE j > 1 /\ prev'[arrivals'[l][j]] = arrivals'[l][j - 1]
    BY DEF PrevOK
  <2>1. CASE j \in DOMAIN arrivals[l] /\ arrivals'[l][j] = arrivals[l][j]
    <3>1. prev'[arrivals'[l][j]] = prev[arrivals[l][j]]
      BY <1>2, <1>5, <2>1
    <3>2. arrivals[l] \in Seq(Turn) /\ j \in Nat
      BY <1>1, <2>1
    <3>3. j > 1 => arrivals'[l][j - 1] = arrivals[l][j - 1]
      BY <1>7, <3>2
    <3> QED
      BY <1>2, <1>7, <2>1, <3>1, <3>3 DEF OrderInv, PrevOK
  <2>2. CASE l = k /\ j = n + 1 /\ arrivals'[l][j] = t
    <3> j - 1 = n
      BY <1>1, <2>2
    <3>1. CASE keyTail[k] = NoTurn
      <4>1. \A i \in 1..n : arrivals'[k][i] \in tailDone'
        BY <1>2, <1>4, <1>10, <3>1
      <4> QED
        BY <1>2, <2>2, <3>1, <4>1
    <3>2. CASE keyTail[k] # NoTurn
      <4>1. arrivals[k] # <<>> /\ keyTail[k] = arrivals[k][n]
        BY <1>1, <3>2 DEF OrderInv, TailsOK, n
      <4>2. n >= 1
        BY <1>1, <4>1 DEF n
      <4>3. arrivals'[k][n] = keyTail[k] /\ j > 1
        BY <1>1, <1>4, <2>2, <4>1, <4>2
      <4> QED
        BY <1>2, <2>2, <3>2, <4>3
    <3> QED
      BY <3>1, <3>2
  <2> QED
    BY <1>6, <2>1, <2>2
<1>12. InArrivalOrder'
  <2> SUFFICES ASSUME NEW l \in Key, NEW j \in DOMAIN arrivals'[l], NEW i \in 1..(j - 1),
                      pc'[arrivals'[l][j]] \in InTurn
               PROVE  pc'[arrivals'[l][i]] = "done"
    BY DEF InArrivalOrder
  <2>1. /\ arrivals'[l][i] = arrivals[l][i] /\ i \in DOMAIN arrivals[l]
        /\ pc'[arrivals[l][i]] = pc[arrivals[l][i]]
    BY <1>3, <1>5, <1>7
  <2>2. CASE j \in DOMAIN arrivals[l] /\ arrivals'[l][j] = arrivals[l][j]
    <3>1. pc[arrivals[l][j]] \in InTurn
      BY <1>3, <1>5, <2>2
    <3> QED
      BY <2>1, <2>2, <3>1 DEF OrderInv, InArrivalOrder
  <2>3. CASE l = k /\ j = n + 1 /\ arrivals'[l][j] = t
    <3>1. keyTail[k] = NoTurn
      BY <1>3, <2>3
    <3>2. arrivals[k][i] \in tailDone
      BY <1>1, <1>10, <2>3, <3>1
    <3> QED
      BY <2>1, <2>3, <3>2 DEF OrderInv, TailsOK
  <2> QED
    BY <1>6, <2>2, <2>3
<1> QED
  BY <1>8, <1>9, <1>11, <1>12 DEF OrderInv

LEMMA OrderKept ==
  ASSUME PoolInv, OrderInv, [Next]_vars
  PROVE  OrderInv'
BY LifeGoesOn, OrderSteps, UntouchedOrder, TailResolvesInOrder, ArriveInOrder

\* At most one turn of a conversation is past its queue.
LEMMA OneInTurn ==
  ASSUME PoolInv, OrderInv, NEW t \in Turn, NEW u \in Turn, KeyOf[t] = KeyOf[u],
         pc[t] \in InTurn, pc[u] \in InTurn
  PROVE  t = u
<1> DEFINE a == arrivals[KeyOf[t]]
<1>1. a \in Seq(Turn) /\ KeyOf[t] \in Key
  BY KeyAssumption DEF PoolInv, TypeOK, TurnTypes
<1>2. PICK i \in DOMAIN a : a[i] = t
  BY DEF OrderInv, ArrivalsOK, InTurn, Admitted
<1>3. PICK j \in DOMAIN a : a[j] = u
  BY DEF OrderInv, ArrivalsOK, InTurn, Admitted
<1>4. i \in Nat /\ j \in Nat /\ (i = j \/ i \in 1..(j - 1) \/ j \in 1..(i - 1))
  BY <1>1
<1>5. CASE i \in 1..(j - 1)
  BY <1>1, <1>2, <1>3, <1>5 DEF OrderInv, InArrivalOrder, InTurn, Admitted
<1>6. CASE j \in 1..(i - 1)
  BY <1>1, <1>2, <1>3, <1>6 DEF OrderInv, InArrivalOrder, InTurn, Admitted
<1> QED
  BY <1>2, <1>3, <1>4, <1>5, <1>6

-----------------------------------------------------------------------------
(* A conversation has one process.                                         *)

WorkerStep ==
  \/ UNCHANGED <<workers, allWorkers, retiring, dead, exit>>
  \/ \E S \in SUBSET Started : Retire(S)
  \/ \E t \in Turn : Spawn(t) /\ ~Stopped(t)
  \/ \E w \in Worker : ExitResolves(w) \/ ExitRejects(w)

LEMMA HoldersStarted ==
  ASSUME PoolInv, StartedOK, NEW w \in Worker, holder[w] # NoTurn
  PROVE  w \in Started
BY DEF PoolInv, HoldersSent, StartedOK, TypeOK, WorkerTypes, MaybeTurn

LEMMA SomeRetire ==
  ASSUME NEW S \in SUBSET Started, Retire(S)
  PROVE  WorkerStep /\ idle' \subseteq idle \cup Started
BY DEF WorkerStep, Retire

LEMMA NoneRetire ==
  ASSUME UNCHANGED <<workers, allWorkers, retiring, dead, exit, idle>>
  PROVE  WorkerStep /\ idle' \subseteq idle \cup Started
BY DEF WorkerStep

LEMMA DeliverWorkers ==
  ASSUME NEW t, NEW w, Deliver(t, w)
  PROVE  WorkerStep /\ idle' \subseteq idle \cup Started
BY DEF WorkerStep, Deliver

LEMMA TurnStepWorkers ==
  ASSUME PoolInv, ProcessInv, NEW t \in Turn, TurnStep(t)
  PROVE  WorkerStep /\ idle' \subseteq idle \cup Started
<1>1. ASSUME UNCHANGED workerVars
      PROVE  WorkerStep /\ idle' \subseteq idle \cup Started
  BY <1>1, NoneRetire DEF workerVars
<1>2. CASE PredecessorsSettled(t) \/ Admit(t) \/ Release(t) \/ AwaitCapacity(t)
           \/ ExitConfirmed(t) \/ ExitUnconfirmed(t)
  BY <1>1, <1>2 DEF PredecessorsSettled, Admit, Release, AwaitCapacity,
     ExitConfirmed, ExitUnconfirmed
<1>3. CASE RunTurn(t)
  <2> DEFINE existing == workers[KeyOf[t]]
  <2>1. CASE existing # NoTurn /\ Retire({existing})
    <3>1. existing \in Started
      BY <2>1, KeyAssumption DEF ProcessInv, WorkersOK, StartedOK
    <3>2. {existing} \in SUBSET Started
      BY <3>1
    <3> QED
      BY <2>1, <3>2, SomeRetire
  <2>2. CASE \E w : Deliver(t, w)
    BY <2>2, DeliverWorkers
  <2> QED
    BY <1>1, <1>3, <2>1, <2>2 DEF RunTurn
<1>4. CASE Spawn(t)
  <2>1. CASE Stopped(t)
    BY <1>1, <1>4, <2>1 DEF Spawn
  <2>2. CASE ~Stopped(t)
    BY <1>4, <2>2 DEF Spawn, WorkerStep
  <2> QED
    BY <2>1, <2>2
<1>5. CASE TakeWorker(t)
  <2>1. on[t] \in Started
    BY <1>5 DEF TakeWorker, ProcessInv, StartedOK
  <2>2. {on[t]} \ dead \in SUBSET Started
    BY <2>1
  <2> QED
    BY <1>1, <1>5, <2>2, SomeRetire, DeliverWorkers DEF TakeWorker
<1>6. ASSUME NEW w \in Worker, Evict(t, w)
      PROVE  WorkerStep /\ idle' \subseteq idle \cup Started
  <2>1. w \in Started
    BY <1>6 DEF Evict, Oldest, Spare, Residents, ProcessInv, WorkersOK, StartedOK
  <2>2. {w} \in SUBSET Started
    BY <2>1
  <2> QED
    BY <1>6, <2>2, SomeRetire DEF Evict
<1> QED
  BY <1>2, <1>3, <1>4, <1>5, <1>6 DEF TurnStep

LEMMA WorkerEventWorkers ==
  ASSUME PoolInv, ProcessInv, NEW w \in Worker,
         InputWritten(w) \/ InputFails(w) \/ ReactToExit(w) \/ WorkerEvent(w)
  PROVE  WorkerStep /\ idle' \subseteq idle \cup Started
<1>1. ASSUME w \in Started, Retire({w})
      PROVE  WorkerStep /\ idle' \subseteq idle \cup Started
  <2>1. {w} \in SUBSET Started
    BY <1>1
  <2> QED
    BY <1>1, <2>1, SomeRetire
<1>2. CASE InputFails(w) \/ ReactToExit(w) \/ WorkerFault(w) \/ IdleTimeout(w)
           \/ ExitTimer(w)
  <2>1. w \in Started
    BY <1>2, HoldersStarted DEF InputFails, ReactToExit, ExitCalls, WorkerFault,
       IdleTimeout, ExitTimer, ProcessInv, StartedOK, Started
  <2>2. Retire({w})
    BY <1>2 DEF InputFails, ReactToExit, WorkerFault, IdleTimeout, ExitTimer,
       RetireWorker
  <2> QED
    BY <1>1, <2>1, <2>2
<1>3. ASSUME NEW r, NEW rest, FinishTurn(w, r, rest), holder[w] # NoTurn
      PROVE  WorkerStep /\ idle' \subseteq idle \cup Started
  <2>1. w \in Started
    BY <1>3, HoldersStarted DEF ProcessInv
  <2>2. CASE Retire({w})
    BY <1>1, <2>1, <2>2
  <2>3. CASE ~Retire({w})
    BY <1>3, <2>1, <2>3 DEF FinishTurn, WorkerStep
  <2> QED
    BY <2>2, <2>3
<1>4. CASE InputWritten(w)
  <2>1. CASE reply[w] # NoTurn
    BY <1>3, <1>4, <2>1 DEF InputWritten
  <2>2. CASE reply[w] = NoTurn
    BY <1>4, <2>2, NoneRetire DEF InputWritten, residentVars
  <2> QED
    BY <2>1, <2>2
<1>5. CASE Answer(w)
  <2>1. CASE holder[w] # NoTurn /\ w \in written
    BY <1>3, <1>5, <2>1 DEF Answer
  <2>2. CASE ~(holder[w] # NoTurn /\ w \in written)
    BY <1>5, <2>2, NoneRetire DEF Answer, residentVars
  <2> QED
    BY <2>1, <2>2
<1>6. CASE StdoutEnds(w)
  BY <1>6, NoneRetire DEF StdoutEnds, residentVars
<1>7. CASE ExitResolves(w) \/ ExitRejects(w)
  BY <1>7 DEF ExitResolves, ExitRejects, WorkerStep, residentVars
<1> QED
  BY <1>2, <1>4, <1>5, <1>6, <1>7 DEF WorkerEvent

LEMMA WorkerSteps ==
  ASSUME PoolInv, ProcessInv, [Next]_vars
  PROVE  WorkerStep /\ idle' \subseteq idle \cup Started
<1>1. ASSUME UNCHANGED workerVars
      PROVE  WorkerStep /\ idle' \subseteq idle \cup Started
  BY <1>1, NoneRetire DEF workerVars
<1>2. ASSUME NEW t \in Turn, Arrive(t) \/ TailResolves(t) \/ ExitTimeout(t)
      PROVE  WorkerStep /\ idle' \subseteq idle \cup Started
  BY <1>1, <1>2 DEF Arrive, TailResolves, ExitTimeout
<1>3. ASSUME NEW t \in Turn, Abort(t)
      PROVE  WorkerStep /\ idle' \subseteq idle \cup Started
  <2>1. CASE AbortSent(t)
    <3>1. {on[t]} \in SUBSET Started
      BY <2>1 DEF AbortSent, ProcessInv, StartedOK
    <3> QED
      BY <2>1, <3>1, SomeRetire DEF AbortSent
  <2> QED
    BY <1>1, <1>3, <2>1 DEF Abort, AbortQueued, AbortAtExit, AbortNoted
<1>4. CASE Close
  <2>1. allWorkers \ dead \in SUBSET Started
    BY DEF ProcessInv, StartedOK
  <2> QED
    BY <1>4, <2>1, SomeRetire DEF Close
<1>5. CASE CloseReturns \/ CloseTimeout \/ UNCHANGED vars
  BY <1>1, <1>5 DEF CloseReturns, CloseTimeout, vars
<1> QED
  BY <1>2, <1>3, <1>4, <1>5, TurnStepWorkers, WorkerEventWorkers
     DEF Next, OtherStep, Terminating

\* What the processes need to know of a turn's life when no worker is started.
LEMMA LifeWithoutSpawn ==
  ASSUME ProcessInv, NEW t \in Turn, Life(t), exit[t] = "none" => exit'[t] = "none",
         exit \in [Worker -> {"none", "pending", "resolved", "rejected"}]
  PROVE  /\ pc[t] \in {"given", "sent", "leaving", "done"} =>
              pc'[t] \in {"given", "sent", "leaving", "done"}
         /\ pc'[t] \in {"given", "sent"} =>
              \/ pc[t] \in {"given", "sent"} /\ on'[t] = on[t]
              \/ workers[KeyOf[t]] # NoTurn /\ on'[t] = workers[KeyOf[t]]
         /\ pc'[t] \in {"starting", "evicting"} =>
              \/ pc[t] \in {"starting", "evicting"}
              \/ workers[KeyOf[t]] = NoTurn /\ retiring[KeyOf[t]] = NoTurn
<1>1. ~(pc[t] = "starting" /\ ~Stopped(t) /\ Spawn(t))
  <2>1. SUFFICES ASSUME pc[t] = "starting", ~Stopped(t), Spawn(t) PROVE FALSE
    OBVIOUS
  <2>2. exit[t] = "none"
    BY <2>1 DEF ProcessInv, StartedOK, Started, Worker
  <2>3. exit'[t] = "pending"
    BY <2>1 DEF Spawn, Worker
  <2> QED
    BY <2>2, <2>3
<1>2. pc[t] \in {"given", "sent", "leaving", "done"} =>
        pc'[t] \in {"given", "sent", "leaving", "done"}
  BY DEF Life
<1>3. pc'[t] \in {"given", "sent"} =>
        \/ pc[t] \in {"given", "sent"} /\ on'[t] = on[t]
        \/ workers[KeyOf[t]] # NoTurn /\ on'[t] = workers[KeyOf[t]]
  BY <1>1 DEF Life
<1>4. pc'[t] \in {"starting", "evicting"} =>
        \/ pc[t] \in {"starting", "evicting"}
        \/ workers[KeyOf[t]] = NoTurn /\ retiring[KeyOf[t]] = NoTurn
  BY DEF Life
<1> QED
  BY <1>2, <1>3, <1>4

LEMMA NoneStarted ==
  ASSUME PoolInv, ProcessInv, \A t \in Turn : Life(t),
         \A w \in Worker : MayBeAlive(w)' => MayBeAlive(w),
         \A w \in Worker : exit'[w] = "none" <=> exit[w] = "none",
         dead' \subseteq Started, allWorkers' \subseteq Started,
         idle' \subseteq Started
  PROVE  OneAlive' /\ StartedOK' /\ NoneBefore'
<1>1. /\ exit \in [Worker -> {"none", "pending", "resolved", "rejected"}]
      /\ Started' = Started /\ Started \subseteq Turn
      /\ KeyOf \in [Turn -> Key] /\ workers \in [Key -> MaybeTurn]
  BY KeyAssumption DEF PoolInv, TypeOK, WorkerTypes, Started, Worker
<1>2. OneAlive'
  BY DEF ProcessInv, OneAlive
<1>3. StartedOK'
  <2>1. \A t \in Started : pc'[t] \in {"given", "sent", "leaving", "done"}
    BY <1>1, LifeWithoutSpawn DEF ProcessInv, StartedOK, Worker
  <2>2. ASSUME NEW t \in Turn, pc'[t] \in {"given", "sent"}
        PROVE  on'[t] \in Started /\ KeyOf[on'[t]] = KeyOf[t]
    <3>1. CASE pc[t] \in {"given", "sent"} /\ on'[t] = on[t]
      BY <3>1 DEF ProcessInv, StartedOK
    <3>2. CASE workers[KeyOf[t]] # NoTurn /\ on'[t] = workers[KeyOf[t]]
      BY <1>1, <3>2 DEF ProcessInv, WorkersOK, StartedOK
    <3> QED
      BY <1>1, <2>2, <3>1, <3>2, LifeWithoutSpawn DEF Worker
  <2> QED
    BY <1>1, <2>1, <2>2 DEF StartedOK
<1>4. NoneBefore'
  <2> SUFFICES ASSUME NEW t \in Turn, pc'[t] \in {"starting", "evicting"},
                      NEW w \in Worker, KeyOf[w] = KeyOf[t], MayBeAlive(w)
               PROVE  FALSE
    BY DEF NoneBefore
  <2>1. CASE pc[t] \in {"starting", "evicting"}
    BY <2>1 DEF ProcessInv, NoneBefore
  <2>2. CASE workers[KeyOf[t]] = NoTurn /\ retiring[KeyOf[t]] = NoTurn
    BY <2>2, NoTurnAssumption DEF ProcessInv, WorkersOK, Worker
  <2> QED
    BY <1>1, <2>1, <2>2, LifeWithoutSpawn DEF Worker
<1> QED
  BY <1>2, <1>3, <1>4

LEMMA RetireWorkersOK ==
  ASSUME PoolInv, ProcessInv, NEW S \in SUBSET Started, Retire(S)
  PROVE  WorkersOK'
<1>1. /\ workers \in [Key -> MaybeTurn] /\ retiring \in [Key -> MaybeTurn]
      /\ KeyOf \in [Turn -> Key] /\ Started \subseteq Worker
      /\ exit \in [Worker -> {"none", "pending", "resolved", "rejected"}]
  BY KeyAssumption DEF PoolInv, TypeOK, WorkerTypes, Started
<1>2. /\ dead' = dead \cup S /\ allWorkers \ S \subseteq allWorkers' /\ exit' = exit
      /\ \A k \in Key : workers'[k] = IF workers[k] \in S THEN NoTurn ELSE workers[k]
      /\ \A k \in Key : retiring'[k] =
           IF Blocking(S, k) = {} THEN retiring[k]
           ELSE CHOOSE w \in Blocking(S, k) : TRUE
  BY DEF Retire
<1>3. \A w \in Worker : MayBeAlive(w)' <=> MayBeAlive(w)
  BY <1>2 DEF MayBeAlive
\* Only the one process of a conversation can block it.
<1>4. \A k \in Key : \A w \in Blocking(S, k) :
        w \in S /\ KeyOf[w] = k /\ MayBeAlive(w) /\ w \in Worker
  BY <1>1 DEF Blocking, Started, MayBeAlive
<1>5. ASSUME NEW k \in Key, Blocking(S, k) # {}
      PROVE  retiring'[k] \in Blocking(S, k)
  <2>1. retiring'[k] = CHOOSE w \in Blocking(S, k) : TRUE
    BY <1>2, <1>5
  <2>2. \E w \in Blocking(S, k) : TRUE
    BY <1>5
  <2> QED
    BY <2>1, <2>2
<1>6. \A k \in Key : workers'[k] # NoTurn =>
        /\ KeyOf[workers'[k]] = k /\ workers'[k] \in allWorkers' \ dead'
        /\ MayBeAlive(workers[k])'
  BY <1>1, <1>2, <1>3 DEF ProcessInv, WorkersOK, MayBeAlive
<1>7. \A k \in Key : retiring'[k] # NoTurn =>
        /\ KeyOf[retiring'[k]] = k /\ retiring'[k] \in dead'
        /\ MayBeAlive(retiring[k])'
  <2> SUFFICES ASSUME NEW k \in Key, retiring'[k] # NoTurn
               PROVE  /\ KeyOf[retiring'[k]] = k /\ retiring'[k] \in dead'
                      /\ MayBeAlive(retiring[k])'
    OBVIOUS
  <2>1. CASE Blocking(S, k) = {}
    <3>1. retiring'[k] = retiring[k]
      BY <1>2, <2>1
    <3> QED
      BY <1>2, <3>1 DEF ProcessInv, WorkersOK, MayBeAlive
  <2>2. CASE Blocking(S, k) # {}
    BY <1>2, <1>3, <1>4, <1>5, <2>2 DEF MayBeAlive
  <2> QED
    BY <2>1, <2>2
<1>8. ASSUME NEW w \in Worker, MayBeAlive(w)
      PROVE  workers'[KeyOf[w]] = w \/ retiring'[KeyOf[w]] = w
  <2> DEFINE k == KeyOf[w]
  <2>0. k \in Key
    BY <1>1 DEF Worker
  <2>1. CASE w \in S
    <3>1. w \in Blocking(S, k)
      BY <1>8, <2>1 DEF Blocking, MayBeAlive
    <3>2. retiring'[k] \in Blocking(S, k)
      BY <1>5, <2>0, <3>1
    <3> QED
      BY <1>4, <1>8, <2>0, <3>2 DEF ProcessInv, OneAlive
  <2>2. CASE w \notin S
    <3>1. Blocking(S, k) = {}
      BY <1>4, <1>8, <2>0, <2>2 DEF ProcessInv, OneAlive
    <3>2. retiring'[k] = retiring[k]
      BY <1>2, <2>0, <3>1
    <3>3. workers[k] = w => workers'[k] = w
      BY <1>2, <2>0, <2>2
    <3> QED
      BY <1>8, <3>2, <3>3 DEF ProcessInv, WorkersOK
  <2> QED
    BY <2>1, <2>2
<1> QED
  BY <1>3, <1>6, <1>7, <1>8 DEF WorkersOK

LEMMA ExitWorkersOK ==
  ASSUME PoolInv, ProcessInv, NEW w \in Worker, ExitResolves(w) \/ ExitRejects(w)
  PROVE  WorkersOK'
<1>1. /\ workers \in [Key -> MaybeTurn] /\ retiring \in [Key -> MaybeTurn]
      /\ KeyOf \in [Turn -> Key] /\ w # NoTurn
      /\ exit \in [Worker -> {"none", "pending", "resolved", "rejected"}]
  BY KeyAssumption, NoTurnAssumption DEF PoolInv, TypeOK, WorkerTypes, Worker
<1>2. CASE ExitResolves(w)
  <2>1. /\ exit' = [exit EXCEPT ![w] = "resolved"] /\ dead' = dead
        /\ allWorkers \ {w} \subseteq allWorkers'
        /\ \A k \in Key : workers'[k] = IF workers[k] = w THEN NoTurn ELSE workers[k]
        /\ \A k \in Key : retiring'[k] = IF retiring[k] = w THEN NoTurn ELSE retiring[k]
    BY <1>2 DEF ExitResolves
  <2>2. \A v \in Worker \ {w} : MayBeAlive(v)' <=> MayBeAlive(v)
    BY <1>1, <2>1 DEF MayBeAlive
  <2>3. ~MayBeAlive(w)'
    BY <1>1, <2>1 DEF MayBeAlive
  <2>4. \A v \in Worker : MayBeAlive(v)' =>
          workers'[KeyOf[v]] = v \/ retiring'[KeyOf[v]] = v
    BY <1>1, <2>1, <2>2, <2>3 DEF ProcessInv, WorkersOK, Worker
  <2>5. \A k \in Key : workers'[k] # NoTurn =>
          /\ KeyOf[workers'[k]] = k /\ workers'[k] \in allWorkers' \ dead'
          /\ MayBeAlive(workers[k])'
    BY <1>1, <2>1, <2>2 DEF ProcessInv, WorkersOK, Worker, MaybeTurn, MayBeAlive
  <2>6. \A k \in Key : retiring'[k] # NoTurn =>
          /\ KeyOf[retiring'[k]] = k /\ retiring'[k] \in dead'
          /\ MayBeAlive(retiring[k])'
    BY <1>1, <2>1, <2>2 DEF ProcessInv, WorkersOK, Worker, MaybeTurn, MayBeAlive
  <2> QED
    BY <2>4, <2>5, <2>6 DEF WorkersOK
<1>3. CASE ExitRejects(w)
  <2>1. /\ exit[w] = "pending" /\ exit' = [exit EXCEPT ![w] = "rejected"]
        /\ UNCHANGED <<dead, allWorkers, workers, retiring>>
    BY <1>3 DEF ExitRejects, residentVars
  <2>2. \A v \in Worker : MayBeAlive(v)' <=> MayBeAlive(v)
    BY <1>1, <2>1 DEF MayBeAlive
  <2> QED
    BY <1>1, <2>1, <2>2 DEF ProcessInv, WorkersOK, Worker, MaybeTurn, MayBeAlive
<1> QED
  BY <1>2, <1>3

LEMMA SpawnProcess ==
  ASSUME PoolInv, OrderInv, ProcessInv, NEW t \in Turn, Spawn(t), ~Stopped(t),
         idle' \subseteq idle \cup Started
  PROVE  ProcessInv'
<1> DEFINE k == KeyOf[t]
<1>1. /\ workers \in [Key -> MaybeTurn] /\ retiring \in [Key -> MaybeTurn]
      /\ KeyOf \in [Turn -> Key] /\ k \in Key /\ t # NoTurn /\ t \in Worker
      /\ exit \in [Worker -> {"none", "pending", "resolved", "rejected"}]
      /\ pc \in [Turn -> Steps] /\ on \in [Turn -> MaybeTurn]
  BY KeyAssumption, NoTurnAssumption DEF PoolInv, TypeOK, TurnTypes, WorkerTypes,
     Worker
<1>2. /\ pc[t] = "starting" /\ workers' = [workers EXCEPT ![k] = t]
      /\ allWorkers' = allWorkers \cup {t} /\ exit' = [exit EXCEPT ![t] = "pending"]
      /\ pc' = [pc EXCEPT ![t] = "given"] /\ on' = [on EXCEPT ![t] = t]
      /\ UNCHANGED <<retiring, dead>>
  BY DEF Spawn
\* The turn starts its first worker, and its conversation has no process.
<1>3. exit[t] = "none" /\ t \notin dead
  BY <1>1, <1>2 DEF ProcessInv, StartedOK, Started
<1>4. \A w \in Worker : KeyOf[w] = k => ~MayBeAlive(w)
  BY <1>2 DEF ProcessInv, NoneBefore
<1>5. workers[k] = NoTurn
  BY <1>1, <1>4 DEF ProcessInv, WorkersOK, MaybeTurn, Worker
<1>6. MayBeAlive(t)' /\ \A w \in Worker \ {t} : MayBeAlive(w)' <=> MayBeAlive(w)
  BY <1>1, <1>2 DEF MayBeAlive
<1> HIDE DEF k
<1>7. WorkersOK'
  <2>1. \A l \in Key : workers'[l] # NoTurn =>
          /\ KeyOf[workers'[l]] = l /\ workers'[l] \in allWorkers' \ dead'
          /\ MayBeAlive(workers[l])'
    <3> SUFFICES ASSUME NEW l \in Key, workers'[l] # NoTurn
                 PROVE  /\ KeyOf[workers'[l]] = l /\ workers'[l] \in allWorkers' \ dead'
                        /\ MayBeAlive(workers[l])'
      OBVIOUS
    <3>1. CASE l = k
      BY <1>1, <1>2, <1>3, <3>1 DEF MayBeAlive, k
    <3>2. CASE l # k
      <4>1. workers'[l] = workers[l] /\ workers[l] \in Worker \ {t}
        BY <1>1, <1>2, <3>2 DEF MaybeTurn, Worker, ProcessInv, WorkersOK, k
      <4> QED
        BY <1>1, <1>2, <4>1 DEF ProcessInv, WorkersOK, MayBeAlive
    <3> QED
      BY <3>1, <3>2
  <2>2. \A l \in Key : retiring'[l] # NoTurn =>
          /\ KeyOf[retiring'[l]] = l /\ retiring'[l] \in dead'
          /\ MayBeAlive(retiring[l])'
    BY <1>1, <1>2, <1>3 DEF ProcessInv, WorkersOK, MayBeAlive, MaybeTurn, Worker
  <2>3. ASSUME NEW w \in Worker, MayBeAlive(w)'
        PROVE  workers'[KeyOf[w]] = w \/ retiring'[KeyOf[w]] = w
    <3>1. CASE w = t
      BY <1>1, <1>2, <3>1 DEF k
    <3>2. CASE w # t
      <4>1. MayBeAlive(w) /\ KeyOf[w] # k /\ KeyOf[w] \in Key
        BY <1>1, <1>4, <1>6, <2>3, <3>2 DEF Worker
      <4> QED
        BY <1>1, <1>2, <4>1 DEF ProcessInv, WorkersOK
    <3> QED
      BY <3>1, <3>2
  <2> QED
    BY <2>1, <2>2, <2>3 DEF WorkersOK
<1>8. OneAlive'
  BY <1>4, <1>6 DEF ProcessInv, OneAlive, k
<1>9. StartedOK'
  <2>1. Started' = Started \cup {t}
    BY <1>1, <1>2 DEF Started
  <2>2. \A u \in Started' : pc'[u] \in {"given", "sent", "leaving", "done"}
    BY <1>1, <1>2, <2>1 DEF ProcessInv, StartedOK, Started, Worker
  <2>3. \A u \in Turn : pc'[u] \in {"given", "sent"} =>
          on'[u] \in Started' /\ KeyOf[on'[u]] = KeyOf[u]
    BY <1>1, <1>2, <2>1 DEF ProcessInv, StartedOK
  <2>4. dead' \subseteq Started' /\ idle' \subseteq Started' /\ allWorkers' \subseteq Started'
    BY <1>2, <2>1 DEF ProcessInv, StartedOK
  <2> QED
    BY <2>2, <2>3, <2>4 DEF StartedOK
<1>10. NoneBefore'
  <2> SUFFICES ASSUME NEW u \in Turn, pc'[u] \in {"starting", "evicting"},
                      NEW w \in Worker, KeyOf[w] = KeyOf[u], MayBeAlive(w)'
               PROVE  FALSE
    BY DEF NoneBefore
  <2>1. u # t /\ pc[u] \in {"starting", "evicting"}
    BY <1>1, <1>2
  <2>2. KeyOf[u] # k
    BY <1>2, <2>1, OneInTurn DEF InTurn, Admitted, k
  <2>3. MayBeAlive(w)
    BY <1>6, <2>2 DEF k
  <2> QED
    BY <2>1, <2>3 DEF ProcessInv, NoneBefore
<1> QED
  BY <1>7, <1>8, <1>9, <1>10 DEF ProcessInv

LEMMA ProcessKept ==
  ASSUME PoolInv, OrderInv, ProcessInv, [Next]_vars
  PROVE  ProcessInv'
<1>1. WorkerStep /\ idle' \subseteq idle \cup Started /\ \A t \in Turn : Life(t)
  BY WorkerSteps, LifeGoesOn
<1>2. /\ idle \subseteq Started /\ dead \subseteq Started /\ allWorkers \subseteq Started
      /\ idle' \subseteq Started
      /\ exit \in [Worker -> {"none", "pending", "resolved", "rejected"}]
  BY <1>1 DEF ProcessInv, StartedOK, PoolInv, TypeOK, WorkerTypes
<1>3. CASE UNCHANGED <<workers, allWorkers, retiring, dead, exit>>
  <2>1. WorkersOK'
    BY <1>3 DEF ProcessInv, WorkersOK, MayBeAlive
  <2>2. OneAlive' /\ StartedOK' /\ NoneBefore'
    BY <1>1, <1>2, <1>3, NoneStarted DEF MayBeAlive
  <2> QED
    BY <2>1, <2>2 DEF ProcessInv
<1>4. ASSUME NEW S \in SUBSET Started, Retire(S) PROVE ProcessInv'
  <2>1. exit' = exit /\ dead' \subseteq Started /\ allWorkers' \subseteq Started
    BY <1>2, <1>4 DEF Retire
  <2>2. OneAlive' /\ StartedOK' /\ NoneBefore'
    BY <1>1, <1>2, <2>1, NoneStarted DEF MayBeAlive
  <2> QED
    BY <1>4, <2>2, RetireWorkersOK DEF ProcessInv
<1>5. ASSUME NEW t \in Turn, Spawn(t), ~Stopped(t) PROVE ProcessInv'
  BY <1>1, <1>5, SpawnProcess
<1>6. ASSUME NEW w \in Worker, ExitResolves(w) \/ ExitRejects(w) PROVE ProcessInv'
  <2>1. /\ exit[w] = "pending" /\ dead' = dead /\ allWorkers' \subseteq allWorkers
        /\ \/ exit' = [exit EXCEPT ![w] = "resolved"]
           \/ exit' = [exit EXCEPT ![w] = "rejected"]
    BY <1>6 DEF ExitResolves, ExitRejects, residentVars
  <2>2. /\ \A v \in Worker : MayBeAlive(v)' => MayBeAlive(v)
        /\ \A v \in Worker : exit'[v] = "none" <=> exit[v] = "none"
    BY <1>2, <2>1 DEF MayBeAlive
  <2>3. OneAlive' /\ StartedOK' /\ NoneBefore'
    BY <1>1, <1>2, <2>1, <2>2, NoneStarted
  <2> QED
    BY <1>6, <2>3, ExitWorkersOK DEF ProcessInv
<1> QED
  BY <1>1, <1>3, <1>4, <1>5, <1>6 DEF WorkerStep

-----------------------------------------------------------------------------
(* The invariant, and what it says of conversations.                       *)

LEMMA InitInv == Init => Inv
<1> SUFFICES ASSUME Init PROVE Inv
  OBVIOUS
<1>1. KeyOf \in [Turn -> Key]
  BY KeyAssumption
<1>2. OrderInv
  <2>1. /\ arrivals = [k \in Key |-> <<>>] /\ tailDone = {}
        /\ keyTail = [k \in Key |-> NoTurn] /\ pc = [t \in Turn |-> "new"]
    BY DEF Init
  <2>2. \A k \in Key : DOMAIN arrivals[k] = {}
    BY <2>1
  <2> QED
    BY <2>1, <2>2 DEF OrderInv, ArrivalsOK, TailsOK, PrevOK, InArrivalOrder
<1>3. ProcessInv
  BY <1>1 DEF Init, ProcessInv, WorkersOK, OneAlive, StartedOK, NoneBefore,
     Started, MayBeAlive
<1> QED
  BY <1>2, <1>3, InitPoolInv DEF Inv

THEOREM Invariant == Spec => []Inv
<1>1. Inv /\ [Next]_vars => Inv'
  BY StepKept, OrderKept, ProcessKept DEF Inv
<1> QED
  BY InitInv, <1>1, PTL DEF Spec

\* The turns of a conversation run in the order in which turn() was called for
\* them, one at a time, whoever aborts, fails or is retired.
THEOREM TurnsInOrder == Spec => []InArrivalOrder
BY Invariant, PTL DEF Inv, OrderInv

\* A conversation never has two processes that may both be alive.
THEOREM OneProcess == Spec => []OneProcessPerKey
<1>1. Inv => OneProcessPerKey
  <2> SUFFICES ASSUME Inv, NEW k \in Key,
                      NEW i \in DOMAIN arrivals[k], NEW j \in DOMAIN arrivals[k],
                      MayBeAlive(arrivals[k][i]), MayBeAlive(arrivals[k][j])
               PROVE  i = j
    BY DEF OneProcessPerKey
  <2>1. arrivals[k] \in Seq(Turn)
    BY DEF Inv, PoolInv, TypeOK, TurnTypes
  <2>2. arrivals[k][i] \in Worker /\ arrivals[k][j] \in Worker
    BY <2>1 DEF Worker
  <2>3. KeyOf[arrivals[k][i]] = k /\ KeyOf[arrivals[k][j]] = k
    BY DEF Inv, OrderInv, ArrivalsOK
  <2>4. arrivals[k][i] = arrivals[k][j]
    BY <2>2, <2>3 DEF Inv, ProcessInv, OneAlive
  <2> QED
    BY <2>4 DEF Inv, OrderInv, ArrivalsOK
<1> QED
  BY Invariant, <1>1, PTL

-----------------------------------------------------------------------------
(* A turn gets its own answer: what a process has read and not answered, or *)
(* has answered too early, belongs to the turn its worker has pending.      *)

AnswersOK ==
  \A w \in Worker :
    \/ holder[w] = NoTurn /\ inbox[w] = <<>> /\ reply[w] = NoTurn
    \/ holder[w] # NoTurn /\ inbox[w] = <<holder[w]>> /\ reply[w] = NoTurn
    \/ holder[w] # NoTurn /\ inbox[w] = <<>> /\ reply[w] = holder[w]

AnswerInv == AnswersOK /\ OwnAnswer

LEMMA SameAnswers ==
  ASSUME AnswerInv, UNCHANGED <<holder, inbox, reply, answer>>
  PROVE  AnswerInv'
BY DEF AnswerInv, AnswersOK, OwnAnswer

LEMMA RetireAnswers ==
  ASSUME AnswerInv, NEW S, Retire(S), answer' = answer
  PROVE  AnswerInv'
BY DEF AnswerInv, AnswersOK, OwnAnswer, Retire

LEMMA DeliverAnswers ==
  ASSUME PoolInv, AnswerInv, NEW t \in Turn, NEW w \in Worker, holder[w] = NoTurn,
         Deliver(t, w), answer' = answer
  PROVE  AnswerInv'
<1>1. /\ holder \in [Worker -> MaybeTurn] /\ inbox \in [Worker -> Seq(Turn)]
      /\ t # NoTurn
  BY NoTurnAssumption DEF PoolInv, TypeOK, WorkerTypes
<1>2. inbox[w] = <<>> /\ reply[w] = NoTurn
  BY DEF AnswerInv, AnswersOK
<1>3. Append(inbox[w], t) = <<t>>
  BY <1>2
<1>4. /\ holder'[w] = t /\ inbox'[w] = <<t>> /\ reply'[w] = NoTurn
      /\ \A v \in Worker \ {w} :
           holder'[v] = holder[v] /\ inbox'[v] = inbox[v] /\ reply'[v] = reply[v]
  BY <1>1, <1>2, <1>3 DEF Deliver
<1> QED
  BY <1>1, <1>4 DEF AnswerInv, AnswersOK, OwnAnswer

\* A turn finishes with its own answer, and its worker has nothing else.
LEMMA FinishAnswers ==
  ASSUME PoolInv, AnswerInv, NEW w \in Worker, holder[w] # NoTurn,
         FinishTurn(w, holder[w], <<>>)
  PROVE  AnswerInv'
<1>1. /\ holder \in [Worker -> MaybeTurn] /\ inbox \in [Worker -> Seq(Turn)]
      /\ reply \in [Worker -> MaybeTurn] /\ answer \in [Turn -> MaybeTurn]
      /\ holder[w] \in Turn
  BY DEF PoolInv, TypeOK, TurnTypes, WorkerTypes, MaybeTurn
<1>2. OwnAnswer'
  BY <1>1 DEF FinishTurn, AnswerInv, OwnAnswer
<1>3. /\ holder'[w] = NoTurn /\ inbox'[w] = <<>> /\ reply'[w] = NoTurn
      /\ \A v \in Worker \ {w} :
           holder'[v] = holder[v] /\ inbox'[v] = inbox[v] /\ reply'[v] = reply[v]
  BY <1>1 DEF FinishTurn, Retire
<1> QED
  BY <1>2, <1>3 DEF AnswerInv, AnswersOK

LEMMA InputWrittenAnswers ==
  ASSUME PoolInv, AnswerInv, NEW w \in Worker, InputWritten(w)
  PROVE  AnswerInv'
<1>1. CASE reply[w] # NoTurn
  <2>1. holder[w] # NoTurn /\ reply[w] = holder[w] /\ inbox[w] = <<>>
    BY <1>1 DEF InputWritten, AnswerInv, AnswersOK
  <2> QED
    BY <1>1, <2>1, FinishAnswers DEF InputWritten
<1>2. CASE reply[w] = NoTurn
  BY <1>2, SameAnswers DEF InputWritten
<1> QED
  BY <1>1, <1>2

LEMMA AnswerAnswers ==
  ASSUME PoolInv, AnswerInv, NEW w \in Worker, Answer(w)
  PROVE  AnswerInv'
<1>1. holder[w] # NoTurn /\ inbox[w] = <<holder[w]>> /\ reply[w] = NoTurn
  BY DEF Answer, AnswerInv, AnswersOK
<1>2. Head(inbox[w]) = holder[w] /\ Tail(inbox[w]) = <<>>
  BY <1>1
<1>3. CASE w \in written
  BY <1>1, <1>2, <1>3, FinishAnswers DEF Answer
<1>4. CASE w \notin written
  <2>1. /\ holder' = holder /\ answer' = answer
        /\ reply' = [reply EXCEPT ![w] = holder[w]]
        /\ inbox' = [inbox EXCEPT ![w] = Tail(inbox[w])]
    BY <1>1, <1>2, <1>4 DEF Answer
  <2>2. inbox \in [Worker -> Seq(Turn)] /\ reply \in [Worker -> MaybeTurn]
    BY DEF PoolInv, TypeOK, WorkerTypes
  <2>3. /\ inbox'[w] = <<>> /\ reply'[w] = holder'[w]
        /\ \A v \in Worker \ {w} : inbox'[v] = inbox[v] /\ reply'[v] = reply[v]
    BY <1>2, <2>1, <2>2
  <2> QED
    BY <1>1, <2>1, <2>3 DEF AnswerInv, AnswersOK, OwnAnswer
<1> QED
  BY <1>3, <1>4

LEMMA RunTurnAnswers ==
  ASSUME Inv, AnswerInv, NEW t \in Turn, RunTurn(t)
  PROVE  AnswerInv'
<1> DEFINE existing == workers[KeyOf[t]]
<1>1. answer' = answer
  BY DEF RunTurn
<1>2. CASE UNCHANGED workerVars
  BY <1>1, <1>2, SameAnswers DEF workerVars
<1>3. CASE Retire({existing})
  BY <1>1, <1>3, RetireAnswers
<1>4. CASE existing # NoTurn /\ ~Active(KeyOf[t]) /\ Deliver(t, existing)
  <2>1. existing \in allWorkers /\ KeyOf[existing] = KeyOf[t] /\ existing \in Worker
    BY <1>4, KeyAssumption DEF Inv, ProcessInv, WorkersOK, PoolInv, TypeOK, WorkerTypes
  <2>2. holder[existing] = NoTurn
    BY <1>4, <2>1 DEF Active
  <2> QED
    BY <1>1, <1>4, <2>1, <2>2, DeliverAnswers DEF Inv
<1> QED
  BY <1>2, <1>3, <1>4 DEF RunTurn

LEMMA TurnStepAnswers ==
  ASSUME Inv, AnswerInv, NEW t \in Turn, TurnStep(t)
  PROVE  AnswerInv'
<1>1. CASE PredecessorsSettled(t) \/ Admit(t) \/ Release(t) \/ AwaitCapacity(t)
           \/ ExitConfirmed(t) \/ ExitUnconfirmed(t)
  BY <1>1, SameAnswers DEF PredecessorsSettled, Admit, Release, AwaitCapacity,
     ExitConfirmed, ExitUnconfirmed, workerVars
<1>2. CASE Spawn(t)
  BY <1>2, SameAnswers DEF Spawn, workerVars, pendingVars
<1>3. CASE TakeWorker(t)
  <2>1. on[t] \in Worker
    BY <1>3 DEF TakeWorker, Inv, PoolInv, OnKnown, Worker
  <2>2. CASE UNCHANGED workerVars
    BY <1>3, <2>2, SameAnswers DEF TakeWorker, workerVars
  <2> QED
    BY <1>3, <2>1, <2>2, RetireAnswers, DeliverAnswers DEF TakeWorker, Inv
<1>4. ASSUME NEW w \in Worker, Evict(t, w) PROVE AnswerInv'
  BY <1>4, RetireAnswers DEF Evict
<1> QED
  BY <1>1, <1>2, <1>3, <1>4, RunTurnAnswers DEF TurnStep

LEMMA OtherStepAnswers ==
  ASSUME Inv, AnswerInv, OtherStep
  PROVE  AnswerInv'
<1>1. ASSUME NEW t \in Turn, TailResolves(t) \/ ExitTimeout(t) PROVE AnswerInv'
  BY <1>1, SameAnswers DEF TailResolves, ExitTimeout, workerVars
<1>2. ASSUME NEW t \in Turn, Abort(t) PROVE AnswerInv'
  <2>1. answer' = answer
    BY <1>2 DEF Abort, AbortQueued, AbortAtExit, AbortNoted, AbortSent, AbortSignal
  <2>2. CASE AbortSent(t)
    BY <2>1, <2>2, RetireAnswers DEF AbortSent
  <2> QED
    BY <1>2, <2>1, <2>2, SameAnswers DEF Abort, AbortQueued, AbortAtExit, AbortNoted,
       workerVars
<1>3. ASSUME NEW w \in Worker, RetireWorker(w) PROVE AnswerInv'
  BY <1>3, RetireAnswers DEF RetireWorker
<1>4. ASSUME NEW w \in Worker, InputFails(w) \/ ReactToExit(w) \/ WorkerFault(w)
             \/ IdleTimeout(w) \/ ExitTimer(w)
      PROVE  AnswerInv'
  BY <1>3, <1>4 DEF InputFails, ReactToExit, WorkerFault, IdleTimeout, ExitTimer
<1>5. ASSUME NEW w \in Worker, StdoutEnds(w) \/ ExitResolves(w) \/ ExitRejects(w)
      PROVE  AnswerInv'
  BY <1>5, SameAnswers DEF StdoutEnds, ExitResolves, ExitRejects, turnVars, pendingVars
<1>6. ASSUME NEW w \in Worker,
             InputWritten(w) \/ InputFails(w) \/ ReactToExit(w) \/ WorkerEvent(w)
      PROVE  AnswerInv'
  BY <1>4, <1>5, <1>6, InputWrittenAnswers, AnswerAnswers DEF WorkerEvent, Inv
<1>7. CASE Close
  BY <1>7, RetireAnswers DEF Close
<1>8. CASE CloseReturns \/ CloseTimeout
  BY <1>8, SameAnswers DEF CloseReturns, CloseTimeout, turnVars, workerVars
<1> QED
  BY <1>1, <1>2, <1>6, <1>7, <1>8 DEF OtherStep

\* No turn is ever resolved with the answer to another turn's text.
THEOREM AnswersAreOwn == Spec => []OwnAnswer
<1>1. Init => AnswerInv
  BY DEF Init, AnswerInv, AnswersOK, OwnAnswer
<1>2. Inv /\ AnswerInv /\ [Next]_vars => AnswerInv'
  <2> SUFFICES ASSUME Inv, AnswerInv, [Next]_vars PROVE AnswerInv'
    OBVIOUS
  <2>1. ASSUME NEW t \in Turn, Arrive(t) PROVE AnswerInv'
    BY <2>1, SameAnswers DEF Arrive, workerVars
  <2>2. CASE UNCHANGED vars
    BY <2>2, SameAnswers DEF vars, turnVars, workerVars
  <2> QED
    BY <2>1, <2>2, TurnStepAnswers, OtherStepAnswers DEF Next, Terminating
<1>3. AnswerInv => OwnAnswer
  BY DEF AnswerInv
<1> QED
  BY Invariant, <1>1, <1>2, <1>3, PTL DEF Spec

-----------------------------------------------------------------------------
(* With sandbox cleanup the workers that count are the processes that are   *)
(* not proven gone.                                                         *)

CountedOK ==
  RequireSandboxCleanup =>
    /\ \A w \in Worker : w \in allWorkers <=> MayBeAlive(w)
    /\ Cardinality(allWorkers) <= Limit

LEMMA CountedKept ==
  ASSUME Inv, CountedOK, [Next]_vars
  PROVE  CountedOK'
<1> SUFFICES ASSUME RequireSandboxCleanup
             PROVE  /\ \A w \in Worker : w \in allWorkers' <=> MayBeAlive(w)'
                    /\ Cardinality(allWorkers') <= Limit
  BY DEF CountedOK
<1>1. /\ exit \in [Worker -> {"none", "pending", "resolved", "rejected"}]
      /\ allWorkers \subseteq Worker
      /\ IsFiniteSet(allWorkers) /\ Cardinality(allWorkers) \in Nat /\ Limit \in Nat
      /\ \A w \in Worker : w \in allWorkers <=> MayBeAlive(w)
      /\ Cardinality(allWorkers) <= Limit
  BY TurnAssumption, LimitAssumption, FS_Subset, FS_CardinalityType
     DEF Inv, PoolInv, TypeOK, WorkerTypes, CountedOK, Worker
<1>2. CASE UNCHANGED <<allWorkers, exit>>
  BY <1>1, <1>2 DEF MayBeAlive
<1>3. ASSUME NEW S, Retire(S) PROVE UNCHANGED <<allWorkers, exit>>
  BY <1>3 DEF Retire
<1>4. ASSUME NEW t \in Turn, Spawn(t), ~Stopped(t)
      PROVE  /\ \A w \in Worker : w \in allWorkers' <=> MayBeAlive(w)'
             /\ Cardinality(allWorkers') <= Limit
  <2>1. /\ allWorkers' = allWorkers \cup {t} /\ exit' = [exit EXCEPT ![t] = "pending"]
        /\ ~(Cardinality(allWorkers) >= Limit)
    BY <1>4 DEF Spawn, Full, Counted
  <2>2. Cardinality(allWorkers') <= Cardinality(allWorkers) + 1
    <3>1. CASE t \in allWorkers
      <4>1. allWorkers' = allWorkers
        BY <2>1, <3>1
      <4> QED
        BY <1>1, <4>1
    <3>2. CASE t \notin allWorkers
      <4>1. Cardinality(allWorkers \cup {t}) = Cardinality(allWorkers) + 1
        BY <1>1, <3>2, FS_AddElement
      <4> QED
        BY <1>1, <2>1, <4>1
    <3> QED
      BY <3>1, <3>2
  <2>3. IsFiniteSet(allWorkers') /\ Cardinality(allWorkers') \in Nat
    BY <1>1, <2>1, FS_AddElement, FS_CardinalityType
  <2>4. Cardinality(allWorkers') <= Limit
    BY <1>1, <2>1, <2>2, <2>3
  <2> QED
    BY <1>1, <2>1, <2>4 DEF MayBeAlive, Worker
<1>5. ASSUME NEW v \in Worker, ExitResolves(v)
      PROVE  /\ \A w \in Worker : w \in allWorkers' <=> MayBeAlive(w)'
             /\ Cardinality(allWorkers') <= Limit
  <2>1. allWorkers' = allWorkers \ {v} /\ exit' = [exit EXCEPT ![v] = "resolved"]
    BY <1>5 DEF ExitResolves
  <2>2. /\ Cardinality(allWorkers') <= Cardinality(allWorkers)
        /\ Cardinality(allWorkers') \in Nat
    BY <1>1, <2>1, FS_Subset, FS_CardinalityType
  <2>3. Cardinality(allWorkers') <= Limit
    BY <1>1, <2>2
  <2> QED
    BY <1>1, <2>1, <2>3 DEF MayBeAlive
<1>6. ASSUME NEW v \in Worker, ExitRejects(v)
      PROVE  /\ \A w \in Worker : w \in allWorkers' <=> MayBeAlive(w)'
             /\ Cardinality(allWorkers') <= Limit
  <2>1. /\ exit[v] = "pending" /\ exit' = [exit EXCEPT ![v] = "rejected"]
        /\ allWorkers' = allWorkers
    BY <1>6 DEF ExitRejects, residentVars
  <2> QED
    BY <1>1, <2>1 DEF MayBeAlive
<1>7. WorkerStep
  BY WorkerSteps DEF Inv
<1> QED
  BY <1>2, <1>3, <1>4, <1>5, <1>6, <1>7 DEF WorkerStep

THEOREM CountedInvariant == Spec => []CountedOK
<1>1. Init => CountedOK
  <2>1. Cardinality({}) = 0 /\ Limit \in Nat
    BY FS_EmptySet, LimitAssumption
  <2> QED
    BY <2>1 DEF Init, CountedOK, MayBeAlive
<1>2. Inv /\ CountedOK /\ [Next]_vars => CountedOK'
  BY CountedKept
<1> QED
  BY Invariant, <1>1, <1>2, PTL DEF Spec

\* With sandbox cleanup there are never more processes that may be alive than
\* the limit allows, the retired ones and those of a failed wait included.
THEOREM ProtectedBounded == Spec => []ProtectedProcessesBounded
<1>1. Inv /\ CountedOK => ProtectedProcessesBounded
  <2> SUFFICES ASSUME Inv, CountedOK, RequireSandboxCleanup
               PROVE  Cardinality({w \in Worker : MayBeAlive(w)}) <= Limit
    BY DEF ProtectedProcessesBounded
  <2>1. {w \in Worker : MayBeAlive(w)} = allWorkers
    BY DEF CountedOK, Inv, PoolInv, TypeOK, WorkerTypes
  <2> QED
    BY <2>1 DEF CountedOK
<1> QED
  BY Invariant, CountedInvariant, <1>1, PTL

-----------------------------------------------------------------------------
(* close() returns only over processes that are gone.                       *)

ClosedOK == (closing = "open" <=> ~closed) /\ CloseConfirmsExits

LEMMA CloseSteps ==
  ASSUME [Next]_vars
  PROVE  UNCHANGED closeVars \/ Close \/ CloseReturns \/ CloseTimeout
<1>1. ASSUME NEW t \in Turn, TurnStep(t) PROVE UNCHANGED closeVars
  BY <1>1 DEF TurnStep, PredecessorsSettled, Admit, Release, RunTurn, AwaitCapacity,
     Spawn, TakeWorker, ExitConfirmed, ExitUnconfirmed, Evict
<1>2. ASSUME NEW t \in Turn, Arrive(t) \/ TailResolves(t) \/ ExitTimeout(t) \/ Abort(t)
      PROVE  UNCHANGED closeVars
  BY <1>2 DEF Arrive, TailResolves, ExitTimeout, Abort, AbortQueued, AbortAtExit,
     AbortNoted, AbortSent, AbortSignal
<1>3. ASSUME NEW w \in Worker,
             InputWritten(w) \/ InputFails(w) \/ ReactToExit(w) \/ WorkerEvent(w)
      PROVE  UNCHANGED closeVars
  BY <1>3 DEF InputWritten, InputFails, ReactToExit, WorkerEvent, Answer,
     WorkerFault, IdleTimeout, StdoutEnds, ExitResolves, ExitRejects, ExitTimer,
     RetireWorker
<1>4. CASE UNCHANGED vars
  BY <1>4 DEF vars
<1> QED
  BY <1>1, <1>2, <1>3, <1>4 DEF Next, OtherStep, Terminating

LEMMA ClosedKept ==
  ASSUME Inv, ClosedOK, [Next]_vars
  PROVE  ClosedOK'
<1>1. CASE UNCHANGED closeVars
  <2> SUFFICES ASSUME closing = "closed", NEW w \in Worker
               PROVE  /\ exit'[w] # "pending"
                      /\ RequireSandboxCleanup => exit'[w] # "rejected"
    BY <1>1 DEF ClosedOK, CloseConfirmsExits, closeVars
  <2>1. closed /\ \A v \in Worker : exit[v] # "pending"
    BY DEF ClosedOK, CloseConfirmsExits, Inv, PoolInv, TypeOK, CloseTypes
  <2>2. WorkerStep
    BY WorkerSteps DEF Inv
  <2>3. exit' = exit
    BY <2>1, <2>2 DEF WorkerStep, Retire, Stopped, ExitResolves, ExitRejects
  <2> QED
    BY <2>3 DEF ClosedOK, CloseConfirmsExits
<1>2. CASE Close \/ CloseTimeout
  BY <1>2 DEF Close, CloseTimeout, ClosedOK, CloseConfirmsExits
<1>3. CASE CloseReturns
  BY <1>3 DEF CloseReturns, ClosedOK, CloseConfirmsExits, AllExitsSettled, Unverified,
     workerVars
<1> QED
  BY <1>1, <1>2, <1>3, CloseSteps

\* When close() has returned, no process is left and none is started later.
THEOREM CloseConfirmed == Spec => []CloseConfirmsExits
<1>1. Init => ClosedOK
  BY DEF Init, ClosedOK, CloseConfirmsExits
<1>2. Inv /\ ClosedOK /\ [Next]_vars => ClosedOK'
  BY ClosedKept
<1>3. ClosedOK => CloseConfirmsExits
  BY DEF ClosedOK
<1> QED
  BY Invariant, <1>1, <1>2, <1>3, PTL DEF Spec

-----------------------------------------------------------------------------
(* Room for admitted turns.  Every resident worker that is not spare has a  *)
(* turn with a slot, and the turn that wants room has one too.              *)

LEMMA ResidentsFinite ==
  ASSUME Inv
  PROVE  /\ IsFiniteSet(Residents) /\ Residents \subseteq Worker
         /\ \A w \in Residents : KeyOf[w] \in Key /\ workers[KeyOf[w]] = w
BY TurnAssumption, KeyAssumption, FS_Subset
   DEF Inv, PoolInv, TypeOK, WorkerTypes, ProcessInv, WorkersOK, Residents, Worker,
       MaybeTurn

LEMMA HoldingBounded ==
  ASSUME Inv
  PROVE  IsFiniteSet(Holding) /\ Cardinality(Holding) <= Limit /\ Cardinality(Holding) \in Nat
BY TurnAssumption, FS_Subset, FS_CardinalityType DEF Inv, PoolInv, SlotAccounting, Holding

\* Fewer residents than Limit when each of them is taken by another turn that
\* holds a slot, and one more turn holds a slot.
LEMMA ResidentsTaken ==
  ASSUME Inv, NEW t \in Holding, Spare = {}, pc[t] # "sent"
  PROVE  Cardinality(Residents) < Limit
<1> DEFINE taker == [w \in Residents |-> holder[w]]
           others == Holding \ {t}
<1>1. /\ IsFiniteSet(others) /\ Cardinality(others) = Cardinality(Holding) - 1
      /\ Cardinality(others) \in Nat /\ Limit \in Nat
  BY HoldingBounded, FS_RemoveElement, FS_CardinalityType, LimitAssumption
<1>2. \A w \in Residents :
        /\ holder[w] # NoTurn /\ holder[w] \in Turn
        /\ pc[holder[w]] = "sent" /\ on[holder[w]] = w
  BY ResidentsFinite DEF Spare, Inv, PoolInv, HoldersSent, TypeOK, WorkerTypes,
     MaybeTurn
<1>3. taker \in [Residents -> others]
  BY <1>2 DEF Holding, Admitted
<1>4. \A v, w \in Residents : taker[v] = taker[w] => v = w
  BY <1>2
<1>5. taker \in Injection(Residents, others)
  BY <1>3, <1>4 DEF Injection, IsInjective
<1>6. Cardinality(Residents) <= Cardinality(others)
  BY <1>1, <1>5, FS_Injection
<1> QED
  BY <1>1, <1>6, HoldingBounded, ResidentsFinite, FS_CardinalityType

\* An admitted turn that finds the pool full finds a spare worker to evict, or
\* with sandbox cleanup one that is about to go: it is never refused.
THEOREM RoomForAdmitted == Spec => []CapacityForAdmitted
<1>1. Inv /\ CountedOK => CapacityForAdmitted
  <2> SUFFICES ASSUME Inv, CountedOK, NEW t \in Turn, pc[t] = "starting", Full,
                      Spare = {}
               PROVE  RequireSandboxCleanup /\ allWorkers \cap dead # {}
    BY DEF CapacityForAdmitted
  <2>1. Cardinality(Residents) < Limit /\ Cardinality(Residents) \in Nat /\ Limit \in Nat
    BY ResidentsTaken, ResidentsFinite, FS_CardinalityType, LimitAssumption
       DEF Holding, Admitted
  <2>2. RequireSandboxCleanup
    BY <2>1 DEF Full, Counted
  <2>3. ASSUME allWorkers \cap dead = {} PROVE FALSE
    <3>1. allWorkers \subseteq Residents
      <4> SUFFICES ASSUME NEW w \in allWorkers PROVE w \in Residents
        OBVIOUS
      <4>1. /\ w \in Worker /\ MayBeAlive(w) /\ w \notin dead
            /\ KeyOf[w] \in Key /\ w # NoTurn
        BY <2>2, <2>3, KeyAssumption, NoTurnAssumption
           DEF CountedOK, Inv, PoolInv, TypeOK, WorkerTypes, Worker
      <4>2. workers[KeyOf[w]] = w
        BY <4>1 DEF Inv, ProcessInv, WorkersOK
      <4> QED
        BY <4>1, <4>2 DEF Residents
    <3>2. Cardinality(allWorkers) <= Cardinality(Residents) /\ Cardinality(allWorkers) \in Nat
      BY <3>1, ResidentsFinite, FS_Subset, FS_CardinalityType
    <3> QED
      BY <2>1, <2>2, <3>2 DEF Full, Counted
  <2> QED
    BY <2>2, <2>3
<1> QED
  BY Invariant, CountedInvariant, <1>1, PTL

-----------------------------------------------------------------------------
(* A worker that was just started is not evicted.  While a turn is about to *)
(* receive its worker, the turns that were not ahead of it then stand still,*)
(* and every spare worker that was used since belongs to the conversation   *)
(* of one of them (SparesOwed).  Those turns hold slots, so a pool in which *)
(* the new worker were the least recently used spare is not full.           *)

FreshWorkers ==
  \A t \in Turn : pc[t] = "given" =>
    on[t] = t /\ exit[t] = "pending" /\ (Stopped(t) \/ t \notin dead)

SentNotAhead ==
  \A t, h \in Turn : pc[t] = "given" /\ pc[h] = "sent" => h \notin ahead[t]

Owes(x, v, t) ==
  x # t /\ KeyOf[x] = KeyOf[v] /\ pc[x] \in {"given", "leaving"} /\ x \notin ahead[t]

SparesOwed ==
  \A t \in Turn : pc[t] = "given" =>
    \A v \in Spare \cap newer[t] : \E x \in Turn : Owes(x, v, t)

FreshInv == FreshWorkers /\ SentNotAhead /\ SparesOwed

\* The pool is not full while the worker of a turn that is about to receive it
\* is its oldest spare worker.
LEMMA FreshNotOldest ==
  ASSUME Inv, FreshInv, ~RequireSandboxCleanup, NEW t \in Turn, pc[t] = "given",
         NEW s \in Turn, pc[s] = "starting", Oldest(t)
  PROVE  ~Full
<1> DEFINE rest == Residents \ {t}
           others == (Holding \ {t}) \ {s}
           taker == [v \in rest |-> CHOOSE x \in others : KeyOf[x] = KeyOf[v]]
<1>1. /\ t \in Holding /\ s \in Holding \ {t} /\ t \in Residents
      /\ Limit \in Nat
  BY LimitAssumption DEF Holding, Admitted, Oldest, Spare
<1>2. /\ IsFiniteSet(Holding \ {t})
      /\ Cardinality(Holding \ {t}) = Cardinality(Holding) - 1
  BY <1>1, HoldingBounded, FS_RemoveElement
<1>3. IsFiniteSet(others) /\ Cardinality(others) = Cardinality(Holding \ {t}) - 1
  BY <1>1, <1>2, FS_RemoveElement
<1>4. /\ IsFiniteSet(rest) /\ Cardinality(rest) = Cardinality(Residents) - 1
      /\ Cardinality(rest) \in Nat /\ Cardinality(Residents) \in Nat
  BY <1>1, ResidentsFinite, FS_RemoveElement, FS_CardinalityType
<1>5. ASSUME NEW v \in rest PROVE \E x \in others : KeyOf[x] = KeyOf[v]
  <2>1. v \in Worker
    BY ResidentsFinite
  <2>2. CASE holder[v] # NoTurn
    <3>1. /\ holder[v] \in Turn /\ pc[holder[v]] = "sent" /\ on[holder[v]] = v
      BY <2>1, <2>2 DEF Inv, PoolInv, HoldersSent, TypeOK, WorkerTypes, MaybeTurn
    <3>2. KeyOf[holder[v]] = KeyOf[v]
      BY <3>1 DEF Inv, ProcessInv, StartedOK
    <3> QED
      BY <3>1, <3>2 DEF Holding, Admitted
  <2>3. CASE holder[v] = NoTurn
    <3>1. v \in Spare \cap newer[t]
      BY <2>3 DEF Spare, Oldest
    <3>2. PICK x \in Turn : Owes(x, v, t)
      BY <3>1 DEF FreshInv, SparesOwed
    <3> QED
      BY <3>2 DEF Owes, Holding, Admitted
  <2> QED
    BY <2>2, <2>3
<1>6. \A v \in rest : taker[v] \in others /\ KeyOf[taker[v]] = KeyOf[v]
  <2> HIDE DEF others, rest
  <2> QED
    BY <1>5
<1>7. taker \in Injection(rest, others)
  <2>1. \A v, w \in rest : KeyOf[v] = KeyOf[w] => v = w
    BY ResidentsFinite
  <2>2. taker \in [rest -> others]
    BY <1>6
  <2> HIDE DEF taker
  <2> QED
    BY <1>6, <2>1, <2>2 DEF Injection, IsInjective
<1>8. Cardinality(rest) <= Cardinality(others)
  BY <1>3, <1>7, FS_Injection
<1>9. Cardinality(Residents) < Limit
  <2> HIDE DEF rest, others
  <2> QED
    BY <1>1, <1>2, <1>3, <1>4, <1>8, HoldingBounded
<1> QED
  BY <1>1, <1>4, <1>9 DEF Full, Counted

\* A worker retired while another turn is about to receive its own is not that
\* one, unless that turn was stopped.
LEMMA NoHolderYet ==
  ASSUME Inv, NEW t \in Turn, pc[t] = "given", NEW w \in Worker,
         NEW h \in Turn, pc[h] = "sent", on[h] = w, w = t
  PROVE  FALSE
<1>1. KeyOf[h] = KeyOf[t] /\ h # t
  BY DEF Inv, ProcessInv, StartedOK
<1> QED
  BY <1>1, OneInTurn DEF InTurn, Admitted, Inv

\* While a turn is about to receive its worker, no event is delivered.
LEMMA NotQuiet ==
  ASSUME NEW t \in Turn, pc[t] = "given"
  PROVE  ~Quiet
BY DEF Quiet, Queued

LEMMA StoppedStays ==
  ASSUME [Next]_vars, NEW t \in Turn, Stopped(t)
  PROVE  Stopped(t)'
<1>1. closed => closed'
  BY CloseSteps DEF Close, CloseReturns, CloseTimeout, closeVars
<1>2. aborted \subseteq aborted'
  <2>1. ASSUME NEW s \in Turn, TurnStep(s) PROVE aborted' = aborted
    BY <2>1 DEF TurnStep, PredecessorsSettled, Admit, Release, RunTurn, AwaitCapacity,
       Spawn, TakeWorker, ExitConfirmed, ExitUnconfirmed, Evict
  <2>2. ASSUME NEW s \in Turn, Arrive(s) \/ TailResolves(s) \/ ExitTimeout(s) \/ Abort(s)
        PROVE  aborted \subseteq aborted'
    BY <2>2 DEF Arrive, TailResolves, ExitTimeout, Abort, AbortQueued, AbortAtExit,
       AbortNoted, AbortSent, AbortSignal
  <2>3. ASSUME NEW w \in Worker,
               InputWritten(w) \/ InputFails(w) \/ ReactToExit(w) \/ WorkerEvent(w)
        PROVE  aborted' = aborted
    BY <2>3 DEF InputWritten, InputFails, ReactToExit, WorkerEvent, Answer,
       WorkerFault, IdleTimeout, StdoutEnds, ExitResolves, ExitRejects, ExitTimer,
       RetireWorker, turnVars
  <2>4. CASE Close \/ CloseReturns \/ CloseTimeout \/ UNCHANGED vars
    BY <2>4 DEF Close, CloseReturns, CloseTimeout, vars, turnVars
  <2> QED
    BY <2>1, <2>2, <2>3, <2>4 DEF Next, OtherStep, Terminating
<1> QED
  BY <1>1, <1>2 DEF Stopped

\* What a turn does is done by its own reaction, by its arrival, or is to be
\* settled, given its slot or aborted.
Moved(x) ==
  \/ pc'[x] = pc[x]
  \/ pc[x] \in Admitted /\ pc'[x] = "leaving"
  \/ pc[x] \in {"queued", "waiting"} /\ pc'[x] \in {"done", "granted"}

LEMMA SettleMoves ==
  ASSUME TypeOK, NEW S \in SUBSET Holding, Settle(S)
  PROVE  \A x \in Turn : Moved(x)
BY DEF Settle, Moved, Holding

LEMMA TurnStepMoves ==
  ASSUME PoolInv, NEW s \in Turn, TurnStep(s)
  PROVE  \A x \in Turn \ {s} : Moved(x)
<1>1. TypeOK /\ pc \in [Turn -> Steps]
  BY DEF PoolInv, TypeOK, TurnTypes
<1>2. ASSUME NEW S \in SUBSET Holding, Settle(S) PROVE \A x \in Turn : Moved(x)
  BY <1>1, <1>2, SettleMoves
<1>3. ASSUME NEW u, pc' = [pc EXCEPT ![s] = u] PROVE \A x \in Turn \ {s} : Moved(x)
  BY <1>1, <1>3 DEF Moved
<1>4. ASSUME pc[s] \in Admitted PROVE {s} \in SUBSET Holding
  BY <1>4 DEF Holding
<1>5. CASE PredecessorsSettled(s)
  BY <1>3, <1>5 DEF PredecessorsSettled
<1>6. CASE Admit(s)
  BY <1>3, <1>6 DEF Admit, AdmitRun
<1>7. CASE Release(s)
  <2>1. CASE waiting = <<>>
    BY <1>3, <1>7, <2>1 DEF Release
  <2>2. CASE waiting # <<>>
    <3>1. Head(waiting) \in Turn /\ pc[Head(waiting)] = "waiting"
      BY <2>2 DEF PoolInv, TypeOK, TurnTypes, LineOK
    <3> QED
      BY <1>1, <1>7, <2>2, <3>1 DEF Release, Moved
  <2> QED
    BY <2>1, <2>2
<1>8. CASE RunTurn(s)
  <2>1. {s} \in SUBSET Holding
    BY <1>4, <1>8 DEF RunTurn, Admitted
  <2> QED
    BY <1>2, <1>3, <1>8, <2>1 DEF RunTurn, Deliver
<1>9. CASE AwaitCapacity(s) \/ Spawn(s) \/ (\E w \in Worker : Evict(s, w))
  <2>1. {s} \in SUBSET Holding
    BY <1>4, <1>9 DEF AwaitCapacity, Spawn, Evict, Admitted
  <2> QED
    BY <1>2, <1>3, <1>9, <2>1 DEF AwaitCapacity, Spawn, Evict, Moved
<1>10. CASE TakeWorker(s)
  <2>1. {on[s]} \ dead \in SUBSET Worker
    BY <1>10 DEF TakeWorker, PoolInv, OnKnown, Worker
  <2>2. {s} \in SUBSET Holding /\ {s} \cup Losers({on[s]} \ dead) \in SUBSET Holding
    BY <1>4, <1>10, <2>1, LosersHold DEF TakeWorker, Admitted, PoolInv
  <2> QED
    BY <1>2, <1>3, <1>10, <2>2 DEF TakeWorker, Deliver
<1>11. CASE ExitConfirmed(s) \/ ExitUnconfirmed(s)
  <2>1. {s} \in SUBSET Holding
    BY <1>4, <1>11 DEF ExitConfirmed, ExitUnconfirmed, Admitted
  <2> QED
    BY <1>2, <1>3, <1>11, <2>1 DEF ExitConfirmed, ExitUnconfirmed
<1> QED
  BY <1>5, <1>6, <1>7, <1>8, <1>9, <1>10, <1>11 DEF TurnStep

LEMMA OtherStepMoves ==
  ASSUME PoolInv, OtherStep
  PROVE  \A x \in Turn : Moved(x)
<1>1. TypeOK /\ pc \in [Turn -> Steps]
  BY DEF PoolInv, TypeOK, TurnTypes
<1>2. ASSUME NEW S \in SUBSET Holding, Settle(S) PROVE \A x \in Turn : Moved(x)
  BY <1>1, <1>2, SettleMoves
<1>3. ASSUME UNCHANGED pc PROVE \A x \in Turn : Moved(x)
  BY <1>3 DEF Moved
<1>4. ASSUME NEW w \in Worker, Settle(Losers({w})) PROVE \A x \in Turn : Moved(x)
  <2>1. Losers({w}) \in SUBSET Holding
    BY LosersHold DEF PoolInv
  <2> QED
    BY <1>2, <1>4, <2>1
<1>5. ASSUME NEW t \in Turn, TailResolves(t) PROVE \A x \in Turn : Moved(x)
  BY <1>3, <1>5 DEF TailResolves
<1>6. ASSUME NEW t \in Turn, ExitTimeout(t) \/ AbortAtExit(t)
      PROVE  \A x \in Turn : Moved(x)
  <2>1. {t} \in SUBSET Holding
    BY <1>6 DEF ExitTimeout, AbortAtExit, AwaitsExit, Holding, Admitted
  <2> QED
    BY <1>2, <1>6, <2>1 DEF ExitTimeout, AbortAtExit
<1>7. ASSUME NEW t \in Turn, Abort(t) PROVE \A x \in Turn : Moved(x)
  <2>1. CASE AbortQueued(t)
    BY <1>1, <2>1 DEF AbortQueued, Moved
  <2>2. CASE AbortNoted(t)
    BY <1>3, <2>2 DEF AbortNoted
  <2>3. CASE AbortSent(t)
    <3>1. on[t] \in Worker
      BY <2>3 DEF AbortSent, PoolInv, OnKnown, Worker
    <3> QED
      BY <1>4, <2>3, <3>1 DEF AbortSent
  <2> QED
    BY <1>6, <1>7, <2>1, <2>2, <2>3 DEF Abort
<1>8. ASSUME NEW w \in Worker, holder[w] # NoTurn, Settle({holder[w]})
      PROVE  \A x \in Turn : Moved(x)
  <2>1. {holder[w]} \in SUBSET Holding
    BY <1>8 DEF PoolInv, HoldersSent, TypeOK, WorkerTypes, MaybeTurn, Holding, Admitted
  <2> QED
    BY <1>2, <1>8, <2>1
<1>9. ASSUME NEW w \in Worker,
             InputWritten(w) \/ InputFails(w) \/ ReactToExit(w) \/ WorkerEvent(w)
      PROVE  \A x \in Turn : Moved(x)
  BY <1>3, <1>4, <1>8, <1>9 DEF InputWritten, FinishTurn, InputFails, ReactToExit,
     WorkerEvent, RetireWorker, Answer, WorkerFault, IdleTimeout, StdoutEnds,
     ExitResolves, ExitRejects, ExitTimer, turnVars
<1>10. CASE Close
  <2> DEFINE stopped == Losers(allWorkers \ dead) \cup {t \in Turn : AwaitsExit(t)}
  <2>1. stopped \in SUBSET Holding
    <3>1. allWorkers \ dead \in SUBSET Worker
      BY <1>1 DEF TypeOK, WorkerTypes
    <3> QED
      BY <3>1, LosersHold DEF PoolInv, AwaitsExit, Holding, Admitted
  <2>2. \A x \in Turn : pc'[x] = IF x \in stopped THEN "leaving"
                                 ELSE IF pc[x] \in {"queued", "waiting"} THEN "done"
                                 ELSE pc[x]
    BY <1>10 DEF Close
  <2> HIDE DEF stopped
  <2> QED
    BY <2>1, <2>2 DEF Moved, Holding
<1>11. CASE CloseReturns \/ CloseTimeout
  BY <1>3, <1>11 DEF CloseReturns, CloseTimeout, turnVars
<1> QED
  BY <1>5, <1>6, <1>7, <1>9, <1>10, <1>11 DEF OtherStep

\* start() goes on without an await.
LEMMA StartAlone ==
  ASSUME [Next]_vars, NEW t \in Turn, pc[t] = "starting"
  PROVE  TurnStep(t) \/ UNCHANGED vars
<1>1. ~Undisturbed({})
  BY DEF Undisturbed
<1>2. ASSUME NEW s \in Turn, s # t, TurnStep(s) PROVE FALSE
  BY <1>2 DEF TurnStep, MayRun, Undisturbed
<1> QED
  BY <1>1, <1>2 DEF Next, OtherStep, Arrive, Terminating

\* A turn that was given its worker takes it, or settles.
LEMMA GivenTurnStep ==
  ASSUME PoolInv, NEW t \in Turn, pc[t] = "given", TurnStep(t)
  PROVE  TakeWorker(t) /\ pc'[t] \in {"leaving", "sent"}
<1>1. TakeWorker(t)
  BY DEF TurnStep, PredecessorsSettled, Admit, Release, RunTurn, AwaitCapacity, Spawn,
     ExitConfirmed, ExitUnconfirmed, Evict
<1>2. pc'[t] \in {"leaving", "sent"}
  BY <1>1 DEF TakeWorker, Settle, Deliver, PoolInv, TypeOK, TurnTypes
<1> QED
  BY <1>1, <1>2

\* While a turn is about to receive its worker, only turns that arrive come
\* ahead of it, and a turn that has had its step is behind.
LEMMA AheadSteps ==
  ASSUME PoolInv, [Next]_vars, NEW t \in Turn, pc[t] = "given", pc'[t] = "given"
  PROVE  /\ \A x \in Turn : x \in ahead'[t] => x \in ahead[t] \/ pc[x] = "new"
         /\ \A s \in Turn : TurnStep(s) /\ pc'[s] \notin {"granted", "starting"}
              => s \notin ahead'[t]
<1>1. ASSUME NEW s \in Turn, TurnStep(s)
      PROVE  /\ ahead'[t] \subseteq ahead[t]
             /\ pc'[s] \notin {"granted", "starting"} => s \notin ahead'[t]
  <2>1. s # t
    BY <1>1, GivenTurnStep
  <2> QED
    BY <1>1, <2>1 DEF TurnStep, Requeue
<1>2. ASSUME NEW s \in Turn, Arrive(s)
      PROVE  \A x \in Turn : x \in ahead'[t] => x \in ahead[t] \/ pc[x] = "new"
  BY <1>2 DEF Arrive
<1>3. ASSUME OtherStep \/ UNCHANGED vars PROVE ahead' = ahead
  BY <1>3 DEF OtherStep, vars
<1> QED
  BY <1>1, <1>2, <1>3 DEF Next, Terminating

\* A turn that was not ahead stands still: it may only be made to settle.
LEMMA StandsStill ==
  ASSUME PoolInv, [Next]_vars, NEW t \in Turn, pc[t] = "given", pc'[t] = "given",
         NEW x \in Turn, x # t, x \notin ahead[t], pc[x] \in {"given", "leaving"}
  PROVE  pc'[x] \in {"given", "leaving"} /\ x \notin ahead'[t]
<1>1. x \notin ahead'[t]
  BY AheadSteps
<1>2. ~TurnStep(x)
  BY DEF TurnStep, MayRun
<1>3. Moved(x)
  <2>1. ASSUME NEW s \in Turn, Arrive(s) PROVE Moved(x)
    <3>1. pc'[x] = pc[x]
      BY <2>1 DEF Arrive, AdmitRun, PoolInv, TypeOK, TurnTypes
    <3> QED
      BY <3>1 DEF Moved
  <2> QED
    BY <1>2, <2>1, TurnStepMoves, OtherStepMoves DEF Next, Terminating, vars, turnVars,
       Moved
<1> QED
  BY <1>1, <1>3 DEF Moved

\* A turn whose text was just sent is behind, too.
LEMMA SentIsBehind ==
  ASSUME Inv, SentNotAhead, [Next]_vars,
         NEW t \in Turn, pc[t] = "given", pc'[t] = "given",
         NEW h \in Turn, pc'[h] = "sent"
  PROVE  h \notin ahead'[t]
<1>1. CASE pc[h] = "sent"
  BY <1>1, AheadSteps DEF SentNotAhead, Inv
<1>2. CASE pc[h] # "sent"
  <2>1. ~Moved(h)
    BY <1>2 DEF Moved
  <2>2. ~\E s \in Turn : Arrive(s)
    BY <1>2 DEF Arrive, AdmitRun, Inv, PoolInv, TypeOK, TurnTypes
  <2>3. TurnStep(h)
    BY <2>1, <2>2, TurnStepMoves, OtherStepMoves DEF Next, Terminating, vars, turnVars,
       Moved, Inv
  <2> QED
    BY <2>3, AheadSteps DEF Inv
<1> QED
  BY <1>1, <1>2

\* The step that hands a turn its worker: all that was queued is ahead.
LEMMA SpawnStep ==
  ASSUME Inv, [Next]_vars, NEW t \in Turn, pc[t] # "given", pc'[t] = "given"
  PROVE  /\ Spawn(t) /\ ~Stopped(t) /\ pc[t] = "starting"
         /\ ahead'[t] = {v \in Turn \ {t} : Queued(v)}
<1>1. pc[t] = "starting" /\ Spawn(t) /\ ~Stopped(t)
  BY LifeGoesOn DEF Inv, Life
<1>2. TurnStep(t)
  BY <1>1, StartAlone DEF vars, turnVars
<1> QED
  BY <1>1, <1>2 DEF TurnStep, Requeue

LEMMA SentKept ==
  ASSUME Inv, SentNotAhead, [Next]_vars
  PROVE  SentNotAhead'
<1> SUFFICES ASSUME NEW t \in Turn, NEW h \in Turn, pc'[t] = "given", pc'[h] = "sent"
             PROVE  h \notin ahead'[t]
  BY DEF SentNotAhead
<1>1. CASE pc[t] = "given"
  BY <1>1, SentIsBehind
<1>2. CASE pc[t] # "given"
  <2>1. /\ Spawn(t) /\ ~Stopped(t) /\ ahead'[t] = {v \in Turn \ {t} : Queued(v)}
    BY <1>2, SpawnStep
  <2>2. pc[h] = "sent"
    BY <2>1 DEF Spawn, Inv, PoolInv, TypeOK, TurnTypes
  <2> QED
    BY <2>1, <2>2 DEF Queued
<1> QED
  BY <1>1, <1>2

\* Where a spare worker that counts as used after t's comes from: it was one,
\* it was just started, or its turn has just finished.
SpareFrom(v, t) ==
  \/ v \in Spare /\ v \in newer[t]
  \/ v \in Turn /\ pc[v] = "starting" /\ pc'[v] = "given"
  \/ v \in Worker /\ holder[v] # NoTurn /\ pc'[holder[v]] = "leaving"

LEMMA SameSpares ==
  ASSUME NEW t, UNCHANGED <<workers, holder, newer>>
  PROVE  \A v \in Spare' \cap newer'[t] : SpareFrom(v, t)
BY DEF SpareFrom, Spare, Residents

LEMMA RetireSpares ==
  ASSUME TypeOK, NEW t \in Turn, NEW S, Retire(S)
  PROVE  \A v \in Spare' \cap newer'[t] : SpareFrom(v, t)
<1> SUFFICES ASSUME NEW v \in Spare', v \in newer'[t] PROVE SpareFrom(v, t)
  OBVIOUS
<1>1. PICK k \in Key : v = workers'[k] /\ v # NoTurn /\ holder'[v] = NoTurn
  BY DEF Spare, Residents
<1>2. v = workers[k] /\ v \notin S /\ v \in Worker
  BY <1>1 DEF Retire, TypeOK, WorkerTypes, MaybeTurn, Worker
<1>3. holder[v] = NoTurn /\ v \in newer[t]
  BY <1>1, <1>2 DEF Retire, Worker
<1> QED
  BY <1>1, <1>2, <1>3 DEF SpareFrom, Spare, Residents

LEMMA DeliverSpares ==
  ASSUME TypeOK, NEW t \in Turn, NEW s \in Turn, NEW w \in Worker, Deliver(s, w)
  PROVE  \A v \in Spare' \cap newer'[t] : SpareFrom(v, t)
<1>1. s # NoTurn
  BY NoTurnAssumption
<1> QED
  BY <1>1 DEF Deliver, SpareFrom, Spare, Residents, TypeOK, WorkerTypes

LEMMA SpawnSpares ==
  ASSUME TypeOK, NEW t \in Turn, NEW s \in Turn, Spawn(s), ~Stopped(s)
  PROVE  \A v \in Spare' \cap newer'[t] : SpareFrom(v, t)
<1>1. /\ workers' = [workers EXCEPT ![KeyOf[s]] = s] /\ holder' = holder
      /\ newer'[t] \subseteq newer[t] \cup {s}
      /\ pc[s] = "starting" /\ pc'[s] = "given"
  BY DEF Spawn, Touch, pendingVars, TypeOK, TurnTypes, Worker
<1> QED
  BY <1>1 DEF SpareFrom, Spare, Residents, TypeOK, WorkerTypes

LEMMA FinishSpares ==
  ASSUME TypeOK, NEW t \in Turn, NEW w \in Worker, holder[w] # NoTurn,
         NEW r, NEW rest, FinishTurn(w, r, rest)
  PROVE  \A v \in Spare' \cap newer'[t] : SpareFrom(v, t)
<1>1. CASE Retire({w})
  BY <1>1, RetireSpares
<1>2. CASE ~Retire({w})
  <2>1. /\ workers' = workers /\ holder' = [holder EXCEPT ![w] = NoTurn]
        /\ newer'[t] \subseteq newer[t] \cup {w}
    BY <1>2 DEF FinishTurn, Touch, Worker
  <2>2. pc'[holder[w]] = "leaving"
    BY DEF FinishTurn, Settle, TypeOK, WorkerTypes, MaybeTurn
  <2> QED
    BY <2>1, <2>2 DEF SpareFrom, Spare, Residents, TypeOK, WorkerTypes
<1> QED
  BY <1>1, <1>2

LEMMA SpareSteps ==
  ASSUME Inv, [Next]_vars, NEW t \in Turn
  PROVE  \A v \in Spare' \cap newer'[t] : SpareFrom(v, t)
<1> DEFINE Goal == \A v \in Spare' \cap newer'[t] : SpareFrom(v, t)
<1>1. TypeOK
  BY DEF Inv, PoolInv
<1>2. ASSUME UNCHANGED workerVars PROVE Goal
  BY <1>2, SameSpares DEF workerVars
<1>3. ASSUME NEW S, Retire(S) PROVE Goal
  BY <1>1, <1>3, RetireSpares
<1>4. ASSUME NEW s \in Turn, NEW w \in Worker, Deliver(s, w) PROVE Goal
  BY <1>1, <1>4, DeliverSpares
<1>5. ASSUME NEW w \in Worker, NEW r, NEW rest, holder[w] # NoTurn, FinishTurn(w, r, rest)
      PROVE  Goal
  BY <1>1, <1>5, FinishSpares
<1>6. ASSUME NEW s \in Turn, TurnStep(s) PROVE Goal
  <2> HIDE DEF Goal
  <2>1. CASE RunTurn(s)
    <3>1. workers[KeyOf[s]] # NoTurn => workers[KeyOf[s]] \in Worker
      BY <1>1, KeyAssumption DEF TypeOK, WorkerTypes, MaybeTurn, Worker
    <3> QED
      BY <1>2, <1>3, <1>4, <2>1, <3>1 DEF RunTurn
  <2>2. CASE Spawn(s)
    <3>1. CASE Stopped(s)
      BY <1>2, <2>2, <3>1 DEF Spawn
    <3>2. CASE ~Stopped(s)
      BY <1>1, <2>2, <3>2, SpawnSpares DEF Goal
    <3> QED
      BY <3>1, <3>2
  <2>3. CASE TakeWorker(s)
    <3>1. on[s] \in Worker
      BY <2>3 DEF TakeWorker, Inv, PoolInv, OnKnown, Worker
    <3> QED
      BY <1>2, <1>3, <1>4, <2>3, <3>1 DEF TakeWorker
  <2>4. ASSUME NEW w \in Worker, Evict(s, w) PROVE Goal
    BY <1>3, <2>4 DEF Evict
  <2> QED
    BY <1>2, <1>6, <2>1, <2>2, <2>3, <2>4 DEF TurnStep, PredecessorsSettled, Admit,
       Release, AwaitCapacity, ExitConfirmed, ExitUnconfirmed
<1>7. ASSUME NEW w \in Worker,
             InputWritten(w) \/ InputFails(w) \/ ReactToExit(w) \/ WorkerEvent(w)
      PROVE  Goal
  <2>1. CASE UNCHANGED <<workers, holder, newer>>
    BY <2>1, SameSpares
  <2>2. CASE ExitResolves(w)
    <3>1. Spare' \subseteq Spare /\ newer' = newer
      BY <2>2, <1>1 DEF ExitResolves, Spare, Residents, TypeOK, WorkerTypes, pendingVars
    <3> QED
      BY <3>1 DEF SpareFrom
  <2>3. CASE InputWritten(w)
    BY <1>5, <2>1, <2>3 DEF InputWritten, residentVars
  <2>4. CASE Answer(w)
    BY <1>5, <2>1, <2>4 DEF Answer, residentVars
  <2>5. CASE StdoutEnds(w) \/ ExitRejects(w)
    BY <2>1, <2>5 DEF StdoutEnds, ExitRejects, residentVars, pendingVars
  <2>6. CASE RetireWorker(w)
    BY <1>3, <2>6 DEF RetireWorker
  <2> QED
    BY <1>7, <2>2, <2>3, <2>4, <2>5, <2>6 DEF InputFails, ReactToExit, WorkerEvent,
       WorkerFault, IdleTimeout, ExitTimer
<1>8. ASSUME NEW s \in Turn, Arrive(s) \/ TailResolves(s) \/ ExitTimeout(s) \/ Abort(s)
      PROVE  Goal
  BY <1>2, <1>3, <1>8 DEF Arrive, TailResolves, ExitTimeout, Abort, AbortQueued,
     AbortAtExit, AbortNoted, AbortSent
<1>9. CASE Close \/ CloseReturns \/ CloseTimeout \/ UNCHANGED vars
  BY <1>2, <1>3, <1>9 DEF Close, CloseReturns, CloseTimeout, vars
<1> QED
  BY <1>6, <1>7, <1>8, <1>9 DEF Next, OtherStep, Terminating

LEMMA SparesKept ==
  ASSUME Inv, SentNotAhead, SparesOwed, [Next]_vars
  PROVE  SparesOwed'
<1> SUFFICES ASSUME NEW t \in Turn, pc'[t] = "given",
                    NEW v \in Spare' \cap newer'[t]
             PROVE  \E x \in Turn : Owes(x, v, t)'
  BY DEF SparesOwed
<1>1. TypeOK
  BY DEF Inv, PoolInv
<1>2. CASE pc[t] # "given"
  <2>1. newer'[t] = {}
    BY <1>2, SpawnStep DEF Spawn, Touch, Worker
  <2> QED
    BY <2>1
<1>3. CASE pc[t] = "given"
  <2>1. SpareFrom(v, t)
    BY SpareSteps
  <2>2. CASE v \in Spare /\ v \in newer[t]
    <3>1. PICK x \in Turn : Owes(x, v, t)
      BY <1>3, <2>2 DEF SparesOwed
    <3>2. pc'[x] \in {"given", "leaving"} /\ x \notin ahead'[t]
      BY <1>3, <3>1, StandsStill DEF Owes, Inv
    <3> QED
      BY <3>1, <3>2 DEF Owes
  <2>3. CASE v \in Turn /\ pc[v] = "starting" /\ pc'[v] = "given"
    <3>1. TurnStep(v) /\ v # t
      BY <1>3, <2>3, StartAlone DEF vars, turnVars
    <3>2. v \notin ahead'[t]
      BY <1>3, <2>3, <3>1, AheadSteps DEF Inv
    <3> QED
      BY <2>3, <3>1, <3>2 DEF Owes
  <2>4. CASE v \in Worker /\ holder[v] # NoTurn /\ pc'[holder[v]] = "leaving"
    <3> DEFINE h == holder[v]
    <3>1. h \in Turn /\ pc[h] = "sent" /\ on[h] = v
      BY <1>1, <2>4 DEF Inv, PoolInv, HoldersSent, TypeOK, WorkerTypes, MaybeTurn
    <3>2. KeyOf[h] = KeyOf[v]
      BY <3>1 DEF Inv, ProcessInv, StartedOK
    <3>3. h # t /\ h \notin ahead'[t]
      BY <1>3, <3>1, AheadSteps DEF SentNotAhead, Inv
    <3> QED
      BY <2>4, <3>1, <3>2, <3>3 DEF Owes
  <2> QED
    BY <2>1, <2>2, <2>3, <2>4 DEF SpareFrom
<1> QED
  BY <1>2, <1>3

\* Whose doing it can be that worker w is retired.
RetiredBy(w) ==
  \/ Quiet \/ closed' \/ ExitCalls(w)
  \/ \E s \in Turn : pc[s] = "granted" /\ KeyOf[s] = KeyOf[w]
  \/ \E s \in Turn : TurnStep(s) /\ Evict(s, w)
  \/ \E s \in Turn : TurnStep(s) /\ pc[s] = "given" /\ w = on[s]
  \/ \E h \in Turn : pc[h] = "sent" /\ on[h] = w

LEMMA RetireSteps ==
  ASSUME Inv, [Next]_vars, NEW w \in Worker, w \notin dead, w \in dead'
  PROVE  RetiredBy(w)
<1>1. TypeOK
  BY DEF Inv, PoolInv
<1>2. ~UNCHANGED dead
  OBVIOUS
<1>3. ASSUME NEW S, Retire(S) PROVE w \in S
  BY <1>3 DEF Retire
<1>4. ASSUME NEW s \in Turn, TurnStep(s) PROVE RetiredBy(w)
  <2>1. CASE RunTurn(s)
    <3>1. w = workers[KeyOf[s]] /\ w # NoTurn /\ pc[s] = "granted"
      BY <1>2, <1>3, <2>1, NoTurnAssumption DEF RunTurn, workerVars, Deliver, Worker
    <3>2. KeyOf[s] = KeyOf[w]
      BY <3>1, KeyAssumption DEF Inv, ProcessInv, WorkersOK
    <3> QED
      BY <3>1, <3>2 DEF RetiredBy
  <2>2. CASE TakeWorker(s)
    <3>1. pc[s] = "given" /\ w = on[s]
      BY <1>2, <1>3, <2>2 DEF TakeWorker, workerVars, Deliver
    <3> QED
      BY <1>4, <3>1 DEF RetiredBy
  <2>3. ASSUME NEW v \in Worker, Evict(s, v) PROVE RetiredBy(w)
    <3>1. w = v
      BY <1>3, <2>3 DEF Evict
    <3> QED
      BY <1>4, <2>3, <3>1 DEF RetiredBy
  <2> QED
    BY <1>2, <1>4, <2>1, <2>2, <2>3 DEF TurnStep, PredecessorsSettled, Admit, Release,
       AwaitCapacity, Spawn, ExitConfirmed, ExitUnconfirmed, workerVars
<1>5. ASSUME NEW v \in Worker, holder[v] # NoTurn, w = v PROVE RetiredBy(w)
  <2>1. holder[v] \in Turn /\ pc[holder[v]] = "sent" /\ on[holder[v]] = v
    BY <1>1, <1>5 DEF Inv, PoolInv, HoldersSent, TypeOK, WorkerTypes, MaybeTurn
  <2> QED
    BY <1>5, <2>1 DEF RetiredBy
<1>6. ASSUME NEW v \in Worker,
             InputWritten(v) \/ InputFails(v) \/ ReactToExit(v) \/ WorkerEvent(v)
      PROVE  RetiredBy(w)
  <2>1. CASE WorkerEvent(v)
    BY <2>1 DEF WorkerEvent, RetiredBy
  <2>2. CASE InputFails(v)
    BY <1>3, <1>5, <2>2 DEF InputFails, RetireWorker
  <2>3. CASE ReactToExit(v)
    BY <1>3, <2>3 DEF ReactToExit, RetireWorker, RetiredBy
  <2>4. CASE InputWritten(v)
    BY <1>2, <1>3, <1>5, <2>4 DEF InputWritten, FinishTurn, residentVars
  <2> QED
    BY <1>6, <2>1, <2>2, <2>3, <2>4
<1>7. ASSUME NEW s \in Turn, Arrive(s) \/ TailResolves(s) \/ ExitTimeout(s) \/ Abort(s)
      PROVE  RetiredBy(w)
  BY <1>2, <1>3, <1>7 DEF Arrive, TailResolves, ExitTimeout, Abort, AbortQueued,
     AbortAtExit, AbortNoted, AbortSent, workerVars, RetiredBy
<1>8. CASE Close \/ CloseReturns \/ CloseTimeout \/ UNCHANGED vars
  BY <1>2, <1>8 DEF Close, CloseReturns, CloseTimeout, vars, workerVars, RetiredBy
<1> QED
  BY <1>4, <1>6, <1>7, <1>8 DEF Next, OtherStep, Terminating

\* The exit of a worker is an event, and a start names its own worker.
LEMMA ExitSteps ==
  ASSUME TypeOK, [Next]_vars, NEW w \in Worker, exit'[w] # exit[w]
  PROVE  Quiet \/ pc[w] = "starting"
<1>1. exit' # exit
  OBVIOUS
<1>2. ASSUME NEW S, Retire(S) PROVE FALSE
  BY <1>1, <1>2 DEF Retire
<1>3. ASSUME NEW s \in Turn, TurnStep(s) PROVE pc[w] = "starting"
  <2>1. CASE Spawn(s)
    <3>1. w = s
      BY <1>1, <2>1 DEF Spawn, TypeOK, WorkerTypes, workerVars
    <3> QED
      BY <2>1, <3>1 DEF Spawn
  <2> QED
    BY <1>1, <1>2, <1>3, <2>1 DEF TurnStep, PredecessorsSettled, Admit, Release, RunTurn,
       Evict, TakeWorker, Deliver, AwaitCapacity, ExitConfirmed, ExitUnconfirmed,
       workerVars
<1>4. ASSUME NEW v \in Worker,
             InputWritten(v) \/ InputFails(v) \/ ReactToExit(v) \/ WorkerEvent(v)
      PROVE  Quiet
  BY <1>1, <1>2, <1>4 DEF InputWritten, FinishTurn, InputFails, ReactToExit,
     WorkerEvent, RetireWorker
<1>5. ASSUME NEW s \in Turn, Arrive(s) \/ TailResolves(s) \/ ExitTimeout(s) \/ Abort(s)
      PROVE  FALSE
  BY <1>1, <1>2, <1>5 DEF Arrive, TailResolves, ExitTimeout, Abort, AbortQueued,
     AbortAtExit, AbortNoted, AbortSent, workerVars
<1>6. CASE Close \/ CloseReturns \/ CloseTimeout \/ UNCHANGED vars
  BY <1>1, <1>2, <1>6 DEF Close, CloseReturns, CloseTimeout, vars, workerVars
<1> QED
  BY <1>3, <1>4, <1>5, <1>6 DEF Next, OtherStep, Terminating

LEMMA FreshKept ==
  ASSUME Inv, FreshInv, ~RequireSandboxCleanup, [Next]_vars
  PROVE  FreshWorkers'
<1> SUFFICES ASSUME NEW t \in Turn, pc'[t] = "given"
             PROVE  /\ on'[t] = t /\ exit'[t] = "pending"
                    /\ Stopped(t)' \/ t \notin dead'
  BY DEF FreshWorkers
<1>1. TypeOK /\ t \in Worker
  BY DEF Inv, PoolInv, Worker
<1>2. CASE pc[t] # "given"
  <2>1. Spawn(t) /\ ~Stopped(t) /\ pc[t] = "starting"
    BY <1>2, SpawnStep
  <2>2. t \notin dead
    BY <2>1 DEF Inv, ProcessInv, StartedOK
  <2> QED
    BY <1>1, <2>1, <2>2 DEF Spawn, TypeOK, TurnTypes, WorkerTypes
<1>3. CASE pc[t] = "given"
  <2>1. on[t] = t /\ exit[t] = "pending" /\ (Stopped(t) \/ t \notin dead)
    BY <1>3 DEF FreshInv, FreshWorkers
  <2>2. on'[t] = t
    BY <1>3, <2>1, LifeGoesOn DEF Inv, Life
  <2>3. exit'[t] = "pending"
    BY <1>1, <1>3, <2>1, ExitSteps, NotQuiet
  <2>4. ASSUME t \notin dead, t \in dead' PROVE Stopped(t)'
    <3>1. RetiredBy(t)
      BY <1>1, <2>4, RetireSteps
    <3>2. ~Quiet /\ ~ExitCalls(t)
      BY <1>3, <2>1, NotQuiet DEF ExitCalls
    <3>3. ASSUME NEW s \in Turn, pc[s] = "granted", KeyOf[s] = KeyOf[t] PROVE FALSE
      BY <1>3, <3>3, OneInTurn DEF Inv, InTurn, Admitted
    <3>4. ASSUME NEW s \in Turn, TurnStep(s), Evict(s, t) PROVE FALSE
      BY <1>3, <3>4, FreshNotOldest DEF Evict
    <3>5. ASSUME NEW s \in Turn, TurnStep(s), pc[s] = "given", t = on[s] PROVE FALSE
      <4>1. s = t
        BY <3>5 DEF FreshInv, FreshWorkers
      <4> QED
        BY <1>3, <3>5, <4>1, GivenTurnStep DEF Inv
    <3>6. ASSUME NEW h \in Turn, pc[h] = "sent", on[h] = t PROVE FALSE
      BY <1>1, <1>3, <3>6, NoHolderYet
    <3> QED
      BY <3>1, <3>2, <3>3, <3>4, <3>5, <3>6 DEF RetiredBy, Stopped
  <2> QED
    BY <2>1, <2>2, <2>3, <2>4, StoppedStays
<1> QED
  BY <1>2, <1>3

\* Without sandbox cleanup, a worker that was started for a turn is not taken
\* away to make room for another turn before it has reached its own.  (With
\* sandbox cleanup it may be: the run pool_sandbox_race shows how.)
THEOREM StartedWorkerStays ==
  ASSUME ~RequireSandboxCleanup
  PROVE  Spec => []StartedWorkerServesItsTurn
<1>1. Init => FreshInv
  BY DEF Init, FreshInv, FreshWorkers, SentNotAhead, SparesOwed
<1>2. Inv /\ FreshInv /\ [Next]_vars => FreshInv'
  BY FreshKept, SentKept, SparesKept DEF FreshInv
<1>3. FreshInv => StartedWorkerServesItsTurn
  BY DEF FreshInv, FreshWorkers, StartedWorkerServesItsTurn
<1> QED
  BY Invariant, <1>1, <1>2, <1>3, PTL DEF Spec
=============================================================================

------------------------- MODULE SessionPoolProofs -------------------------
(***************************************************************************)
(* Proofs about the messenger session pool, for any finite set of turns    *)
(* and any limit.                                                          *)
(*                                                                         *)
(* The count of slots cannot be shown right on its own.  A slot is handed  *)
(* to the head of the line, so the line must hold waiting turns only, each *)
(* once (LineOK); a worker that is retired settles the turn it has pending,*)
(* so that turn must hold a slot (HoldersSent), and the worker a turn was  *)
(* given must be one (OnKnown).  Together with the types they are          *)
(* inductive (PoolInv).                                                    *)
(***************************************************************************)
EXTENDS SessionPool, FiniteSetTheorems, TLAPS

LineOK ==
  /\ \A i \in DOMAIN waiting : pc[waiting[i]] = "waiting"
  /\ \A i, j \in DOMAIN waiting : waiting[i] = waiting[j] => i = j

HoldersSent ==
  \A w \in Worker : holder[w] # NoTurn =>
    pc[holder[w]] = "sent" /\ on[holder[w]] = w

OnKnown == \A t \in Turn : pc[t] \in {"given", "sent"} => on[t] \in Turn

PoolInv == TypeOK /\ SlotAccounting /\ LineOK /\ HoldersSent /\ OnKnown

-----------------------------------------------------------------------------
(* Retiring and settling.                                                  *)

LEMMA RetireTypes ==
  ASSUME WorkerTypes, NEW S \in SUBSET Worker, Retire(S)
  PROVE  WorkerTypes'
<1>1. retiring' \in [Key -> MaybeTurn]
  <2> SUFFICES ASSUME NEW k \in Key
               PROVE  (IF Blocking(S, k) = {} THEN retiring[k]
                       ELSE CHOOSE w \in Blocking(S, k) : TRUE) \in MaybeTurn
    BY DEF Retire
  <2>1. CASE Blocking(S, k) = {}
    BY <2>1 DEF WorkerTypes
  <2>2. CASE Blocking(S, k) # {}
    <3>1. PICK v \in Blocking(S, k) : TRUE
      BY <2>2
    <3>2. (CHOOSE w \in Blocking(S, k) : TRUE) \in Blocking(S, k)
      BY <3>1
    <3> QED
      BY <2>2, <3>2 DEF Blocking, Worker, MaybeTurn
  <2> QED
    BY <2>1, <2>2
<1>2. /\ workers' \in [Key -> MaybeTurn]
      /\ allWorkers' \subseteq Worker
      /\ dead' \subseteq Worker
      /\ written' \subseteq Worker
      /\ idle' \subseteq Worker
  BY DEF WorkerTypes, Retire, MaybeTurn
<1>3. /\ holder' \in [Worker -> MaybeTurn]
      /\ reply' \in [Worker -> MaybeTurn]
      /\ newer' \in [Worker -> SUBSET Worker]
      /\ inbox' \in [Worker -> Seq(Turn)]
      /\ exit' = exit /\ drained' = drained
  BY DEF WorkerTypes, Retire, MaybeTurn
<1> QED
  BY <1>1, <1>2, <1>3 DEF WorkerTypes

LEMMA SettleTypes ==
  ASSUME TurnTypes, NEW S, Settle(S)
  PROVE  pc' \in [Turn -> Steps] /\ on' \in [Turn -> MaybeTurn]
BY DEF TurnTypes, Settle, Steps, InTurn, Admitted, MaybeTurn

LEMMA TouchTypes ==
  ASSUME WorkerTypes, NEW w \in Worker, Touch(w)
  PROVE  newer' \in [Worker -> SUBSET Worker]
BY DEF WorkerTypes, Touch

LEMMA DeliverTypes ==
  ASSUME TurnTypes, WorkerTypes, NEW t \in Turn, NEW w \in Worker, Deliver(t, w)
  PROVE  /\ WorkerTypes'
         /\ pc' \in [Turn -> Steps] /\ on' \in [Turn -> MaybeTurn]
<1>1. /\ holder' \in [Worker -> MaybeTurn]
      /\ inbox' \in [Worker -> Seq(Turn)]
      /\ idle' \subseteq Worker
  BY DEF WorkerTypes, Deliver, MaybeTurn
<1>2. /\ pc' \in [Turn -> Steps]
      /\ on' \in [Turn -> MaybeTurn]
  BY DEF TurnTypes, Deliver, Steps, InTurn, Admitted, MaybeTurn, Worker
<1> QED
  BY <1>1, <1>2 DEF WorkerTypes, Deliver

LEMMA FinishTypes ==
  ASSUME TurnTypes, WorkerTypes, NEW w \in Worker, holder[w] # NoTurn,
         NEW r \in MaybeTurn, NEW rest \in Seq(Turn), FinishTurn(w, r, rest)
  PROVE  /\ WorkerTypes'
         /\ pc' \in [Turn -> Steps] /\ on' \in [Turn -> MaybeTurn]
         /\ answer' \in [Turn -> MaybeTurn]
<1>1. answer' \in [Turn -> MaybeTurn]
  BY DEF TurnTypes, FinishTurn
<1>2. pc' \in [Turn -> Steps] /\ on' \in [Turn -> MaybeTurn]
  BY SettleTypes DEF FinishTurn
<1>3. CASE exit[w] = "resolved"
  <2>1. {w} \in SUBSET Worker /\ Retire({w})
    BY <1>3 DEF FinishTurn
  <2> QED
    BY <1>1, <1>2, <2>1, RetireTypes
<1>4. CASE exit[w] # "resolved"
  <2>1. Touch(w)
    BY <1>4 DEF FinishTurn
  <2>2. newer' \in [Worker -> SUBSET Worker]
    BY <2>1, TouchTypes
  <2>3. /\ holder' \in [Worker -> MaybeTurn]
        /\ reply' \in [Worker -> MaybeTurn]
        /\ inbox' \in [Worker -> Seq(Turn)]
        /\ written' \subseteq Worker /\ idle' \subseteq Worker
    BY <1>4 DEF FinishTurn, WorkerTypes, MaybeTurn
  <2>4. UNCHANGED <<workers, allWorkers, retiring, dead, exit, drained>>
    BY <1>4 DEF FinishTurn
  <2> QED
    BY <1>1, <1>2, <2>2, <2>3, <2>4 DEF WorkerTypes
<1> QED
  BY <1>3, <1>4

LEMMA RequeueTypes ==
  ASSUME TurnTypes, NEW t \in Turn, Requeue(t)
  PROVE  ahead' \in [Turn -> SUBSET Turn]
BY DEF TurnTypes, Requeue

LEMMA RetireWorkerTypes ==
  ASSUME TypeOK, NEW w \in Worker, RetireWorker(w), UNCHANGED ahead
  PROVE  TypeOK'
<1>1. {w} \in SUBSET Worker
  OBVIOUS
<1>2. WorkerTypes'
  BY <1>1, RetireTypes DEF TypeOK, RetireWorker
<1>3. pc' \in [Turn -> Steps] /\ on' \in [Turn -> MaybeTurn]
  BY SettleTypes DEF TypeOK, RetireWorker
<1> QED
  BY <1>2, <1>3 DEF TypeOK, TurnTypes, CloseTypes, RetireWorker, queueVars,
     closeVars

LEMMA SpliceTypes ==
  ASSUME NEW s \in Seq(Turn), NEW i \in DOMAIN s
  PROVE  Splice(s, i) \in Seq(Turn)
<1>1. Len(s) \in Nat /\ i \in 1..Len(s) /\ s \in [1..Len(s) -> Turn]
  OBVIOUS
<1>2. \A j \in 1..(Len(s) - 1) : (IF j < i THEN s[j] ELSE s[j + 1]) \in Turn
  BY <1>1
<1>3. Len(s) - 1 \in Nat
  BY <1>1
<1> QED
  BY <1>2, <1>3 DEF Splice

-----------------------------------------------------------------------------
(* Every step keeps the types.  A slot is freed only by a turn that holds   *)
(* one, so the count stays a natural number.                               *)

LEMMA AdmitRunTypes ==
  ASSUME TurnTypes, NEW t \in Turn, AdmitRun(t)
  PROVE  pc' \in [Turn -> Steps] /\ admitted' \in Nat /\ waiting' \in Seq(Turn)
<1>1. pc' \in [Turn -> Steps]
  BY DEF TurnTypes, AdmitRun, Steps, InTurn, Admitted
<1>2. Append(waiting, t) \in Seq(Turn)
  BY DEF TurnTypes
<1>3. waiting' \in Seq(Turn)
  <2>1. waiting' = waiting \/ waiting' = Append(waiting, t)
    BY DEF AdmitRun
  <2> QED
    BY <1>2, <2>1 DEF TurnTypes
<1>4. admitted' \in Nat
  <2>1. admitted' = admitted \/ admitted' = admitted + 1
    BY DEF AdmitRun
  <2> QED
    BY <2>1 DEF TurnTypes
<1> QED
  BY <1>1, <1>3, <1>4

LEMMA HoldingCounts ==
  ASSUME TypeOK, SlotAccounting, NEW t \in Turn, pc[t] \in Admitted
  PROVE  admitted >= 1
<1>1. IsFiniteSet(Holding)
  BY TurnAssumption, FS_Subset DEF Holding
<1>2. t \in Holding
  BY DEF Holding
<1>3. Cardinality(Holding) # 0
  BY <1>1, <1>2, FS_EmptySet
<1> QED
  BY <1>3 DEF SlotAccounting, TypeOK, TurnTypes

LEMMA ReleaseTypes ==
  ASSUME TypeOK, SlotAccounting, NEW t \in Turn, Release(t)
  PROVE  pc' \in [Turn -> Steps] /\ admitted' \in Nat /\ waiting' \in Seq(Turn)
<1>1. admitted >= 1
  BY HoldingCounts DEF Release, Admitted
<1>2. CASE waiting = <<>>
  BY <1>1, <1>2 DEF Release, TypeOK, TurnTypes, Steps
<1>3. CASE waiting # <<>>
  <2>1. Head(waiting) \in Turn /\ Tail(waiting) \in Seq(Turn)
    BY <1>3 DEF TypeOK, TurnTypes
  <2> QED
    BY <1>3, <2>1 DEF Release, TypeOK, TurnTypes, Steps, InTurn, Admitted
<1> QED
  BY <1>2, <1>3

LEMMA ArriveTypes ==
  ASSUME TypeOK, NEW t \in Turn, Arrive(t)
  PROVE  TypeOK'
<1>1. KeyOf[t] \in Key
  BY KeyAssumption
<1>2. /\ prev' \in [Turn -> MaybeTurn]
      /\ keyTail' \in [Key -> MaybeTurn]
      /\ arrivals' \in [Key -> Seq(Turn)]
      /\ ahead' \in [Turn -> SUBSET Turn]
  BY <1>1 DEF Arrive, TypeOK, TurnTypes, MaybeTurn
<1>3. pc' \in [Turn -> Steps] /\ admitted' \in Nat /\ waiting' \in Seq(Turn)
  <2>1. CASE keyTail[KeyOf[t]] = NoTurn
    BY <2>1, AdmitRunTypes DEF Arrive, TypeOK
  <2>2. CASE keyTail[KeyOf[t]] # NoTurn
    BY <2>2 DEF Arrive, TypeOK, TurnTypes, Steps
  <2> QED
    BY <2>1, <2>2
<1> QED
  BY <1>2, <1>3 DEF Arrive, TypeOK, TurnTypes, WorkerTypes, CloseTypes,
     workerVars, closeVars

LEMMA RunTurnTypes ==
  ASSUME TypeOK, NEW t \in Turn, RunTurn(t)
  PROVE  /\ WorkerTypes'
         /\ pc' \in [Turn -> Steps] /\ on' \in [Turn -> MaybeTurn]
<1> DEFINE k == KeyOf[t]
           existing == workers[k]
           mismatch == existing # NoTurn /\ PolicyOf[existing] # PolicyOf[t]
<1>1. k \in Key /\ existing \in MaybeTurn /\ retiring[k] \in MaybeTurn
  BY KeyAssumption DEF TypeOK, WorkerTypes
<1>2. CASE Settle({t}) /\ UNCHANGED workerVars
  BY <1>2, SettleTypes DEF TypeOK, WorkerTypes, workerVars
<1>3. CASE mismatch /\ Retire({existing})
           /\ pc' = [pc EXCEPT ![t] = "blocked"] /\ on' = [on EXCEPT ![t] = existing]
  <2>1. {existing} \in SUBSET Worker
    BY <1>1, <1>3 DEF MaybeTurn, Worker
  <2>2. WorkerTypes'
    BY <1>3, <2>1, RetireTypes DEF TypeOK
  <2> QED
    BY <1>1, <1>3, <2>2 DEF TypeOK, TurnTypes, Steps, InTurn, Admitted
<1>4. CASE /\ pc' = [pc EXCEPT ![t] = "blocked"]
           /\ on' = [on EXCEPT ![t] = retiring[k]]
           /\ UNCHANGED workerVars
  BY <1>1, <1>4 DEF TypeOK, TurnTypes, WorkerTypes, workerVars, Steps, InTurn,
     Admitted
<1>5. CASE existing # NoTurn /\ Deliver(t, existing)
  BY <1>1, <1>5, DeliverTypes DEF TypeOK, MaybeTurn, Worker
<1>6. CASE pc' = [pc EXCEPT ![t] = "starting"] /\ UNCHANGED <<on, workerVars>>
  BY <1>6 DEF TypeOK, TurnTypes, WorkerTypes, workerVars, Steps, InTurn, Admitted
<1> QED
  BY <1>2, <1>3, <1>4, <1>5, <1>6 DEF RunTurn

LEMMA EvictTypes ==
  ASSUME TypeOK, NEW t \in Turn, NEW w \in Worker, Evict(t, w)
  PROVE  /\ WorkerTypes'
         /\ pc' \in [Turn -> Steps] /\ on' \in [Turn -> MaybeTurn]
<1>1. {w} \in SUBSET Worker
  OBVIOUS
<1>2. WorkerTypes'
  BY <1>1, RetireTypes DEF Evict, TypeOK
<1>3. pc' \in [Turn -> Steps] /\ on' \in [Turn -> MaybeTurn]
  BY SettleTypes DEF Evict, TypeOK, TurnTypes, Steps, InTurn, Admitted, MaybeTurn,
     Worker
<1> QED
  BY <1>2, <1>3

LEMMA SpawnTypes ==
  ASSUME TypeOK, NEW t \in Turn, Spawn(t)
  PROVE  /\ WorkerTypes'
         /\ pc' \in [Turn -> Steps] /\ on' \in [Turn -> MaybeTurn]
<1>1. CASE Stopped(t)
  BY <1>1, SettleTypes DEF Spawn, TypeOK, WorkerTypes, workerVars
<1>2. CASE ~Stopped(t)
  <2>1. t \in Worker /\ Touch(t)
    BY <1>2 DEF Spawn, Worker
  <2>2. newer' \in [Worker -> SUBSET Worker]
    BY <2>1, TouchTypes DEF TypeOK
  <2>3. /\ workers' \in [Key -> MaybeTurn]
        /\ allWorkers' \subseteq Worker
        /\ exit' \in [Worker -> {"none", "pending", "resolved", "rejected"}]
        /\ UNCHANGED <<retiring, dead, drained, pendingVars, idle>>
    BY <1>2, <2>1 DEF Spawn, TypeOK, WorkerTypes, MaybeTurn, Worker
  <2>4. pc' \in [Turn -> Steps] /\ on' \in [Turn -> MaybeTurn]
    BY <1>2 DEF Spawn, TypeOK, TurnTypes, Steps, InTurn, Admitted, MaybeTurn
  <2> QED
    BY <2>2, <2>3, <2>4 DEF TypeOK, WorkerTypes, pendingVars
<1> QED
  BY <1>1, <1>2

LEMMA TakeWorkerTypes ==
  ASSUME TypeOK, NEW t \in Turn, TakeWorker(t), on[t] \in Turn
  PROVE  /\ WorkerTypes'
         /\ pc' \in [Turn -> Steps] /\ on' \in [Turn -> MaybeTurn]
<1> DEFINE w == on[t]
<1>1. CASE Retire({w} \ dead) /\ Settle({t} \cup Losers({w} \ dead))
  <2>1. {w} \ dead \in SUBSET Worker
    BY DEF Worker
  <2> QED
    BY <1>1, <2>1, RetireTypes, SettleTypes DEF TypeOK
<1>2. CASE Settle({t}) /\ UNCHANGED workerVars
  BY <1>2, SettleTypes DEF TypeOK, WorkerTypes, workerVars
<1>3. CASE Deliver(t, w)
  BY <1>3, DeliverTypes DEF TypeOK, Worker
<1> QED
  BY <1>1, <1>2, <1>3 DEF TakeWorker

LEMMA AbortTypes ==
  ASSUME TypeOK, NEW t \in Turn, Abort(t), pc[t] = "sent" => on[t] \in Turn,
         UNCHANGED ahead
  PROVE  TypeOK'
<1> SUFFICES /\ pc' \in [Turn -> Steps] /\ on' \in [Turn -> MaybeTurn]
             /\ waiting' \in Seq(Turn)
             /\ WorkerTypes'
  BY DEF Abort, AbortQueued, AbortAtExit, AbortNoted, AbortSent, AbortSignal,
     TypeOK, TurnTypes, CloseTypes, queueVars, closeVars
<1>1. CASE AbortQueued(t)
  <2>1. waiting' \in Seq(Turn)
    BY <1>1, SpliceTypes DEF AbortQueued, TypeOK, TurnTypes
  <2> QED
    BY <1>1, <2>1 DEF AbortQueued, TypeOK, TurnTypes, WorkerTypes, workerVars, Steps
<1>2. CASE AbortAtExit(t)
  BY <1>2, SettleTypes DEF AbortAtExit, TypeOK, TurnTypes, WorkerTypes, workerVars
<1>3. CASE AbortNoted(t)
  BY <1>3 DEF AbortNoted, TypeOK, TurnTypes, WorkerTypes, workerVars
<1>4. CASE AbortSent(t)
  <2>1. {on[t]} \in SUBSET Worker
    BY <1>4 DEF AbortSent, Worker
  <2> QED
    BY <1>4, <2>1, RetireTypes, SettleTypes DEF AbortSent, TypeOK, TurnTypes
<1> QED
  BY <1>1, <1>2, <1>3, <1>4 DEF Abort

LEMMA InputWrittenTypes ==
  ASSUME TypeOK, NEW w \in Worker, InputWritten(w), UNCHANGED ahead
  PROVE  TypeOK'
<1>1. CASE reply[w] # NoTurn
  <2>1. reply[w] \in MaybeTurn /\ inbox[w] \in Seq(Turn)
    BY DEF TypeOK, WorkerTypes
  <2>2. FinishTurn(w, reply[w], inbox[w]) /\ holder[w] # NoTurn
    BY <1>1 DEF InputWritten
  <2>3. /\ WorkerTypes'
        /\ pc' \in [Turn -> Steps] /\ on' \in [Turn -> MaybeTurn]
        /\ answer' \in [Turn -> MaybeTurn]
    BY <2>1, <2>2, FinishTypes DEF TypeOK
  <2> QED
    BY <2>3 DEF InputWritten, TypeOK, TurnTypes, CloseTypes, queueVars, closeVars
<1>2. CASE reply[w] = NoTurn
  BY <1>2 DEF InputWritten, TypeOK, TurnTypes, WorkerTypes, CloseTypes, queueVars,
     closeVars, residentVars
<1> QED
  BY <1>1, <1>2

LEMMA AnswerTypes ==
  ASSUME TypeOK, NEW w \in Worker, Answer(w), UNCHANGED ahead
  PROVE  TypeOK'
<1> DEFINE r == Head(inbox[w])
<1>1. r \in Turn /\ Tail(inbox[w]) \in Seq(Turn)
  BY DEF Answer, TypeOK, WorkerTypes
<1>2. CASE holder[w] # NoTurn /\ w \in written
  <2>1. FinishTurn(w, r, Tail(inbox[w])) /\ holder[w] # NoTurn
    BY <1>2 DEF Answer
  <2>2. /\ WorkerTypes'
        /\ pc' \in [Turn -> Steps] /\ on' \in [Turn -> MaybeTurn]
        /\ answer' \in [Turn -> MaybeTurn]
    BY <1>1, <2>1, FinishTypes DEF TypeOK, MaybeTurn
  <2> QED
    BY <2>2 DEF Answer, TypeOK, TurnTypes, CloseTypes, queueVars, closeVars
<1>3. CASE ~(holder[w] # NoTurn /\ w \in written)
  <2>1. /\ reply' \in [Worker -> MaybeTurn]
        /\ inbox' \in [Worker -> Seq(Turn)]
        /\ UNCHANGED <<residentVars, exit, drained, holder, written, pc, on, answer>>
    BY <1>1, <1>3 DEF Answer, TypeOK, WorkerTypes, MaybeTurn
  <2> QED
    BY <2>1 DEF Answer, TypeOK, TurnTypes, WorkerTypes, CloseTypes, queueVars,
       closeVars, residentVars
<1> QED
  BY <1>2, <1>3

LEMMA CloseStepTypes ==
  ASSUME TypeOK, Close, UNCHANGED ahead
  PROVE  TypeOK'
<1>1. allWorkers \ dead \in SUBSET Worker
  BY DEF TypeOK, WorkerTypes
<1>2. WorkerTypes'
  BY <1>1, RetireTypes DEF Close, TypeOK
<1>3. pc' \in [Turn -> Steps] /\ on' \in [Turn -> MaybeTurn]
  BY DEF Close, TypeOK, TurnTypes, Steps, InTurn, Admitted, MaybeTurn
<1>4. waiting' \in Seq(Turn)
  BY DEF Close
<1> QED
  BY <1>2, <1>3, <1>4 DEF Close, TypeOK, TurnTypes, CloseTypes, queueVars

-----------------------------------------------------------------------------
(* What a step does to admission.                                          *)

SlotsSame == Holding' = Holding /\ waiting' = waiting /\ admitted' = admitted

SlotTaken(t) ==
  /\ t \notin Holding /\ admitted < Limit /\ waiting = <<>>
  /\ Holding' = Holding \cup {t} /\ admitted' = admitted + 1 /\ waiting' = waiting

SlotWanted(t) ==
  /\ t \notin Holding /\ (\A i \in DOMAIN waiting : waiting[i] # t)
  /\ ~(admitted < Limit /\ waiting = <<>>)
  /\ Holding' = Holding /\ admitted' = admitted /\ waiting' = Append(waiting, t)

SlotFreed(t) ==
  /\ t \in Holding /\ waiting = <<>>
  /\ Holding' = Holding \ {t} /\ admitted' = admitted - 1 /\ waiting' = waiting

SlotHandedOn(t) ==
  /\ t \in Holding /\ waiting # <<>> /\ Head(waiting) \notin Holding
  /\ Holding' = (Holding \ {t}) \cup {Head(waiting)}
  /\ admitted' = admitted /\ waiting' = Tail(waiting)

SlotGivenUp(t) ==
  /\ \E i \in DOMAIN waiting : waiting[i] = t /\ waiting' = Splice(waiting, i)
  /\ Holding' = Holding /\ admitted' = admitted

SlotsRefused == Holding' = Holding /\ admitted' = admitted /\ waiting' = <<>>

SlotStep ==
  \/ SlotsSame \/ SlotsRefused
  \/ \E t \in Turn : \/ SlotTaken(t) \/ SlotWanted(t) \/ SlotFreed(t)
                     \/ SlotHandedOn(t) \/ SlotGivenUp(t)

\* Whatever a step does to admission keeps the slots accounted for.
LEMMA SlotStepAccounts ==
  ASSUME TypeOK, SlotAccounting, SlotStep
  PROVE  SlotAccounting'
<1>1. IsFiniteSet(Holding) /\ Cardinality(Holding) \in Nat
  BY TurnAssumption, FS_Subset, FS_CardinalityType DEF Holding
<1>2. admitted \in Nat /\ waiting \in Seq(Turn) /\ Limit \in Nat
  BY LimitAssumption DEF TypeOK, TurnTypes
<1>3. CASE SlotsSame
  BY <1>3 DEF SlotsSame, SlotAccounting
<1>4. CASE SlotsRefused
  BY <1>4 DEF SlotsRefused, SlotAccounting
<1>5. ASSUME NEW t \in Turn, SlotTaken(t) PROVE SlotAccounting'
  <2>1. Cardinality(Holding \cup {t}) = Cardinality(Holding) + 1
    BY <1>1, <1>5, FS_AddElement DEF SlotTaken
  <2> QED
    BY <1>1, <1>2, <1>5, <2>1 DEF SlotTaken, SlotAccounting
<1>6. ASSUME NEW t \in Turn, SlotWanted(t) PROVE SlotAccounting'
  BY <1>2, <1>6 DEF SlotWanted, SlotAccounting
<1>7. ASSUME NEW t \in Turn, SlotFreed(t) PROVE SlotAccounting'
  <2>1. Cardinality(Holding \ {t}) = Cardinality(Holding) - 1
    BY <1>1, <1>7, FS_RemoveElement DEF SlotFreed
  <2> QED
    BY <1>1, <1>2, <1>7, <2>1 DEF SlotFreed, SlotAccounting
<1>8. ASSUME NEW t \in Turn, SlotHandedOn(t) PROVE SlotAccounting'
  <2>1. /\ IsFiniteSet(Holding \ {t})
        /\ Cardinality(Holding \ {t}) = Cardinality(Holding) - 1
    BY <1>1, <1>8, FS_RemoveElement DEF SlotHandedOn
  <2>2. Cardinality((Holding \ {t}) \cup {Head(waiting)})
          = Cardinality(Holding \ {t}) + 1
    BY <1>8, <2>1, FS_AddElement DEF SlotHandedOn
  <2>3. Cardinality(Holding') = Cardinality(Holding)
    BY <1>1, <1>8, <2>1, <2>2 DEF SlotHandedOn
  <2> QED
    BY <1>2, <1>8, <2>3 DEF SlotHandedOn, SlotAccounting
<1>9. ASSUME NEW t \in Turn, SlotGivenUp(t) PROVE SlotAccounting'
  <2>1. waiting # <<>>
    BY <1>2, <1>9 DEF SlotGivenUp
  <2> QED
    BY <1>9, <2>1 DEF SlotGivenUp, SlotAccounting
<1> QED
  BY <1>3, <1>4, <1>5, <1>6, <1>7, <1>8, <1>9 DEF SlotStep

LEMMA SettleHolds ==
  ASSUME TypeOK, NEW S \in SUBSET Holding, Settle(S)
  PROVE  Holding' = Holding
<1>1. \A t \in Turn : pc'[t] \in Admitted <=> pc[t] \in Admitted
  BY DEF Settle, Holding, TypeOK, TurnTypes, Admitted
<1> QED
  BY <1>1 DEF Holding

\* Retiring workers and settling the turns they had pending, with turns R that
\* have no worker, leaves the other workers' turns alone.
LEMMA RetireKeepsHolders ==
  ASSUME TypeOK, HoldersSent, NEW S \in SUBSET Worker, NEW R \in SUBSET Turn,
         \A t \in R : pc[t] # "sent",
         Retire(S), Settle(R \cup Losers(S))
  PROVE  HoldersSent'
<1> SUFFICES ASSUME NEW w \in Worker, holder'[w] # NoTurn
             PROVE  pc'[holder'[w]] = "sent" /\ on'[holder'[w]] = w
  BY DEF HoldersSent
<1>1. w \notin S /\ holder'[w] = holder[w]
  BY DEF Retire, TypeOK, WorkerTypes
<1>2. pc[holder[w]] = "sent" /\ on[holder[w]] = w /\ holder[w] \in Turn
  BY <1>1 DEF HoldersSent, TypeOK, WorkerTypes, MaybeTurn
<1>3. holder[w] \notin Losers(S)
  <2>1. SUFFICES ASSUME NEW v \in S, holder[v] = holder[w] PROVE FALSE
    BY DEF Losers
  <2>2. on[holder[v]] = v
    BY <1>1, <2>1 DEF HoldersSent
  <2> QED
    BY <1>1, <1>2, <2>1, <2>2
<1>4. holder[w] \notin R
  BY <1>2
<1> QED
  BY <1>1, <1>2, <1>3, <1>4 DEF Settle, TypeOK, TurnTypes

LEMMA LosersHold ==
  ASSUME TypeOK, HoldersSent, NEW S \in SUBSET Worker
  PROVE  Losers(S) \in SUBSET Holding
<1> SUFFICES ASSUME NEW w \in S, holder[w] # NoTurn PROVE holder[w] \in Holding
  BY DEF Losers
<1>1. pc[holder[w]] = "sent" /\ holder[w] \in Turn
  BY DEF HoldersSent, TypeOK, WorkerTypes, MaybeTurn
<1> QED
  BY <1>1 DEF Holding, Admitted

LEMMA SettleKeepsOn ==
  ASSUME TypeOK, OnKnown, NEW S, Settle(S)
  PROVE  OnKnown'
BY DEF OnKnown, Settle, TypeOK, TurnTypes

\* Settling turns that hold a slot does not touch the line.
LEMMA SettleKeepsLine ==
  ASSUME TypeOK, LineOK, NEW S \in SUBSET Holding, Settle(S), waiting' = waiting
  PROVE  LineOK'
<1>1. ASSUME NEW i \in DOMAIN waiting PROVE pc'[waiting[i]] = "waiting"
  <2>1. pc[waiting[i]] = "waiting" /\ waiting[i] \in Turn
    BY <1>1 DEF LineOK, TypeOK, TurnTypes
  <2>2. waiting[i] \notin S
    BY <2>1 DEF Holding, Admitted
  <2> QED
    BY <2>1, <2>2 DEF Settle, TypeOK, TurnTypes
<1> QED
  BY <1>1 DEF LineOK

-----------------------------------------------------------------------------
(* Every step keeps the invariant and is a step of admission.              *)

Kept == SlotStep /\ LineOK' /\ HoldersSent' /\ OnKnown'

\* A turn that holds a slot moves on and keeps it.
LEMMA MoveKeeps ==
  ASSUME PoolInv, NEW t \in Turn, NEW s \in Admitted,
         pc[t] \in Admitted \ {"sent"},
         pc' = [pc EXCEPT ![t] = s],
         \A u \in Turn \ {t} : on'[u] = on[u],
         s \in {"given", "sent"} => on'[t] \in Turn,
         \A w \in Worker : holder'[w] # NoTurn =>
           \/ holder'[w] = holder[w]
           \/ s = "sent" /\ holder'[w] = t /\ on'[t] = w,
         waiting' = waiting, admitted' = admitted
  PROVE  Kept
<1>1. pc \in [Turn -> Steps]
  BY DEF PoolInv, TypeOK, TurnTypes
<1>2. SlotsSame
  <2>1. \A u \in Turn : pc'[u] \in Admitted <=> pc[u] \in Admitted
    BY <1>1
  <2> QED
    BY <2>1 DEF SlotsSame, Holding
<1>3. LineOK'
  <2>1. ASSUME NEW i \in DOMAIN waiting PROVE pc'[waiting[i]] = "waiting"
    <3>1. pc[waiting[i]] = "waiting" /\ waiting[i] \in Turn
      BY <2>1 DEF PoolInv, LineOK, TypeOK, TurnTypes
    <3>2. waiting[i] # t
      BY <3>1 DEF Admitted
    <3> QED
      BY <1>1, <3>1, <3>2
  <2> QED
    BY <2>1 DEF LineOK, PoolInv
<1>4. HoldersSent'
  <2> SUFFICES ASSUME NEW w \in Worker, holder'[w] # NoTurn
               PROVE  pc'[holder'[w]] = "sent" /\ on'[holder'[w]] = w
    BY DEF HoldersSent
  <2>1. CASE s = "sent" /\ holder'[w] = t /\ on'[t] = w
    BY <1>1, <2>1
  <2>2. CASE holder'[w] = holder[w]
    <3>1. pc[holder[w]] = "sent" /\ on[holder[w]] = w /\ holder[w] \in Turn \ {t}
      BY <2>2 DEF PoolInv, HoldersSent, TypeOK, WorkerTypes, MaybeTurn
    <3> QED
      BY <1>1, <2>2, <3>1
  <2> QED
    BY <2>1, <2>2
<1>5. OnKnown'
  BY <1>1 DEF OnKnown, PoolInv
<1> QED
  BY <1>2, <1>3, <1>4, <1>5 DEF Kept, SlotStep

LEMMA DeliverKept ==
  ASSUME PoolInv, NEW t \in Turn, NEW w \in Turn, pc[t] \in Admitted \ {"sent"},
         Deliver(t, w), waiting' = waiting, admitted' = admitted
  PROVE  Kept
<1>1. on \in [Turn -> MaybeTurn] /\ holder \in [Worker -> MaybeTurn]
  BY DEF PoolInv, TypeOK, TurnTypes, WorkerTypes
<1>2. PICK s \in Admitted : s = "sent"
  BY DEF Admitted
<1>3. pc' = [pc EXCEPT ![t] = s]
  BY <1>2 DEF Deliver
<1>4. on'[t] = w /\ \A u \in Turn \ {t} : on'[u] = on[u]
  BY <1>1 DEF Deliver
<1>5. s \in {"given", "sent"} => on'[t] \in Turn
  BY <1>4
<1>6. \A v \in Worker : holder'[v] # NoTurn =>
        \/ holder'[v] = holder[v]
        \/ s = "sent" /\ holder'[v] = t /\ on'[t] = v
  BY <1>1, <1>2, <1>4 DEF Deliver
<1> QED
  BY <1>3, <1>4, <1>5, <1>6, MoveKeeps

\* Turns R without a pending worker settle while nothing else happens.
LEMMA SettleKept ==
  ASSUME PoolInv, NEW R \in SUBSET Turn, \A t \in R : pc[t] \in Admitted \ {"sent"},
         Settle(R), holder' = holder, waiting' = waiting, admitted' = admitted
  PROVE  Kept
<1>1. R \in SUBSET Holding
  BY DEF Holding
<1>2. SlotsSame
  BY <1>1, SettleHolds DEF SlotsSame, PoolInv
<1>3. LineOK'
  BY <1>1, SettleKeepsLine DEF PoolInv
<1>4. OnKnown'
  BY SettleKeepsOn DEF PoolInv
<1>5. HoldersSent'
  <2> SUFFICES ASSUME NEW w \in Worker, holder[w] # NoTurn
               PROVE  pc'[holder[w]] = "sent" /\ on'[holder[w]] = w
    BY DEF HoldersSent
  <2>1. pc[holder[w]] = "sent" /\ on[holder[w]] = w /\ holder[w] \in Turn
    BY DEF PoolInv, HoldersSent, TypeOK, WorkerTypes, MaybeTurn
  <2> QED
    BY <2>1 DEF Settle, PoolInv, TypeOK, TurnTypes
<1> QED
  BY <1>2, <1>3, <1>4, <1>5 DEF Kept, SlotStep

LEMMA RetireKept ==
  ASSUME PoolInv, NEW S \in SUBSET Worker, NEW R \in SUBSET Turn,
         \A t \in R : pc[t] \in Admitted \ {"sent"},
         Retire(S), Settle(R \cup Losers(S)), waiting' = waiting, admitted' = admitted
  PROVE  Kept
<1>1. R \cup Losers(S) \in SUBSET Holding
  BY LosersHold DEF Holding, PoolInv
<1>2. SlotsSame
  BY <1>1, SettleHolds DEF SlotsSame, PoolInv
<1>3. LineOK'
  BY <1>1, SettleKeepsLine DEF PoolInv
<1>4. OnKnown'
  BY SettleKeepsOn DEF PoolInv
<1>5. HoldersSent'
  BY RetireKeepsHolders DEF PoolInv
<1> QED
  BY <1>2, <1>3, <1>4, <1>5 DEF Kept, SlotStep

LEMMA RetireWorkerKept ==
  ASSUME PoolInv, NEW w \in Worker, RetireWorker(w)
  PROVE  Kept
<1>1. {w} \in SUBSET Worker /\ {} \in SUBSET Turn
  OBVIOUS
<1>2. Settle({} \cup Losers({w}))
  <2>1. {} \cup Losers({w}) = Losers({w})
    OBVIOUS
  <2> QED
    BY <2>1 DEF RetireWorker
<1> QED
  BY <1>1, <1>2, RetireKept DEF RetireWorker

LEMMA FinishKept ==
  ASSUME PoolInv, NEW w \in Worker, holder[w] # NoTurn, NEW r, NEW rest,
         FinishTurn(w, r, rest), waiting' = waiting, admitted' = admitted
  PROVE  Kept
<1>1. pc[holder[w]] = "sent" /\ on[holder[w]] = w /\ holder[w] \in Turn
  BY DEF PoolInv, HoldersSent, TypeOK, WorkerTypes, MaybeTurn
<1>2. Settle({holder[w]}) /\ {holder[w]} \in SUBSET Holding
  BY <1>1 DEF FinishTurn, Holding, Admitted
<1>3. SlotsSame
  BY <1>2, SettleHolds DEF SlotsSame, PoolInv
<1>4. LineOK'
  BY <1>2, SettleKeepsLine DEF PoolInv
<1>5. OnKnown'
  BY <1>2, SettleKeepsOn DEF PoolInv
<1>6. HoldersSent'
  <2>1. holder' = [holder EXCEPT ![w] = NoTurn]
    <3>1. holder \in [Worker -> MaybeTurn]
      BY DEF PoolInv, TypeOK, WorkerTypes
    <3>2. \/ holder' = [holder EXCEPT ![w] = NoTurn]
          \/ holder' = [v \in Worker |-> IF v \in {w} THEN NoTurn ELSE holder[v]]
      BY DEF FinishTurn, Retire
    <3> QED
      BY <3>1, <3>2
  <2> SUFFICES ASSUME NEW v \in Worker, holder'[v] # NoTurn
               PROVE  pc'[holder'[v]] = "sent" /\ on'[holder'[v]] = v
    BY DEF HoldersSent
  <2>2. v # w /\ holder'[v] = holder[v]
    BY <2>1 DEF PoolInv, TypeOK, WorkerTypes
  <2>3. pc[holder[v]] = "sent" /\ on[holder[v]] = v /\ holder[v] \in Turn
    BY <2>2 DEF PoolInv, HoldersSent, TypeOK, WorkerTypes, MaybeTurn
  <2>4. holder[v] # holder[w]
    BY <1>1, <2>2, <2>3
  <2> QED
    BY <1>2, <2>2, <2>3, <2>4 DEF Settle, PoolInv, TypeOK, TurnTypes
<1> QED
  BY <1>3, <1>4, <1>5, <1>6 DEF Kept, SlotStep

\* Without a word to the workers, a turn that holds no slot may move about
\* outside the line.
LEMMA OutsideKeeps ==
  ASSUME PoolInv, NEW t \in Turn, NEW s \in {"queued", "ready", "done"},
         pc[t] \in {"new", "queued", "ready"}, pc' = [pc EXCEPT ![t] = s],
         on' = on, holder' = holder, waiting' = waiting, admitted' = admitted
  PROVE  Kept
<1>1. pc \in [Turn -> Steps] /\ waiting \in Seq(Turn)
  BY DEF PoolInv, TypeOK, TurnTypes
<1>2. SlotsSame
  BY <1>1 DEF SlotsSame, Holding, Admitted
<1>3. LineOK'
  BY <1>1 DEF PoolInv, LineOK
<1>4. HoldersSent'
  BY <1>1 DEF PoolInv, HoldersSent, TypeOK, WorkerTypes, MaybeTurn
<1>5. OnKnown'
  BY <1>1 DEF PoolInv, OnKnown
<1> QED
  BY <1>2, <1>3, <1>4, <1>5 DEF Kept, SlotStep

LEMMA AdmitRunKept ==
  ASSUME PoolInv, NEW t \in Turn, pc[t] \in {"new", "ready"}, AdmitRun(t),
         on' = on, holder' = holder
  PROVE  Kept
<1>1. pc \in [Turn -> Steps] /\ waiting \in Seq(Turn)
  BY DEF PoolInv, TypeOK, TurnTypes
<1>2. t \notin Holding /\ \A i \in DOMAIN waiting : waiting[i] # t
  BY DEF Holding, Admitted, PoolInv, LineOK
<1>3. CASE Stopped(t)
  BY <1>3, OutsideKeeps DEF AdmitRun
<1>4. CASE ~Stopped(t) /\ admitted < Limit /\ waiting = <<>>
  <2>1. /\ pc' = [pc EXCEPT ![t] = "granted"]
        /\ admitted' = admitted + 1 /\ waiting' = waiting
    BY <1>4 DEF AdmitRun
  <2>2. Holding' = Holding \cup {t}
    BY <1>1, <2>1 DEF Holding, Admitted
  <2>3. SlotTaken(t)
    BY <1>2, <1>4, <2>1, <2>2 DEF SlotTaken
  <2>4. LineOK'
    BY <1>1, <1>2, <2>1 DEF PoolInv, LineOK
  <2>5. HoldersSent'
    BY <1>1, <2>1 DEF PoolInv, HoldersSent, TypeOK, WorkerTypes, MaybeTurn
  <2>6. OnKnown'
    BY <1>1, <2>1 DEF PoolInv, OnKnown
  <2> QED
    BY <2>3, <2>4, <2>5, <2>6 DEF Kept, SlotStep
<1>5. CASE ~Stopped(t) /\ ~(admitted < Limit /\ waiting = <<>>)
  <2>1. /\ pc' = [pc EXCEPT ![t] = "waiting"]
        /\ admitted' = admitted /\ waiting' = Append(waiting, t)
    BY <1>5 DEF AdmitRun
  <2>2. Holding' = Holding
    BY <1>1, <2>1 DEF Holding, Admitted
  <2>3. SlotWanted(t)
    BY <1>2, <1>5, <2>1, <2>2 DEF SlotWanted
  <2>4. LineOK'
    <3>1. \A i \in DOMAIN waiting : pc[waiting[i]] = "waiting" /\ waiting[i] # t
      BY <1>2 DEF PoolInv, LineOK
    <3>2. /\ DOMAIN waiting' = 1..(Len(waiting) + 1)
          /\ waiting'[Len(waiting) + 1] = t
          /\ \A i \in DOMAIN waiting : waiting'[i] = waiting[i]
          /\ DOMAIN waiting = 1..Len(waiting) /\ Len(waiting) \in Nat
      BY <1>1, <2>1
    <3>3. \A i \in DOMAIN waiting' : i \in DOMAIN waiting \/ i = Len(waiting) + 1
      BY <3>2
    <3>4. \A i \in DOMAIN waiting' : pc'[waiting'[i]] = "waiting"
      BY <1>1, <2>1, <3>1, <3>2, <3>3
    <3>5. \A i, j \in DOMAIN waiting' : waiting'[i] = waiting'[j] => i = j
      BY <3>1, <3>2, <3>3 DEF PoolInv, LineOK
    <3> QED
      BY <3>4, <3>5 DEF LineOK
  <2>5. HoldersSent'
    BY <1>1, <2>1 DEF PoolInv, HoldersSent, TypeOK, WorkerTypes, MaybeTurn
  <2>6. OnKnown'
    BY <1>1, <2>1 DEF PoolInv, OnKnown
  <2> QED
    BY <2>3, <2>4, <2>5, <2>6 DEF Kept, SlotStep
<1> QED
  BY <1>3, <1>4, <1>5

LEMMA ReleaseKept ==
  ASSUME PoolInv, NEW t \in Turn, Release(t)
  PROVE  Kept
<1>1. /\ pc \in [Turn -> Steps] /\ waiting \in Seq(Turn) /\ pc[t] = "leaving"
      /\ on' = on /\ holder' = holder /\ t \in Holding
  BY DEF Release, PoolInv, TypeOK, TurnTypes, workerVars, Holding, Admitted
<1>2. CASE waiting = <<>>
  <2>1. /\ pc' = [pc EXCEPT ![t] = "done"]
        /\ admitted' = admitted - 1 /\ waiting' = waiting
    BY <1>2 DEF Release
  <2>2. Holding' = Holding \ {t}
    BY <1>1, <2>1 DEF Holding, Admitted
  <2>3. SlotFreed(t)
    BY <1>1, <1>2, <2>1, <2>2 DEF SlotFreed
  <2>4. LineOK'
    BY <1>2, <2>1 DEF LineOK
  <2>5. HoldersSent'
    BY <1>1, <2>1 DEF PoolInv, HoldersSent, TypeOK, WorkerTypes, MaybeTurn
  <2>6. OnKnown'
    BY <1>1, <2>1 DEF PoolInv, OnKnown
  <2> QED
    BY <2>3, <2>4, <2>5, <2>6 DEF Kept, SlotStep
<1>3. CASE waiting # <<>>
  <2> DEFINE h == Head(waiting)
  <2>1. /\ pc' = [pc EXCEPT ![t] = "done", ![h] = "granted"]
        /\ admitted' = admitted /\ waiting' = Tail(waiting)
    BY <1>3 DEF Release
  <2>2. h = waiting[1] /\ h \in Turn /\ 1 \in DOMAIN waiting
    BY <1>1, <1>3
  <2>3. pc[h] = "waiting" /\ h # t /\ h \notin Holding
    BY <1>1, <2>2 DEF PoolInv, LineOK, Holding, Admitted
  <2>4. Holding' = (Holding \ {t}) \cup {h}
    BY <1>1, <2>1, <2>2, <2>3 DEF Holding, Admitted
  <2>5. SlotHandedOn(t)
    BY <1>1, <1>3, <2>1, <2>3, <2>4 DEF SlotHandedOn
  <2>6. LineOK'
    <3>1. /\ DOMAIN waiting' = 1..(Len(waiting) - 1)
          /\ \A i \in DOMAIN waiting' : waiting'[i] = waiting[i + 1]
          /\ DOMAIN waiting = 1..Len(waiting) /\ Len(waiting) \in Nat
      BY <1>1, <1>3, <2>1
    <3>2. \A i \in DOMAIN waiting' : i + 1 \in DOMAIN waiting /\ i + 1 # 1
      BY <3>1
    <3>3. \A i \in DOMAIN waiting' : waiting[i + 1] \notin {t, h}
      BY <1>1, <2>2, <3>2 DEF PoolInv, LineOK
    <3>4. \A i \in DOMAIN waiting' : pc'[waiting'[i]] = "waiting"
      BY <1>1, <2>1, <3>1, <3>2, <3>3 DEF PoolInv, LineOK
    <3>5. \A i, j \in DOMAIN waiting' : waiting'[i] = waiting'[j] => i = j
      BY <3>1, <3>2 DEF PoolInv, LineOK
    <3> QED
      BY <3>4, <3>5 DEF LineOK
  <2>7. HoldersSent'
    BY <1>1, <2>1, <2>3 DEF PoolInv, HoldersSent, TypeOK, WorkerTypes, MaybeTurn
  <2>8. OnKnown'
    BY <1>1, <2>1 DEF PoolInv, OnKnown
  <2> QED
    BY <2>5, <2>6, <2>7, <2>8 DEF Kept, SlotStep
<1> QED
  BY <1>2, <1>3

LEMMA RunTurnKept ==
  ASSUME PoolInv, NEW t \in Turn, RunTurn(t)
  PROVE  Kept
<1> DEFINE k == KeyOf[t]
           existing == workers[k]
           mismatch == existing # NoTurn /\ PolicyOf[existing] # PolicyOf[t]
<1>1. /\ pc[t] = "granted" /\ k \in Key /\ existing \in MaybeTurn
      /\ waiting' = waiting /\ admitted' = admitted
  BY KeyAssumption DEF RunTurn, PoolInv, TypeOK, WorkerTypes
<1>2. on \in [Turn -> MaybeTurn] /\ pc[t] \in Admitted \ {"sent"}
  BY <1>1 DEF PoolInv, TypeOK, TurnTypes, Admitted
<1>3. CASE Settle({t}) /\ UNCHANGED workerVars
  BY <1>1, <1>2, <1>3, SettleKept DEF workerVars
<1>4. CASE mismatch /\ Retire({existing})
           /\ pc' = [pc EXCEPT ![t] = "blocked"] /\ on' = [on EXCEPT ![t] = existing]
  <2>1. \A w \in Worker : holder'[w] # NoTurn => holder'[w] = holder[w]
    BY <1>4 DEF Retire
  <2> QED
    BY <1>1, <1>2, <1>4, <2>1, MoveKeeps DEF Admitted
<1>5. CASE /\ pc' = [pc EXCEPT ![t] = "blocked"]
           /\ on' = [on EXCEPT ![t] = retiring[k]]
           /\ UNCHANGED workerVars
  BY <1>1, <1>2, <1>5, MoveKeeps DEF Admitted, workerVars
<1>6. CASE existing # NoTurn /\ Deliver(t, existing)
  <2>1. existing \in Turn
    BY <1>1, <1>6 DEF MaybeTurn
  <2> QED
    BY <1>1, <1>2, <1>6, <2>1, DeliverKept
<1>7. CASE pc' = [pc EXCEPT ![t] = "starting"] /\ UNCHANGED <<on, workerVars>>
  BY <1>1, <1>2, <1>7, MoveKeeps DEF Admitted, workerVars
<1> QED
  BY <1>3, <1>4, <1>5, <1>6, <1>7 DEF RunTurn

LEMMA StartingKept ==
  ASSUME PoolInv, NEW t \in Turn,
         AwaitCapacity(t) \/ Spawn(t) \/ \E w \in Worker : Evict(t, w)
  PROVE  Kept
<1>1. /\ pc[t] \in Admitted \ {"sent"} /\ on \in [Turn -> MaybeTurn]
      /\ pc \in [Turn -> Steps] /\ waiting' = waiting /\ admitted' = admitted
  BY DEF AwaitCapacity, Spawn, Evict, PoolInv, TypeOK, TurnTypes, Admitted
<1>2. CASE Settle({t}) /\ holder' = holder
  BY <1>1, <1>2, SettleKept
<1>3. CASE AwaitCapacity(t)
  <2>1. holder' = holder
    BY <1>3 DEF AwaitCapacity, workerVars
  <2>2. CASE Settle({t})
    BY <1>2, <2>1, <2>2
  <2>3. CASE ~Settle({t})
    <3>1. PICK w \in Turn : /\ pc' = [pc EXCEPT ![t] = "evicting"]
                            /\ on' = [on EXCEPT ![t] = w]
      BY <1>3, <2>3 DEF AwaitCapacity, PoolInv, TypeOK, WorkerTypes, Worker
    <3> QED
      BY <1>1, <2>1, <3>1, MoveKeeps DEF Admitted
  <2> QED
    BY <2>2, <2>3
<1>4. CASE Spawn(t)
  <2>1. CASE Stopped(t)
    BY <1>2, <1>4, <2>1 DEF Spawn, workerVars
  <2>2. CASE ~Stopped(t)
    <3>1. /\ pc' = [pc EXCEPT ![t] = "given"] /\ on' = [on EXCEPT ![t] = t]
          /\ holder' = holder
      BY <1>4, <2>2 DEF Spawn, pendingVars
    <3> QED
      BY <1>1, <3>1, MoveKeeps DEF Admitted
  <2> QED
    BY <2>1, <2>2
<1>5. ASSUME NEW w \in Worker, Evict(t, w) PROVE Kept
  <2>1. holder[w] = NoTurn /\ Retire({w})
    BY <1>5 DEF Evict, Oldest, Spare
  <2>2. holder' = holder
    BY <2>1 DEF Retire, PoolInv, TypeOK, WorkerTypes
  <2>3. CASE pc' = pc /\ on' = on
    <3>1. pc' = [pc EXCEPT ![t] = pc[t]]
      BY <1>1, <2>3
    <3>2. pc[t] = "starting"
      BY <1>5 DEF Evict
    <3> QED
      BY <1>1, <2>2, <2>3, <3>1, <3>2, MoveKeeps DEF Admitted
  <2>4. CASE pc' = [pc EXCEPT ![t] = "evicting"] /\ on' = [on EXCEPT ![t] = w]
    BY <1>1, <2>2, <2>4, MoveKeeps DEF Admitted
  <2> QED
    BY <1>2, <1>5, <2>2, <2>3, <2>4 DEF Evict
<1> QED
  BY <1>3, <1>4, <1>5

LEMMA TakeWorkerKept ==
  ASSUME PoolInv, NEW t \in Turn, TakeWorker(t)
  PROVE  Kept
<1> DEFINE w == on[t]
<1>1. /\ pc[t] = "given" /\ w \in Turn /\ on \in [Turn -> MaybeTurn]
      /\ waiting' = waiting /\ admitted' = admitted
  BY DEF TakeWorker, PoolInv, OnKnown, TypeOK, TurnTypes
<1>2. CASE Retire({w} \ dead) /\ Settle({t} \cup Losers({w} \ dead))
  <2>1. {w} \ dead \in SUBSET Worker /\ {t} \in SUBSET Turn
    BY <1>1 DEF Worker
  <2> QED
    BY <1>1, <1>2, <2>1, RetireKept DEF Admitted
<1>3. CASE Settle({t}) /\ UNCHANGED workerVars
  BY <1>1, <1>3, SettleKept DEF Admitted, workerVars
<1>4. CASE Deliver(t, w)
  BY <1>1, <1>4, DeliverKept DEF Admitted
<1> QED
  BY <1>2, <1>3, <1>4 DEF TakeWorker

LEMMA ExitKept ==
  ASSUME PoolInv, NEW t \in Turn,
         ExitConfirmed(t) \/ ExitUnconfirmed(t) \/ ExitTimeout(t)
  PROVE  Kept
<1>1. /\ pc[t] \in {"blocked", "evicting"} /\ on \in [Turn -> MaybeTurn]
      /\ waiting' = waiting /\ admitted' = admitted /\ holder' = holder
  BY DEF ExitConfirmed, ExitUnconfirmed, ExitTimeout, AwaitsExit, PoolInv, TypeOK,
     TurnTypes, workerVars
<1>2. CASE Settle({t})
  BY <1>1, <1>2, SettleKept DEF Admitted
<1>3. CASE ExitConfirmed(t)
  <2>1. PICK s \in {"granted", "starting"} : pc' = [pc EXCEPT ![t] = s]
    BY <1>1, <1>3 DEF ExitConfirmed, PoolInv, TypeOK, TurnTypes
  <2>2. \A u \in Turn \ {t} : on'[u] = on[u]
    BY <1>1, <1>3 DEF ExitConfirmed
  <2> QED
    BY <1>1, <2>1, <2>2, MoveKeeps DEF Admitted
<1> QED
  BY <1>2, <1>3 DEF ExitUnconfirmed, ExitTimeout

LEMMA AbortKept ==
  ASSUME PoolInv, NEW t \in Turn, Abort(t)
  PROVE  Kept
<1>1. /\ pc \in [Turn -> Steps] /\ waiting \in Seq(Turn) /\ admitted' = admitted
  BY DEF Abort, AbortQueued, AbortAtExit, AbortNoted, AbortSent, AbortSignal,
     PoolInv, TypeOK, TurnTypes
<1>2. CASE AbortQueued(t) /\ pc[t] = "queued"
  <2>1. pc' = [pc EXCEPT ![t] = "done"] /\ waiting' = waiting /\ on' = on /\ holder' = holder
    BY <1>2 DEF AbortQueued, workerVars
  <2> QED
    BY <1>1, <1>2, <2>1, OutsideKeeps
<1>3. CASE AbortQueued(t) /\ pc[t] = "waiting"
  <2>1. pc' = [pc EXCEPT ![t] = "done"] /\ on' = on /\ holder' = holder
    BY <1>3 DEF AbortQueued, workerVars
  <2>2. PICK i \in DOMAIN waiting : waiting[i] = t /\ waiting' = Splice(waiting, i)
    BY <1>3 DEF AbortQueued
  <2>3. Holding' = Holding
    BY <1>1, <1>3, <2>1 DEF Holding, Admitted
  <2>4. SlotGivenUp(t)
    BY <1>1, <2>2, <2>3 DEF SlotGivenUp
  <2>5. LineOK'
    <3>1. /\ Len(waiting) \in Nat /\ i \in 1..Len(waiting)
          /\ DOMAIN waiting = 1..Len(waiting)
      BY <1>1, <2>2
    <3>2. /\ DOMAIN waiting' = 1..(Len(waiting) - 1)
          /\ \A j \in DOMAIN waiting' :
               waiting'[j] = IF j < i THEN waiting[j] ELSE waiting[j + 1]
      BY <2>2 DEF Splice
    <3> DEFINE old(j) == IF j < i THEN j ELSE j + 1
    <3>3. \A j \in DOMAIN waiting' :
            old(j) \in DOMAIN waiting /\ old(j) # i /\ waiting'[j] = waiting[old(j)]
      BY <3>1, <3>2
    <3>4. \A j, l \in DOMAIN waiting' : old(j) = old(l) => j = l
      BY <3>1, <3>2
    <3> HIDE DEF old
    <3>5. \A j \in DOMAIN waiting' : waiting[old(j)] # t /\ waiting[old(j)] \in Turn
      BY <1>1, <2>2, <3>3 DEF PoolInv, LineOK
    <3>6. \A j \in DOMAIN waiting' : pc'[waiting'[j]] = "waiting"
      BY <1>1, <2>1, <3>3, <3>5 DEF PoolInv, LineOK
    <3>7. \A j, l \in DOMAIN waiting' : waiting'[j] = waiting'[l] => j = l
      BY <3>3, <3>4 DEF PoolInv, LineOK
    <3> QED
      BY <3>6, <3>7 DEF LineOK
  <2>6. HoldersSent'
    BY <1>1, <1>3, <2>1 DEF PoolInv, HoldersSent, TypeOK, WorkerTypes, MaybeTurn
  <2>7. OnKnown'
    BY <1>1, <2>1 DEF PoolInv, OnKnown
  <2> QED
    BY <2>4, <2>5, <2>6, <2>7 DEF Kept, SlotStep
<1>4. CASE AbortAtExit(t)
  BY <1>1, <1>4, SettleKept DEF AbortAtExit, AwaitsExit, Admitted, workerVars
<1>5. CASE AbortNoted(t)
  <2>1. UNCHANGED <<pc, on, waiting, holder, admitted>>
    BY <1>1, <1>5 DEF AbortNoted, workerVars
  <2> QED
    BY <2>1 DEF Kept, SlotStep, SlotsSame, Holding, LineOK, HoldersSent, OnKnown,
       PoolInv
<1>6. CASE AbortSent(t)
  <2>1. {on[t]} \in SUBSET Worker /\ {} \in SUBSET Turn
    BY <1>6 DEF AbortSent, PoolInv, OnKnown, Worker
  <2>2. Settle({} \cup Losers({on[t]}))
    <3>1. {} \cup Losers({on[t]}) = Losers({on[t]})
      OBVIOUS
    <3> QED
      BY <1>6, <3>1 DEF AbortSent
  <2> QED
    BY <1>1, <1>6, <2>1, <2>2, RetireKept DEF AbortSent
<1> QED
  BY <1>2, <1>3, <1>4, <1>5, <1>6 DEF Abort, AbortQueued

LEMMA CloseKept ==
  ASSUME PoolInv, Close
  PROVE  Kept
<1> DEFINE S == allWorkers \ dead
           stopped == Losers(S) \cup {t \in Turn : AwaitsExit(t)}
<1>1. pc \in [Turn -> Steps] /\ S \in SUBSET Worker
  BY DEF PoolInv, TypeOK, TurnTypes, WorkerTypes
<1>2. /\ pc' = [t \in Turn |-> IF t \in stopped THEN "leaving"
                               ELSE IF pc[t] \in {"queued", "waiting"} THEN "done"
                               ELSE pc[t]]
      /\ on' = [t \in Turn |-> IF t \in stopped THEN NoTurn ELSE on[t]]
      /\ waiting' = <<>> /\ admitted' = admitted /\ Retire(S)
  BY DEF Close
<1>3. stopped \in SUBSET Holding
  <2>1. {t \in Turn : AwaitsExit(t)} \in SUBSET Holding
    BY DEF AwaitsExit, Holding, Admitted
  <2> QED
    BY <1>1, <2>1, LosersHold DEF PoolInv
<1>4. SlotsRefused
  <2>1. \A t \in Turn : pc'[t] \in Admitted <=> pc[t] \in Admitted
    <3> HIDE DEF stopped
    <3> QED
      BY <1>1, <1>2, <1>3 DEF Holding, Admitted
  <2> QED
    BY <1>2, <2>1 DEF SlotsRefused, Holding
<1>5. LineOK'
  BY <1>2 DEF LineOK
<1>6. OnKnown'
  <2> HIDE DEF stopped
  <2> QED
    BY <1>1, <1>2 DEF PoolInv, OnKnown
<1>7. HoldersSent'
  <2> SUFFICES ASSUME NEW w \in Worker, holder'[w] # NoTurn
               PROVE  pc'[holder'[w]] = "sent" /\ on'[holder'[w]] = w
    BY DEF HoldersSent
  <2>1. w \notin S /\ holder'[w] = holder[w]
    BY <1>2 DEF Retire, PoolInv, TypeOK, WorkerTypes
  <2>2. pc[holder[w]] = "sent" /\ on[holder[w]] = w /\ holder[w] \in Turn
    BY <2>1 DEF PoolInv, HoldersSent, TypeOK, WorkerTypes, MaybeTurn
  <2>3. holder[w] \notin Losers(S)
    BY <1>1, <2>1, <2>2 DEF Losers, PoolInv, HoldersSent
  <2>4. ~AwaitsExit(holder[w])
    BY <2>2 DEF AwaitsExit
  <2>5. holder[w] \notin stopped
    BY <2>3, <2>4
  <2> HIDE DEF stopped
  <2> QED
    BY <1>2, <2>1, <2>2, <2>5
<1> QED
  BY <1>4, <1>5, <1>6, <1>7 DEF Kept, SlotStep

-----------------------------------------------------------------------------
(* The step theorem.                                                       *)

LEMMA ArriveKept ==
  ASSUME PoolInv, NEW t \in Turn, Arrive(t)
  PROVE  Kept
<1>1. pc[t] = "new" /\ on' = on /\ holder' = holder
  BY DEF Arrive, workerVars
<1>2. CASE AdmitRun(t)
  BY <1>1, <1>2, AdmitRunKept
<1>3. CASE pc' = [pc EXCEPT ![t] = "queued"] /\ UNCHANGED <<admitted, waiting>>
  BY <1>1, <1>3, OutsideKeeps
<1> QED
  BY <1>2, <1>3 DEF Arrive

LEMMA TurnStepKept ==
  ASSUME PoolInv, NEW t \in Turn, TurnStep(t)
  PROVE  Kept /\ TypeOK'
<1>1. ahead' \in [Turn -> SUBSET Turn]
  BY RequeueTypes DEF TurnStep, PoolInv, TypeOK
<1>2. CASE PredecessorsSettled(t)
  <2>1. /\ pc' = [pc EXCEPT ![t] = "ready"] /\ pc[t] = "queued" /\ on' = on
        /\ holder' = holder /\ waiting' = waiting /\ admitted' = admitted
    BY <1>2 DEF PredecessorsSettled, workerVars
  <2>2. Kept
    BY <2>1, OutsideKeeps
  <2>3. TypeOK'
    BY <1>1, <1>2 DEF PredecessorsSettled, PoolInv, TypeOK, TurnTypes, WorkerTypes,
       CloseTypes, queueVars, workerVars, closeVars, Steps, InTurn
  <2> QED
    BY <2>2, <2>3
<1>3. CASE Admit(t)
  <2>1. pc[t] = "ready" /\ AdmitRun(t) /\ on' = on /\ holder' = holder
    BY <1>3 DEF Admit, workerVars
  <2>2. Kept
    BY <2>1, AdmitRunKept
  <2>3. TypeOK'
    BY <1>1, <1>3, <2>1, AdmitRunTypes DEF Admit, PoolInv, TypeOK, TurnTypes,
       WorkerTypes, CloseTypes, queueVars, workerVars, closeVars
  <2> QED
    BY <2>2, <2>3
<1>4. CASE Release(t)
  <2>1. TypeOK'
    BY <1>1, <1>4, ReleaseTypes DEF Release, PoolInv, TypeOK, TurnTypes,
       WorkerTypes, CloseTypes, queueVars, workerVars, closeVars
  <2> QED
    BY <1>4, <2>1, ReleaseKept
<1>5. CASE RunTurn(t)
  <2>1. TypeOK'
    BY <1>1, <1>5, RunTurnTypes DEF RunTurn, PoolInv, TypeOK, TurnTypes, CloseTypes,
       queueVars, closeVars
  <2> QED
    BY <1>5, <2>1, RunTurnKept
<1>6. CASE AwaitCapacity(t)
  <2>1. pc' \in [Turn -> Steps] /\ on' \in [Turn -> MaybeTurn]
    <3>1. CASE Settle({t})
      BY <3>1, SettleTypes DEF PoolInv, TypeOK
    <3>2. CASE ~Settle({t})
      <4>1. PICK w \in Worker : /\ pc' = [pc EXCEPT ![t] = "evicting"]
                                /\ on' = [on EXCEPT ![t] = w]
        BY <1>6, <3>2 DEF AwaitCapacity, PoolInv, TypeOK, WorkerTypes
      <4> QED
        BY <4>1 DEF PoolInv, TypeOK, TurnTypes, Steps, InTurn, Admitted, MaybeTurn,
           Worker
    <3> QED
      BY <3>1, <3>2
  <2>2. TypeOK'
    BY <1>1, <1>6, <2>1 DEF AwaitCapacity, PoolInv, TypeOK, TurnTypes, WorkerTypes,
       CloseTypes, queueVars, workerVars, closeVars
  <2> QED
    BY <1>6, <2>2, StartingKept
<1>7. CASE Spawn(t)
  <2>1. TypeOK'
    BY <1>1, <1>7, SpawnTypes DEF Spawn, PoolInv, TypeOK, TurnTypes, CloseTypes,
       queueVars, closeVars
  <2> QED
    BY <1>7, <2>1, StartingKept
<1>8. CASE TakeWorker(t)
  <2>1. on[t] \in Turn
    BY <1>8 DEF TakeWorker, PoolInv, OnKnown
  <2>2. TypeOK'
    BY <1>1, <1>8, <2>1, TakeWorkerTypes DEF TakeWorker, PoolInv, TypeOK, TurnTypes,
       CloseTypes, queueVars, closeVars
  <2> QED
    BY <1>8, <2>2, TakeWorkerKept
<1>9. CASE ExitConfirmed(t) \/ ExitUnconfirmed(t)
  <2>1. pc' \in [Turn -> Steps] /\ on' \in [Turn -> MaybeTurn]
    BY <1>9, SettleTypes DEF ExitConfirmed, ExitUnconfirmed, PoolInv, TypeOK,
       TurnTypes, Steps, InTurn, Admitted, MaybeTurn
  <2>2. TypeOK'
    BY <1>1, <1>9, <2>1 DEF ExitConfirmed, ExitUnconfirmed, PoolInv, TypeOK,
       TurnTypes, WorkerTypes, CloseTypes, queueVars, workerVars, closeVars
  <2> QED
    BY <1>9, <2>2, ExitKept
<1>10. ASSUME NEW w \in Worker, Evict(t, w) PROVE Kept /\ TypeOK'
  <2>1. TypeOK'
    BY <1>1, <1>10, EvictTypes DEF Evict, PoolInv, TypeOK, TurnTypes, CloseTypes,
       queueVars, closeVars
  <2> QED
    BY <1>10, <2>1, StartingKept
<1> QED
  BY <1>2, <1>3, <1>4, <1>5, <1>6, <1>7, <1>8, <1>9, <1>10 DEF TurnStep

LEMMA UntouchedKept ==
  ASSUME PoolInv, UNCHANGED <<pc, on, waiting, admitted, holder>>
  PROVE  Kept
BY DEF Kept, SlotStep, SlotsSame, Holding, LineOK, HoldersSent, OnKnown, PoolInv

LEMMA WorkerEventKept ==
  ASSUME PoolInv, NEW w \in Worker, UNCHANGED ahead,
         InputWritten(w) \/ InputFails(w) \/ ReactToExit(w) \/ WorkerEvent(w)
  PROVE  Kept /\ TypeOK'
<1>1. CASE RetireWorker(w)
  BY <1>1, RetireWorkerKept, RetireWorkerTypes DEF PoolInv
<1>2. CASE InputWritten(w)
  <2>1. waiting' = waiting /\ admitted' = admitted /\ holder[w] # NoTurn
    BY <1>2 DEF InputWritten
  <2>2. CASE reply[w] # NoTurn
    BY <1>2, <2>1, <2>2, FinishKept, InputWrittenTypes DEF InputWritten, PoolInv
  <2>3. CASE reply[w] = NoTurn
    BY <1>2, <2>1, <2>3, UntouchedKept, InputWrittenTypes DEF InputWritten, PoolInv
  <2> QED
    BY <2>2, <2>3
<1>3. CASE Answer(w)
  <2>1. waiting' = waiting /\ admitted' = admitted
    BY <1>3 DEF Answer
  <2>2. CASE holder[w] # NoTurn /\ w \in written
    BY <1>3, <2>1, <2>2, FinishKept, AnswerTypes DEF Answer, PoolInv
  <2>3. CASE ~(holder[w] # NoTurn /\ w \in written)
    BY <1>3, <2>1, <2>3, UntouchedKept, AnswerTypes DEF Answer, PoolInv
  <2> QED
    BY <2>2, <2>3
<1>4. CASE StdoutEnds(w) \/ ExitResolves(w) \/ ExitRejects(w)
  <2>1. UNCHANGED <<turnVars, holder, written, reply, inbox, dead, idle, newer,
                    closeVars>>
    BY <1>4 DEF StdoutEnds, ExitResolves, ExitRejects, residentVars, pendingVars
  <2>2. Kept
    BY <2>1, UntouchedKept DEF turnVars
  <2>3. /\ exit' \in [Worker -> {"none", "pending", "resolved", "rejected"}]
        /\ drained' \subseteq Worker /\ allWorkers' \subseteq Worker
        /\ workers' \in [Key -> MaybeTurn] /\ retiring' \in [Key -> MaybeTurn]
    BY <1>4 DEF StdoutEnds, ExitResolves, ExitRejects, residentVars, PoolInv, TypeOK,
       WorkerTypes, MaybeTurn
  <2>4. TypeOK'
    BY <2>1, <2>3 DEF PoolInv, TypeOK, TurnTypes, WorkerTypes, CloseTypes, turnVars,
       closeVars
  <2> QED
    BY <2>2, <2>4
<1> QED
  BY <1>1, <1>2, <1>3, <1>4 DEF WorkerEvent, InputFails, ReactToExit, WorkerFault,
     IdleTimeout, ExitTimer

LEMMA OtherStepKept ==
  ASSUME PoolInv, OtherStep
  PROVE  Kept /\ TypeOK'
<1>1. UNCHANGED ahead
  BY DEF OtherStep
<1>2. ASSUME NEW t \in Turn, TailResolves(t) PROVE Kept /\ TypeOK'
  <2>1. Kept
    BY <1>2, UntouchedKept DEF TailResolves, workerVars
  <2>2. TypeOK'
    BY <1>1, <1>2 DEF TailResolves, PoolInv, TypeOK, TurnTypes, WorkerTypes,
       CloseTypes, workerVars, closeVars, MaybeTurn
  <2> QED
    BY <2>1, <2>2
<1>3. ASSUME NEW t \in Turn, ExitTimeout(t) PROVE Kept /\ TypeOK'
  <2>1. pc' \in [Turn -> Steps] /\ on' \in [Turn -> MaybeTurn]
    BY <1>3, SettleTypes DEF ExitTimeout, PoolInv, TypeOK
  <2>2. TypeOK'
    BY <1>1, <1>3, <2>1 DEF ExitTimeout, PoolInv, TypeOK, TurnTypes, WorkerTypes,
       CloseTypes, queueVars, workerVars, closeVars
  <2> QED
    BY <1>3, <2>2, ExitKept
<1>4. ASSUME NEW t \in Turn, Abort(t) PROVE Kept /\ TypeOK'
  BY <1>1, <1>4, AbortKept, AbortTypes DEF PoolInv, OnKnown
<1>5. ASSUME NEW w \in Worker,
             InputWritten(w) \/ InputFails(w) \/ ReactToExit(w) \/ WorkerEvent(w)
      PROVE  Kept /\ TypeOK'
  BY <1>1, <1>5, WorkerEventKept
<1>6. CASE Close
  BY <1>1, <1>6, CloseKept, CloseStepTypes DEF PoolInv
<1>7. CASE CloseReturns \/ CloseTimeout
  <2>1. UNCHANGED <<turnVars, workerVars, closed>>
    BY <1>7 DEF CloseReturns, CloseTimeout
  <2>2. closing' \in {"forced", "failed", "closed"}
    BY <1>7 DEF CloseReturns, CloseTimeout
  <2>3. Kept
    BY <2>1, UntouchedKept DEF turnVars, workerVars
  <2>4. TypeOK'
    BY <1>1, <2>1, <2>2 DEF PoolInv, TypeOK, TurnTypes, WorkerTypes, CloseTypes,
       turnVars, workerVars
  <2> QED
    BY <2>3, <2>4
<1> QED
  BY <1>2, <1>3, <1>4, <1>5, <1>6, <1>7 DEF OtherStep

LEMMA StepKept ==
  ASSUME PoolInv, [Next]_vars
  PROVE  Kept /\ PoolInv'
<1>1. Kept /\ TypeOK'
  <2>1. ASSUME NEW t \in Turn, Arrive(t) PROVE Kept /\ TypeOK'
    BY <2>1, ArriveKept, ArriveTypes DEF PoolInv
  <2>2. ASSUME NEW t \in Turn, TurnStep(t) PROVE Kept /\ TypeOK'
    BY <2>2, TurnStepKept
  <2>3. CASE OtherStep
    BY <2>3, OtherStepKept
  <2>4. CASE UNCHANGED vars
    <3>1. Kept
      BY <2>4, UntouchedKept DEF vars, turnVars, workerVars
    <3>2. TypeOK'
      BY <2>4 DEF PoolInv, TypeOK, TurnTypes, WorkerTypes, CloseTypes, vars, turnVars,
         workerVars, closeVars
    <3> QED
      BY <3>1, <3>2
  <2> QED
    BY <2>1, <2>2, <2>3, <2>4 DEF Next, Terminating
<1>2. SlotAccounting'
  BY <1>1, SlotStepAccounts DEF PoolInv, Kept
<1> QED
  BY <1>1, <1>2 DEF PoolInv, Kept

LEMMA InitPoolInv == Init => PoolInv
<1> SUFFICES ASSUME Init PROVE PoolInv
  OBVIOUS
<1>1. TypeOK
  <2>1. TurnTypes
    BY DEF Init, TurnTypes, MaybeTurn, Steps
  <2>2. WorkerTypes
    BY DEF Init, WorkerTypes, MaybeTurn
  <2>3. CloseTypes
    BY DEF Init, CloseTypes
  <2> QED
    BY <2>1, <2>2, <2>3 DEF TypeOK
<1>2. SlotAccounting
  <2>1. Holding = {}
    BY DEF Init, Holding, Admitted
  <2>2. admitted = Cardinality(Holding) /\ admitted <= Limit
    BY <2>1, FS_EmptySet, LimitAssumption DEF Init
  <2> QED
    BY <2>2 DEF SlotAccounting, Init
<1>3. LineOK /\ HoldersSent /\ OnKnown
  BY DEF Init, LineOK, HoldersSent, OnKnown
<1> QED
  BY <1>1, <1>2, <1>3 DEF PoolInv

THEOREM PoolInvariant == Spec => []PoolInv
<1>1. PoolInv /\ [Next]_vars => PoolInv'
  BY StepKept
<1> QED
  BY InitPoolInv, <1>1, PTL DEF Spec

\* The session pool keeps its types: in particular the slot count never drops
\* below zero, however turns are aborted, retired or refused.
THEOREM TypeCorrect == Spec => []TypeOK
BY PoolInvariant, PTL DEF PoolInv

\* Admission of any number of turns under any limit: the count is the number
\* of turns that hold a slot, never above the limit, and nobody waits while a
\* slot is free.
THEOREM SlotsAccounted == Spec => []SlotAccounting
BY PoolInvariant, PTL DEF PoolInv

-----------------------------------------------------------------------------
(* Every step of the pool is a step of the abstract slot queue.            *)

LEMMA AdmissionSteps ==
  ASSUME PoolInv, SlotStep
  PROVE  [Slots!Next]_(Slots!vars)
<1>1. admitted = Cardinality(Holding)
  BY DEF PoolInv, SlotAccounting
<1>8. Slots!Cardinality(Holding) = Cardinality(Holding)
  BY Zenon DEF Slots!Cardinality, Cardinality, Slots!IsFiniteSet, IsFiniteSet
<1>2. CASE SlotsSame
  BY <1>2 DEF SlotsSame, Slots!vars
<1>3. CASE SlotsRefused
  BY <1>3 DEF SlotsRefused, Slots!Next, Slots!SendAway
<1>4. ASSUME NEW t \in Turn, SlotTaken(t) PROVE Slots!Enter(t)
  <2>1. t \notin Holding /\ ~Slots!InLine(t)
    BY <1>4 DEF SlotTaken, Slots!InLine
  <2>2. Cardinality(Holding) < Limit /\ waiting = <<>>
    BY <1>1, <1>4 DEF SlotTaken
  <2>3. Holding' = Holding \cup {t} /\ waiting' = waiting
    BY <1>4 DEF SlotTaken
  <2> QED
    BY <1>8, <2>1, <2>2, <2>3 DEF Slots!Enter
<1>7. ASSUME NEW t \in Turn, SlotWanted(t) PROVE Slots!Enter(t)
  <2>1. t \notin Holding /\ ~Slots!InLine(t)
    BY <1>7 DEF SlotWanted, Slots!InLine
  <2>2. ~(Cardinality(Holding) < Limit /\ waiting = <<>>)
    BY <1>1, <1>7 DEF SlotWanted
  <2>3. Holding' = Holding /\ waiting' = Append(waiting, t)
    BY <1>7 DEF SlotWanted
  <2> QED
    BY <1>8, <2>1, <2>2, <2>3 DEF Slots!Enter
<1>5. ASSUME NEW t \in Turn, SlotFreed(t) \/ SlotHandedOn(t) PROVE Slots!Leave(t)
  BY <1>5 DEF SlotFreed, SlotHandedOn, Slots!Leave
<1>6. ASSUME NEW t \in Turn, SlotGivenUp(t) PROVE Slots!GiveUp(t)
  BY <1>6 DEF SlotGivenUp, Splice, Slots!GiveUp, Slots!Splice
<1> QED
  BY <1>2, <1>3, <1>4, <1>5, <1>6, <1>7 DEF SlotStep, Slots!Next

\* The pool's admission implements the abstract slot queue: a slot is taken,
\* handed to the head of the line, given up or refused exactly as the queue
\* allows, for any number of turns and any limit.
THEOREM AdmissionRefines == Spec => AdmissionIsSlotQueue
<1>1. Init => Slots!Init
  BY DEF Init, Holding, Admitted, Slots!Init
<1>2. PoolInv /\ [Next]_vars => [Slots!Next]_(Slots!vars)
  BY StepKept, AdmissionSteps DEF Kept
<1> QED
  BY PoolInvariant, <1>1, <1>2, PTL DEF Spec, AdmissionIsSlotQueue, Slots!Spec
=============================================================================

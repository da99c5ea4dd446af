------------------------------ MODULE RateLimitPool ------------------------------
(***************************************************************************)
(* The pool of send tokens that the sessions of one bot share (class       *)
(* RateLimitPool in src/src/agent/notify/rate-limit-pool.ts): a token      *)
(* bucket, lanes by priority, and within a lane a cursor that rotates over *)
(* the sessions that have something queued now.                            *)
(*                                                                         *)
(* A payload is left out: an item is its session and its coalesce key.     *)
(***************************************************************************)
EXTENDS Naturals, Sequences, FiniteSets, SequencesExt

CONSTANTS Session,
          Lanes,      \* LANE_PRIORITY: the lanes, highest priority first
          CoalesceKey, NoKey,
          Burst,      \* capacity of the bucket
          MaxPending  \* bound: items queued in all lanes

ASSUME PoolBounds == IsFiniteSet(Session) /\ Burst \in Nat

VARIABLES
  lanes,     \* the queue of each lane
  cursor,    \* laneCursor: the rotating cursor of each lane
  bucket,    \* tokens
  draining,  \* the loop of drain() runs
  passed     \* ghost: grants of a lane that passed a session by while it was waiting
             \* there, since an item was last removed from the lane unsent

poolVars == <<lanes, cursor, bucket, draining, passed>>

LaneSet == ToSet(Lanes)
NobodyPassed == [s \in Session |-> 0]

PoolInit ==
  /\ lanes = [l \in LaneSet |-> <<>>] /\ cursor = [l \in LaneSet |-> 0] /\ bucket = Burst
  /\ draining = FALSE /\ passed = [l \in LaneSet |-> NobodyPassed]

Pending(queues) == FoldLeft(LAMBDA n, l : n + Len(queues[l]), 0, Lanes)

---------------------------------------------------------------------------
(* Choosing                                                                *)

\* The sessions that have an item in a queue, and the place of the oldest item of one.
Senders(queue) == {queue[i].session : i \in DOMAIN queue}
Oldest(queue, s) == Min({i \in DOMAIN queue : queue[i].session = s})
\* The sessions before one in the order of their oldest items.
AheadOf(queue, s) == {t \in Senders(queue) : Oldest(queue, t) < Oldest(queue, s)}

\* Defect: the cursor stops at the last session instead of wrapping round.
StopsAtLast(queue, at) ==
  LET size == Cardinality(Senders(queue))
      under == IF at < size THEN at ELSE size - 1
  IN [session |-> CHOOSE s \in Senders(queue) : Cardinality(AheadOf(queue, s)) = under,
      next |-> IF size > 1 /\ under + 1 < size THEN under + 1 ELSE at]

\* pickFairIndex: the session under the cursor; a lone session leaves the cursor.
PickFair(queue, at) ==
  LET size == Cardinality(Senders(queue)) IN
  [session |-> CHOOSE s \in Senders(queue) : Cardinality(AheadOf(queue, s)) = at % size,
   next |-> IF size > 1 THEN ((at % size) + 1) % size ELSE at]

Passing(queue, counts, served) ==
  [s \in Session |-> IF s = served \/ s \notin Senders(queue) THEN 0 ELSE counts[s] + 1]

---------------------------------------------------------------------------
(* Operations                                                              *)

Coalesces(l, item) ==
  item.key # NoKey /\ \E i \in DOMAIN lanes[l] : lanes[l][i] = item

\* An item with the key of a queued one takes its place, any other is appended.
Submit(l, item) ==
  /\ ~draining
  /\ IF Coalesces(l, item) THEN UNCHANGED lanes
     ELSE Pending(lanes) < MaxPending /\ lanes' = [lanes EXCEPT ![l] = Append(@, item)]
  /\ UNCHANGED <<cursor, bucket, draining, passed>>

\* drain: as many items as there are tokens; the loop has no await.
Drain == ~draining /\ draining' = TRUE /\ UNCHANGED <<lanes, cursor, bucket, passed>>

\* takeNext, from the first lane that has anything, for one token.
TakesNext(n) ==
  LET l == Lanes[n]
      pick == PickFair(lanes[l], cursor[l])
  IN /\ draining /\ bucket >= 1
     /\ lanes[l] # <<>> /\ \A m \in 1 .. n - 1 : lanes[Lanes[m]] = <<>>
     /\ lanes' = [lanes EXCEPT ![l] = RemoveAt(@, Oldest(@, pick.session))]
     /\ cursor' = [cursor EXCEPT ![l] = pick.next]
     /\ bucket' = bucket - 1
     /\ passed' = [passed EXCEPT ![l] = Passing(lanes[l], @, pick.session)]
     /\ UNCHANGED draining

DrainEnds ==
  /\ draining /\ (bucket < 1 \/ \A l \in LaneSet : lanes[l] = <<>>)
  /\ draining' = FALSE /\ UNCHANGED <<lanes, cursor, bucket, passed>>

\* A clock that goes on: whole tokens, up to the capacity.
Refill ==
  ~draining /\ bucket < Burst /\ bucket' = bucket + 1 /\ UNCHANGED <<lanes, cursor, draining, passed>>

\* removeWhere, of one item; a call that finds several is as many of these steps.
RemoveWhere(l, i) ==
  /\ ~draining
  /\ lanes' = [lanes EXCEPT ![l] = RemoveAt(@, i)]
  /\ passed' = [passed EXCEPT ![l] = NobodyPassed]
  /\ UNCHANGED <<cursor, bucket, draining>>

PoolNext ==
  \/ \E l \in LaneSet, s \in Session, k \in CoalesceKey \cup {NoKey} : Submit(l, [session |-> s, key |-> k])
  \/ Drain \/ (\E n \in DOMAIN Lanes : TakesNext(n)) \/ DrainEnds \/ Refill
  \/ \E l \in LaneSet : \E i \in DOMAIN lanes[l] : RemoveWhere(l, i)

PoolSpec == PoolInit /\ [][PoolNext]_poolVars

---------------------------------------------------------------------------
(* Property                                                                *)

\* A session that waits in a lane is not passed over for ever, however many others come
\* and are served, although the cursor counts the sessions that are queued at the moment
\* ("one session's live-edit stream cannot starve other sessions"); an item that is removed
\* unsent starts the count again.
NotStarved ==
  \A l \in LaneSet, s \in Session :
    s \in Senders(lanes[l]) =>
      passed[l][s] <= Cardinality(Session) * (Cardinality(Session) - 1)
=============================================================================

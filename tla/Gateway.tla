--------------------------------- MODULE Gateway ---------------------------------
(***************************************************************************)
(* The messenger gateway (createMessengerGateway in                        *)
(* src/src/messenger/gateway.ts): from a message that an adapter hands over*)
(* to the end of its request.  A call of handle() drops an id it has seen, *)
(* offers the message to the sandbox control, waits for its admission lane,*)
(* claims a place in the queue, lets the adapter prepare the destination   *)
(* (which may open a thread) and queues the request; the scheduler starts  *)
(* requests of different conversations side by side.                       *)
(*                                                                         *)
(* Adapters deliver an id again after a reconnect or when an answer was    *)
(* lost.  Status reactions, activity reports and texts are left out.       *)
(***************************************************************************)
EXTENDS Naturals, Sequences, FiniteSets, SequencesExt

CONSTANTS Id,           \* messages
          Lane,         \* the admission lane of each
          Key,          \* the conversation each is prepared for
          Concurrency,  \* requests processed at once
          MaxQueued,    \* MAX_QUEUED_MESSAGES
          MaxSeen,      \* MAX_SEEN_MESSAGES
          MaxCalls      \* bound: deliveries

ASSUME GatewayBounds == Concurrency \in Nat /\ MaxQueued \in Nat /\ MaxSeen \in Nat

VARIABLES
  calls,    \* the calls of handle() in their order: id and where the call stands
  seen,     \* ids that are dropped, oldest first
  queue,    \* calls that wait for a turn
  scan,     \* the place in the queue that schedule() looks at, 0 while it does not run
  started,  \* ghost: calls whose turn started, in that order
  gate      \* "open", "aborted" (lifetime) or "closed" (run() drained the queue)

gatewayVars == <<calls, seen, queue, scan, started, gate>>

GatewayInit ==
  calls = <<>> /\ seen = <<>> /\ queue = <<>> /\ scan = 0 /\ started = <<>> /\ gate = "open"

At(place) == {i \in DOMAIN calls : calls[i].at = place}
LaneOf(i) == Lane[calls[i].id]
KeyOf(i) == Key[calls[i].id]
\* A turn is in a set until its promise settles.
Turning == At("reply") \cup At("send")
Moved(i, place) == [calls EXCEPT ![i].at = place]
\* handle() has left its try block: the lane is free.
Released(i) == calls[i].at \in {"queued", "reply", "send", "settled", "refused"}

---------------------------------------------------------------------------
(* The scheduler: one pass over the queue without an await                 *)

\* Defect: a conversation counts as idle again while its answer is still being sent.
AnsweringKeys == {KeyOf(i) : i \in At("reply")}

ActiveKeys == {KeyOf(i) : i \in Turning}

GoesOn == scan \in DOMAIN queue /\ Cardinality(Turning) < Concurrency

SkipsActive ==
  /\ GoesOn /\ KeyOf(queue[scan]) \in ActiveKeys
  /\ scan' = scan + 1 /\ UNCHANGED <<calls, seen, queue, started, gate>>

StartsQueued ==
  /\ GoesOn /\ KeyOf(queue[scan]) \notin ActiveKeys
  /\ calls' = Moved(queue[scan], "reply") /\ queue' = RemoveAt(queue, scan)
  /\ started' = Append(started, queue[scan])
  /\ UNCHANGED <<seen, scan, gate>>

PassEnds == scan # 0 /\ ~GoesOn /\ scan' = 0 /\ UNCHANGED <<calls, seen, queue, started, gate>>

---------------------------------------------------------------------------
(* handle()                                                                *)

\* Defect: the id is noted only when the message is admitted.
ArrivesUnnoted(id) ==
  /\ Len(calls) < MaxCalls
  /\ calls' = Append(calls, [id |-> id, at |-> IF gate # "open" \/ Contains(seen, id)
                                               THEN "settled" ELSE "control"])
  /\ UNCHANGED <<seen, queue, scan, started, gate>>

Noted(id) == LET longer == Append(seen, id) IN
             IF Len(longer) > MaxSeen THEN Tail(longer) ELSE longer

Arrives(id) ==
  /\ Len(calls) < MaxCalls
  /\ IF gate # "open" \/ Contains(seen, id)
     THEN calls' = Append(calls, [id |-> id, at |-> "settled"]) /\ UNCHANGED seen
     ELSE calls' = Append(calls, [id |-> id, at |-> "control"]) /\ seen' = Noted(id)
  /\ UNCHANGED <<queue, scan, started, gate>>

\* The control answers before the lane is waited for; a failure ends the call too.
Controlled(i, handled) ==
  /\ i \in At("control") /\ calls' = Moved(i, IF handled THEN "settled" ELSE "wait")
  /\ UNCHANGED <<seen, queue, scan, started, gate>>

\* Defect: the lane is not waited for.
LaneOpen(i) == TRUE

LaneFree(i) ==
  \A j \in 1 .. i - 1 : LaneOf(j) = LaneOf(i) => Released(j)

\* Defect: places in the queue alone are counted.
Full == Len(queue) >= MaxQueued

Occupied == Len(queue) + Cardinality(At("prepare")) >= MaxQueued

Forgets(id) ==
  IF Contains(seen, id) THEN \E n \in DOMAIN seen : seen[n] = id /\ seen' = RemoveAt(seen, n)
                        ELSE UNCHANGED seen

\* A message for which there is no place is forgotten: it may come again.
Admitted(i) ==
  /\ i \in At("wait") /\ LaneFree(i)
  /\ \/ gate # "open" /\ calls' = Moved(i, "settled") /\ UNCHANGED seen
     \/ gate = "open" /\ ~Occupied /\ calls' = Moved(i, "prepare") /\ UNCHANGED seen
     \/ gate = "open" /\ Occupied /\ calls' = Moved(i, "refused") /\ Forgets(calls[i].id)
  /\ UNCHANGED <<queue, scan, started, gate>>

\* The destination is ready, or the call ends.
Prepared(i, ok) ==
  /\ i \in At("prepare")
  /\ IF ok /\ gate = "open"
     THEN calls' = Moved(i, "queued") /\ queue' = Append(queue, i) /\ scan' = 1
     ELSE calls' = Moved(i, "settled") /\ UNCHANGED <<queue, scan>>
  /\ UNCHANGED <<seen, started, gate>>

---------------------------------------------------------------------------
(* A turn                                                                  *)

\* The answer, or the text for a failure, is sent; a fatal error ends the gateway.
Replied(i, fatal) ==
  /\ i \in At("reply") /\ calls' = Moved(i, "send")
  /\ gate' = IF fatal /\ gate = "open" THEN "aborted" ELSE gate
  /\ UNCHANGED <<seen, queue, scan, started>>

\* Defect: the end of a turn does not look at the queue.
EndsAlone(i) ==
  /\ i \in At("send") /\ calls' = Moved(i, "settled") /\ UNCHANGED <<seen, queue, scan, started, gate>>

\* Sent or not, the request is over and the queue is looked at.
Ends(i) ==
  /\ i \in At("send") /\ calls' = Moved(i, "settled") /\ scan' = 1
  /\ UNCHANGED <<seen, queue, started, gate>>

---------------------------------------------------------------------------
(* run()                                                                   *)

GatewayAborts ==
  gate = "open" /\ gate' = "aborted" /\ UNCHANGED <<calls, seen, queue, scan, started>>

\* After the adapters have stopped the queue is emptied.
Drains ==
  /\ gate = "aborted" /\ gate' = "closed" /\ queue' = <<>>
  /\ calls' = [i \in DOMAIN calls |->
                 IF calls[i].at = "queued" THEN [calls[i] EXCEPT !.at = "settled"] ELSE calls[i]]
  /\ UNCHANGED <<seen, scan, started>>

CallMoves(i) ==
  \/ Admitted(i) \/ Ends(i)
  \/ \E yes \in BOOLEAN : Controlled(i, yes) \/ Prepared(i, yes) \/ Replied(i, yes)

GatewayNext ==
  \/ SkipsActive \/ StartsQueued \/ PassEnds
  \/ /\ scan = 0
     /\ \/ \E id \in Id : Arrives(id)
        \/ \E i \in DOMAIN calls : CallMoves(i)
        \/ GatewayAborts \/ Drains

GatewaySpec == GatewayInit /\ [][GatewayNext]_gatewayVars

---------------------------------------------------------------------------
(* Properties                                                              *)

\* As many other messages as the gateway remembers came between two calls.
Outdated(i, j) == Cardinality({calls[k].id : k \in i + 1 .. j - 1}) >= MaxSeen

\* A message that is delivered again is not executed again, unless its note was outdated.
\* (The note may be that of an earlier delivery: one that waits for longer than the
\* gateway remembers it and is then turned away has the note of a later one deleted.)
ExecutedOnce ==
  \A i, j \in ToSet(started) : i < j /\ calls[i].id = calls[j].id =>
    \/ Outdated(i, j)
    \/ \E k \in At("refused") : k < i /\ calls[k].id = calls[i].id /\ Outdated(k, i)

\* Requests of one conversation that came through one lane start in the order of
\* their arrival, whatever their controls and preparations take (admissionKey).
LaneOrder ==
  \A m, n \in DOMAIN started :
    m < n /\ KeyOf(started[m]) = KeyOf(started[n]) /\ LaneOf(started[m]) = LaneOf(started[n]) =>
      started[m] < started[n]

\* Requests that share a conversation never run at the same time (PendingMessage.key).
OneTurnPerConversation == \A i, j \in Turning : i # j => KeyOf(i) # KeyOf(j)

\* A request whose destination is prepared has its place in the queue: "a request
\* that cannot be queued must never create a thread".
PlaceForPrepared == Len(queue) + Cardinality(At("prepare")) <= MaxQueued

\* Once the scheduler has looked, a queued request waits for something: a turn of its
\* conversation, or the last free turn; and whoever was queued is in the queue.
NoneStranded ==
  /\ scan = 0 => \A n \in DOMAIN queue :
                   Cardinality(Turning) = Concurrency \/ KeyOf(queue[n]) \in ActiveKeys
  /\ ToSet(queue) = At("queued")
=============================================================================

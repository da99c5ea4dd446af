----------------------------- MODULE GatewayProofs -----------------------------
(***************************************************************************)
(* The promises of the messenger gateway, for any messages, lanes and      *)
(* conversations, any limits and any number of deliveries; and what a      *)
(* session may wait for in the pool of send tokens, for any sessions.      *)
(*                                                                         *)
(* A place in the queue is claimed by counting what is queued and what is  *)
(* being prepared, so the two counts must move together.  The order of a   *)
(* lane rests on the wait before the claim: whoever is past it has only    *)
(* calls before it that have left handle() (LaneFree), so the queue, and   *)
(* what was started before, is in the order of arrival.  That nobody is    *)
(* left waiting is what the scheduler's loop establishes place by place.   *)
(* What keeps a redelivery out is a note that a later delivery may push    *)
(* out of the memory and that a call which is turned away deletes, whoever *)
(* made it; so the invariant says of every accepted call that it is noted, *)
(* or how its note got lost (SeenInv).                                     *)
(*                                                                         *)
(* The cursor of the pool counts the sessions that are queued now, so it   *)
(* is no round robin.  Yet no grant puts another session ahead of one that *)
(* waits except the one that was served, from ahead of it: so a potential  *)
(* of the sessions ahead and the way of the cursor falls with every grant  *)
(* that passes it by (Rest, LaneFair).                                     *)
(***************************************************************************)
EXTENDS Gateway, RateLimitPool, FiniteSetTheorems, WellFoundedInduction, TLAPS

Places == {"control", "wait", "prepare", "queued", "reply", "send", "settled", "refused"}

Call == [id : Id, at : Places]

GatewayTypes ==
  /\ calls \in Seq(Call) /\ queue \in Seq(Nat) /\ started \in Seq(Nat) /\ scan \in Nat

\* The queue holds the calls that wait for a turn, once each.
QueueOK ==
  /\ \A n \in DOMAIN queue : queue[n] \in At("queued")
  /\ \A i \in At("queued") : \E n \in DOMAIN queue : queue[n] = i
  /\ \A m, n \in DOMAIN queue : queue[m] = queue[n] => m = n

\* Whoever is past the wait for its lane has it free behind it, for good.
LanesOK ==
  /\ \A i \in At("prepare") \cup At("queued") : LaneFree(i)
  /\ \A n \in DOMAIN started :
       started[n] \in Turning \cup At("settled") /\ LaneFree(started[n])

\* A lane is queued in the order of arrival, behind what was started of it.
OrderOK ==
  /\ \A m, n \in DOMAIN queue :
       m < n /\ LaneOf(queue[m]) = LaneOf(queue[n]) => queue[m] < queue[n]
  /\ \A m \in DOMAIN started, n \in DOMAIN queue :
       LaneOf(started[m]) = LaneOf(queue[n]) /\ KeyOf(started[m]) = KeyOf(queue[n]) =>
         started[m] < queue[n]
  /\ LaneOrder

\* Before the place that is looked at everybody waits for a turn of the conversation.
ScanOK ==
  /\ Cardinality(Turning) <= Concurrency
  /\ \A n \in DOMAIN queue :
       \/ KeyOf(queue[n]) \in ActiveKeys
       \/ scan = 0 /\ Cardinality(Turning) = Concurrency
       \/ scan # 0 /\ n >= scan

GatewayInv ==
  /\ GatewayTypes /\ QueueOK /\ LanesOK /\ OrderOK /\ ScanOK
  /\ PlaceForPrepared /\ OneTurnPerConversation

---------------------------------------------------------------------------
(* The calls                                                               *)

\* A sequence is a function over the places up to its length.
LEMMA SeqIsFunction ==
  ASSUME NEW T, NEW s \in Seq(T)
  PROVE  s \in [1 .. Len(s) -> T] /\ DOMAIN s = 1 .. Len(s) /\ Len(s) \in Nat
                                  /\ \A i \in DOMAIN s : s[i] \in T
OBVIOUS

\* What is left of a queue when one leaves it.
LEMMA OneLess ==
  ASSUME NEW T, NEW s \in Seq(T), NEW n \in DOMAIN s
  PROVE  /\ RemoveAt(s, n) \in Seq(T) /\ Len(RemoveAt(s, n)) = Len(s) - 1
         /\ \A m \in DOMAIN RemoveAt(s, n) : RemoveAt(s, n)[m] = s[IF m < n THEN m ELSE m + 1]
<1>1. Len(s) \in Nat /\ n \in 1 .. Len(s)
  OBVIOUS
<1> DEFINE a == SubSeq(s, 1, n - 1)
           b == SubSeq(s, n + 1, Len(s))
<1>2. a \in Seq(T) /\ Len(a) = n - 1 /\ \A m \in 1 .. n - 1 : a[m] = s[m]
  BY <1>1
<1>3. b \in Seq(T) /\ Len(b) = Len(s) - n /\ \A m \in 1 .. Len(s) - n : b[m] = s[n + m]
  BY <1>1
<1> HIDE DEF a, b
<1>4. a \o b \in Seq(T) /\ Len(a \o b) = Len(s) - 1
  BY <1>1, <1>2, <1>3
<1>5. \A m \in 1 .. Len(s) - 1 : (a \o b)[m] = s[IF m < n THEN m ELSE m + 1]
  <2> SUFFICES ASSUME NEW m \in 1 .. Len(s) - 1
               PROVE  (a \o b)[m] = s[IF m < n THEN m ELSE m + 1]
    OBVIOUS
  <2>1. CASE m < n
    <3>1. (a \o b)[m] = a[m]
      BY <1>1, <1>2, <1>3, <2>1
    <3>2. QED BY <1>1, <1>2, <2>1, <3>1
  <2>2. CASE m >= n
    <3>1. (a \o b)[m] = b[m - (n - 1)]
      BY <1>1, <1>2, <1>3, <2>2
    <3>2. m - (n - 1) \in 1 .. Len(s) - n /\ n + (m - (n - 1)) = m + 1
      BY <1>1, <2>2
    <3>3. QED BY <1>1, <1>3, <2>2, <3>1, <3>2
  <2>3. m < n \/ m >= n
    BY <1>1
  <2>4. QED BY <2>1, <2>2, <2>3
<1>6. RemoveAt(s, n) = a \o b
  BY DEF RemoveAt, a, b
<1>7. DOMAIN (a \o b) = 1 .. Len(s) - 1
  BY <1>4
<1>8. QED BY <1>4, <1>5, <1>6, <1>7

\* The calls that stand in one place are finitely many, and so are the turns.
LEMMA AtFinite ==
  ASSUME calls \in Seq(Call)
  PROVE  /\ \A place : IsFiniteSet(At(place)) /\ Cardinality(At(place)) \in Nat
         /\ IsFiniteSet(Turning) /\ Cardinality(Turning) \in Nat
<1>1. DOMAIN calls = 1 .. Len(calls) /\ Len(calls) \in Nat
  OBVIOUS
<1>2. IsFiniteSet(1 .. Len(calls))
  BY <1>1, FS_Interval
<1>3. \A place : IsFiniteSet(At(place))
  BY <1>1, <1>2, FS_Subset DEF At
<1>4. IsFiniteSet(Turning)
  BY <1>3, FS_Union DEF Turning
<1>5. QED BY <1>3, <1>4, FS_CardinalityType

\* A call that moves keeps its message; the others stay where they are.
LEMMA MovesAlong ==
  ASSUME calls \in Seq(Call), NEW i \in DOMAIN calls, NEW place \in Places, calls' = Moved(i, place)
  PROVE  /\ calls' \in Seq(Call) /\ DOMAIN calls' = DOMAIN calls
         /\ calls'[i].at = place
         /\ \A j \in DOMAIN calls : calls'[j].id = calls[j].id
         /\ \A j \in DOMAIN calls \ {i} : calls'[j] = calls[j]
<1>1. Len(calls) \in Nat /\ DOMAIN calls = 1 .. Len(calls) /\ \A j \in DOMAIN calls : calls[j] \in Call
  BY SeqIsFunction
<1>2. [calls[i] EXCEPT !.at = place] \in Call /\ [calls[i] EXCEPT !.at = place].at = place
                                             /\ [calls[i] EXCEPT !.at = place].id = calls[i].id
  BY <1>1 DEF Call
<1> DEFINE call(j) == IF j = i THEN [calls[i] EXCEPT !.at = place] ELSE calls[j]
<1>3. calls' = [j \in 1 .. Len(calls) |-> call(j)]
  BY <1>1 DEF Moved
<1>4. /\ \A j \in 1 .. Len(calls) : call(j) \in Call /\ call(j).id = calls[j].id
      /\ \A j \in DOMAIN calls \ {i} : call(j) = calls[j]
      /\ call(i).at = place
  BY <1>1, <1>2
<1> HIDE DEF call
<1>5. calls' \in Seq(Call)
  BY <1>1, <1>3, <1>4
<1>6. QED BY <1>1, <1>3, <1>4, <1>5

\* So the sets of calls by place change by that call.
LEMMA PlacesMove ==
  ASSUME calls \in Seq(Call), NEW i \in DOMAIN calls, NEW place \in Places, calls' = Moved(i, place)
  PROVE  /\ At(place)' = At(place) \cup {i}
         /\ \A p \in Places \ {place} : At(p)' = At(p) \ {i}
BY MovesAlong DEF At

\* The step of any action on the calls: none is lost, none changes its message, and
\* none enters handle() again.
CallsGrow ==
  /\ calls' \in Seq(Call) /\ Len(calls') >= Len(calls)
  /\ \A j \in DOMAIN calls : calls'[j].id = calls[j].id /\ (Released(j) => Released(j)')

LEMMA LanesStay ==
  ASSUME calls \in Seq(Call), CallsGrow, NEW j \in DOMAIN calls
  PROVE  LaneOf(j)' = LaneOf(j) /\ KeyOf(j)' = KeyOf(j) /\ (LaneFree(j) => LaneFree(j)')
<1>1. j \in 1 .. Len(calls) /\ Len(calls) \in Nat /\ DOMAIN calls = 1 .. Len(calls)
  BY SeqIsFunction
<1>2. \A k \in DOMAIN calls : LaneOf(k)' = LaneOf(k) /\ KeyOf(k)' = KeyOf(k)
  BY DEF CallsGrow, LaneOf, KeyOf
<1>3. 1 .. j - 1 \subseteq DOMAIN calls
  BY <1>1
<1>4. LaneFree(j) => LaneFree(j)'
  BY <1>1, <1>2, <1>3 DEF LaneFree, CallsGrow
<1>5. QED BY <1>2, <1>4

\* A moving call grows the calls in this sense unless it goes back into handle().
LEMMA MovesGrow ==
  ASSUME calls \in Seq(Call), NEW i \in DOMAIN calls, NEW place \in Places, calls' = Moved(i, place),
         Released(i) => place \in {"queued", "reply", "send", "settled", "refused"}
  PROVE  CallsGrow
BY MovesAlong, SeqIsFunction DEF CallsGrow, Released

---------------------------------------------------------------------------
(* The queue at rest                                                       *)

\* A step that queues and starts nobody keeps the order; it lets a call be prepared only
\* with its lane free.
LEMMA NobodyQueued ==
  ASSUME GatewayInv, CallsGrow, UNCHANGED <<queue, started>>,
         At("queued")' = At("queued"), Turning \cup At("settled") \subseteq (Turning \cup At("settled"))',
         \A i \in At("prepare")' \ At("prepare") : LaneFree(i)'
  PROVE  QueueOK' /\ LanesOK' /\ OrderOK'
<1>1. calls \in Seq(Call) /\ queue \in Seq(Nat) /\ started \in Seq(Nat)
  BY DEF GatewayInv, GatewayTypes
<1>2. QueueOK'
  BY DEF GatewayInv, QueueOK
<1>3. \A n \in DOMAIN queue : queue[n] \in DOMAIN calls
  BY DEF GatewayInv, QueueOK, At
<1>4. \A n \in DOMAIN started : started[n] \in DOMAIN calls
  BY DEF GatewayInv, LanesOK, At, Turning
<1>5. LanesOK'
  <2>1. \A i \in At("prepare") \cup At("queued") : LaneFree(i)'
    BY <1>1, LanesStay DEF GatewayInv, LanesOK, At
  <2>2. \A n \in DOMAIN started : LaneFree(started[n])'
    <3> SUFFICES ASSUME NEW n \in DOMAIN started PROVE LaneFree(started[n])'
      OBVIOUS
    <3>1. PICK j \in DOMAIN calls : j = started[n]
      BY <1>4
    <3>2. LaneFree(j)
      BY <3>1 DEF GatewayInv, LanesOK
    <3>3. LaneFree(j)'
      BY <1>1, <3>2, LanesStay
    <3>4. QED BY <3>1, <3>3
  <2>3. QED BY <2>1, <2>2 DEF GatewayInv, LanesOK
<1>6. OrderOK'
  <2>1. \A j \in DOMAIN calls : LaneOf(j)' = LaneOf(j) /\ KeyOf(j)' = KeyOf(j)
    BY <1>1, LanesStay
  <2>2. /\ \A n \in DOMAIN queue : LaneOf(queue[n])' = LaneOf(queue[n]) /\ KeyOf(queue[n])' = KeyOf(queue[n])
        /\ \A n \in DOMAIN started :
             LaneOf(started[n])' = LaneOf(started[n]) /\ KeyOf(started[n])' = KeyOf(started[n])
    BY <1>3, <1>4, <2>1
  <2>3. QED BY <2>2 DEF GatewayInv, OrderOK, LaneOrder
<1>7. QED BY <1>2, <1>5, <1>6

\* A step that changes no turn and leaves the queue alone keeps what was looked at.
LEMMA NobodyTurns ==
  ASSUME GatewayInv, CallsGrow, UNCHANGED <<queue, scan>>, Turning' = Turning
  PROVE  ScanOK' /\ OneTurnPerConversation'
<1>1. \A j \in DOMAIN calls : KeyOf(j)' = KeyOf(j)
  BY LanesStay DEF GatewayInv, GatewayTypes
<1>2. Turning \subseteq DOMAIN calls /\ \A n \in DOMAIN queue : queue[n] \in DOMAIN calls
  BY DEF Turning, At, GatewayInv, QueueOK
<1>3. ActiveKeys' = ActiveKeys
  BY <1>1, <1>2 DEF ActiveKeys
<1>4. \A n \in DOMAIN queue : KeyOf(queue[n])' = KeyOf(queue[n])
  BY <1>1, <1>2
<1>5. ScanOK'
  BY <1>3, <1>4 DEF GatewayInv, ScanOK
<1>6. OneTurnPerConversation'
  BY <1>1, <1>2 DEF GatewayInv, OneTurnPerConversation
<1>7. QED BY <1>5, <1>6

\* Nobody more is prepared and the queue is no longer.
LEMMA NobodyMore ==
  ASSUME GatewayInv, calls' \in Seq(Call), queue' \in Seq(Nat), Len(queue') <= Len(queue),
         At("prepare")' \subseteq At("prepare"), MaxQueued \in Nat
  PROVE  PlaceForPrepared'
<1>1. /\ Cardinality(At("prepare")') <= Cardinality(At("prepare"))
      /\ Cardinality(At("prepare")') \in Nat /\ Cardinality(At("prepare")) \in Nat
  BY AtFinite, FS_Subset, FS_CardinalityType DEF GatewayInv, GatewayTypes
<1>2. Len(queue) \in Nat /\ Len(queue') \in Nat
  BY DEF GatewayInv, GatewayTypes
<1>3. QED BY <1>1, <1>2 DEF GatewayInv, PlaceForPrepared

---------------------------------------------------------------------------
(* The steps of handle()                                                   *)

\* A new call is in no place that matters yet.
LEMMA ArrivalKeeps ==
  ASSUME GatewayBounds, GatewayInv, NEW id \in Id, Arrives(id)
  PROVE  GatewayInv'
<1>1. PICK place \in {"control", "settled"} : calls' = Append(calls, [id |-> id, at |-> place])
  BY DEF Arrives
<1>2. /\ calls \in Seq(Call) /\ Len(calls) \in Nat /\ DOMAIN calls = 1 .. Len(calls)
      /\ [id |-> id, at |-> place] \in Call /\ UNCHANGED <<queue, scan, started>>
  BY SeqIsFunction DEF GatewayInv, GatewayTypes, Call, Places, Arrives
<1>3. /\ calls' \in Seq(Call) /\ DOMAIN calls' = 1 .. Len(calls) + 1 /\ Len(calls') = Len(calls) + 1
      /\ \A j \in DOMAIN calls : calls'[j] = calls[j]
      /\ calls'[Len(calls) + 1].at = place
  BY <1>1, <1>2
<1>4. CallsGrow
  BY <1>2, <1>3 DEF CallsGrow, Released
<1>5. /\ \A p \in Places \ {"control", "settled"} : At(p)' = At(p)
      /\ At("settled") \subseteq At("settled")'
  <2>1. \A j \in DOMAIN calls' : j \in DOMAIN calls \/ j = Len(calls) + 1
    BY <1>2, <1>3
  <2>2. QED BY <1>2, <1>3, <2>1 DEF At
<1>6. At("prepare")' = At("prepare") /\ At("queued")' = At("queued") /\ Turning' = Turning
  BY <1>5 DEF Places, Turning
<1>7. QueueOK' /\ LanesOK' /\ OrderOK'
  BY <1>2, <1>4, <1>5, <1>6, NobodyQueued
<1>8. ScanOK' /\ OneTurnPerConversation'
  BY <1>2, <1>4, <1>6, NobodyTurns
<1>9. PlaceForPrepared'
  BY <1>2, <1>6 DEF GatewayInv, PlaceForPrepared
<1>10. GatewayTypes'
  BY <1>2, <1>3 DEF GatewayInv, GatewayTypes
<1>11. QED BY <1>7, <1>8, <1>9, <1>10 DEF GatewayInv

\* A call that has not been queued goes on, but not into the queue.
LEMMA AdvanceKeeps ==
  ASSUME GatewayInv, NEW i \in At("control") \cup At("wait") \cup At("prepare"),
         NEW place \in {"wait", "prepare", "settled", "refused"}, place = "prepare" => LaneFree(i),
         calls' = Moved(i, place), UNCHANGED <<queue, scan, started>>
  PROVE  GatewayTypes' /\ QueueOK' /\ LanesOK' /\ OrderOK' /\ ScanOK' /\ OneTurnPerConversation'
<1>1. calls \in Seq(Call) /\ i \in DOMAIN calls /\ place \in Places /\ ~Released(i)
  BY DEF GatewayInv, GatewayTypes, At, Places, Released
<1>2. CallsGrow
  BY <1>1, MovesGrow
<1>3. /\ At("queued")' = At("queued") /\ Turning' = Turning /\ At("settled") \subseteq At("settled")'
      /\ place # "prepare" => At("prepare")' \subseteq At("prepare")
      /\ place = "prepare" => At("prepare")' = At("prepare") \cup {i}
  <2>1. i \notin At("queued") /\ i \notin Turning /\ i \notin At("settled")
    BY DEF At, Turning
  <2>2. /\ At(place)' = At(place) \cup {i}
        /\ \A p \in Places \ {place} : At(p)' = At(p) \ {i}
    BY <1>1, PlacesMove
  <2>3. QED BY <2>1, <2>2 DEF Places, Turning
<1>4. \A j \in At("prepare")' \ At("prepare") : LaneFree(j)'
  BY <1>1, <1>2, <1>3, LanesStay
<1>5. GatewayTypes'
  BY <1>1, MovesAlong DEF GatewayInv, GatewayTypes
<1>6. QueueOK' /\ LanesOK' /\ OrderOK'
  BY <1>2, <1>3, <1>4, NobodyQueued
<1>7. ScanOK' /\ OneTurnPerConversation'
  BY <1>2, <1>3, NobodyTurns
<1>8. QED BY <1>5, <1>6, <1>7

\* In particular one that leaves without having been prepared.
LEMMA LeavingKeeps ==
  ASSUME GatewayBounds, GatewayInv, NEW i \in At("control") \cup At("wait") \cup At("prepare"),
         NEW place \in {"wait", "settled", "refused"},
         calls' = Moved(i, place), UNCHANGED <<queue, scan, started>>
  PROVE  GatewayInv'
<1>1. GatewayTypes' /\ QueueOK' /\ LanesOK' /\ OrderOK' /\ ScanOK' /\ OneTurnPerConversation'
  BY AdvanceKeeps
<1>2. calls \in Seq(Call) /\ i \in DOMAIN calls /\ place \in Places
  BY DEF GatewayInv, GatewayTypes, At, Places
<1>3. At("prepare")' \subseteq At("prepare")
  BY <1>2, PlacesMove DEF Places
<1>4. calls' \in Seq(Call) /\ queue' \in Seq(Nat) /\ Len(queue') <= Len(queue)
  BY <1>1 DEF GatewayInv, GatewayTypes
<1>5. PlaceForPrepared'
  BY <1>3, <1>4, NobodyMore DEF GatewayBounds
<1>6. QED BY <1>1, <1>5 DEF GatewayInv

\* Where there is a place it is claimed with the count, and the lane is free.
LEMMA AdmissionKeeps ==
  ASSUME GatewayBounds, GatewayInv, NEW i \in DOMAIN calls, Admitted(i)
  PROVE  GatewayInv'
<1>1. CASE calls' = Moved(i, "settled") \/ calls' = Moved(i, "refused")
  BY <1>1, LeavingKeeps DEF Admitted
<1>2. CASE calls' = Moved(i, "prepare") /\ ~Occupied
  <2>1. GatewayTypes' /\ QueueOK' /\ LanesOK' /\ OrderOK' /\ ScanOK' /\ OneTurnPerConversation'
    BY <1>2, AdvanceKeeps DEF Admitted
  <2>2. calls \in Seq(Call)
    BY DEF GatewayInv, GatewayTypes
  <2>3. At("prepare")' = At("prepare") \cup {i} /\ i \notin At("prepare")
    BY <1>2, <2>2, PlacesMove DEF At, Admitted, Places
  <2>4. Cardinality(At("prepare")') = Cardinality(At("prepare")) + 1 /\ Cardinality(At("prepare")) \in Nat
    BY <2>2, <2>3, AtFinite, FS_AddElement
  <2>5. Len(queue') = Len(queue) /\ Len(queue) \in Nat
    BY DEF GatewayInv, GatewayTypes, Admitted
  <2>6. PlaceForPrepared'
    BY <1>2, <2>4, <2>5 DEF PlaceForPrepared, Occupied, GatewayBounds
  <2>7. QED BY <2>1, <2>6 DEF GatewayInv
<1>3. QED BY <1>1, <1>2 DEF Admitted

\* The claim becomes the place it was made for; the calls before it in its lane have
\* left handle(), so it comes behind all that was queued or started of the lane.
LEMMA QueueingKeeps ==
  ASSUME GatewayBounds, GatewayInv, NEW i \in At("prepare"),
         calls' = Moved(i, "queued"), queue' = Append(queue, i), scan' = 1, UNCHANGED started
  PROVE  GatewayInv'
<1>1. calls \in Seq(Call) /\ i \in DOMAIN calls /\ ~Released(i) /\ i \in Nat
  BY SeqIsFunction DEF GatewayInv, GatewayTypes, At, Released
<1>2. CallsGrow /\ calls' \in Seq(Call)
  BY <1>1, MovesGrow, MovesAlong DEF Places
<1>3. /\ queue \in Seq(Nat) /\ Len(queue) \in Nat /\ DOMAIN queue = 1 .. Len(queue)
      /\ queue' \in Seq(Nat) /\ Len(queue') = Len(queue) + 1 /\ DOMAIN queue' = 1 .. Len(queue) + 1
      /\ \A n \in DOMAIN queue : queue'[n] = queue[n]
      /\ queue'[Len(queue) + 1] = i
  BY <1>1 DEF GatewayInv, GatewayTypes
<1>4. /\ At("queued")' = At("queued") \cup {i} /\ At("prepare")' = At("prepare") \ {i}
      /\ Turning' = Turning /\ At("settled")' = At("settled")
  <2>1. i \notin At("queued") /\ i \notin Turning /\ i \notin At("settled")
    BY DEF At, Turning
  <2>2. At("queued")' = At("queued") \cup {i}
    BY <1>1, PlacesMove DEF Places
  <2>3. At("prepare")' = At("prepare") \ {i} /\ At("settled")' = At("settled") \ {i}
    BY <1>1, PlacesMove DEF Places
  <2>4. At("reply")' = At("reply") \ {i} /\ At("send")' = At("send") \ {i}
    BY <1>1, PlacesMove DEF Places
  <2>5. QED BY <2>1, <2>2, <2>3, <2>4 DEF Turning
<1>5. \A n \in DOMAIN queue : queue[n] \in DOMAIN calls /\ queue[n] # i
  BY DEF GatewayInv, QueueOK, At
<1>6. \A n \in DOMAIN started : started[n] \in DOMAIN calls /\ started[n] # i
  BY DEF GatewayInv, LanesOK, At, Turning
<1>7. \A n \in DOMAIN queue' : n \in DOMAIN queue \/ n = Len(queue) + 1
  BY <1>3
<1>8. QueueOK'
  BY <1>3, <1>4, <1>5, <1>7 DEF GatewayInv, QueueOK
<1>9. LanesOK'
  <2>1. \A j \in At("prepare") \cup At("queued") : LaneFree(j)'
    BY <1>1, <1>2, LanesStay DEF GatewayInv, LanesOK, At
  <2>2. ASSUME NEW n \in DOMAIN started PROVE LaneFree(started[n])'
    <3>1. PICK j \in DOMAIN calls : j = started[n] /\ LaneFree(j)
      BY <1>6, <2>2 DEF GatewayInv, LanesOK
    <3>2. LaneFree(j)'
      BY <1>1, <1>2, <3>1, LanesStay
    <3>3. QED BY <3>1, <3>2
  <2>3. QED BY <1>4, <2>1, <2>2 DEF GatewayInv, LanesOK
<1>10. \A j \in DOMAIN calls : LaneOf(j)' = LaneOf(j) /\ KeyOf(j)' = KeyOf(j)
  BY <1>1, <1>2, LanesStay
<1>11. \A j \in DOMAIN calls : LaneFree(j) /\ LaneOf(j) = LaneOf(i) /\ j # i => j < i
  <2>1. DOMAIN calls \subseteq Nat
    BY <1>1, SeqIsFunction
  <2>2. \A j \in DOMAIN calls : LaneFree(j) /\ LaneOf(j) = LaneOf(i) => ~(i \in 1 .. j - 1)
    BY <1>1 DEF LaneFree
  <2>3. \A j \in DOMAIN calls : i >= 1 /\ j >= 1
    BY <1>1, SeqIsFunction
  <2>4. QED BY <1>1, <2>1, <2>2, <2>3
<1>12. OrderOK'
  <2>1. ASSUME NEW m \in DOMAIN queue', NEW n \in DOMAIN queue', m < n,
               LaneOf(queue[m])' = LaneOf(queue[n])'
        PROVE  queue'[m] < queue'[n]
    <3>1. m \in DOMAIN queue /\ queue'[m] = queue[m]
      BY <1>3, <1>7, <2>1
    <3>2. CASE n \in DOMAIN queue
      BY <1>3, <1>5, <1>10, <2>1, <3>1, <3>2 DEF GatewayInv, OrderOK
    <3>3. CASE n = Len(queue) + 1
      <4>1. LaneOf(queue[m]) = LaneOf(i) /\ queue[m] \in DOMAIN calls /\ queue[m] # i
        BY <1>1, <1>3, <1>5, <1>10, <2>1, <3>1, <3>3
      <4>2. LaneFree(queue[m])
        BY <3>1 DEF GatewayInv, QueueOK, LanesOK
      <4>3. QED BY <1>3, <1>11, <3>1, <3>3, <4>1, <4>2
    <3>4. QED BY <1>7, <3>2, <3>3
  <2>2. ASSUME NEW m \in DOMAIN started, NEW n \in DOMAIN queue',
               LaneOf(started[m])' = LaneOf(queue[n])', KeyOf(started[m])' = KeyOf(queue[n])'
        PROVE  started[m] < queue'[n]
    <3>1. CASE n \in DOMAIN queue
      BY <1>3, <1>5, <1>6, <1>10, <2>2, <3>1 DEF GatewayInv, OrderOK
    <3>2. CASE n = Len(queue) + 1
      <4>1. LaneOf(started[m]) = LaneOf(i) /\ started[m] \in DOMAIN calls /\ started[m] # i
        BY <1>1, <1>3, <1>6, <1>10, <2>2, <3>2
      <4>2. LaneFree(started[m])
        BY DEF GatewayInv, LanesOK
      <4>3. QED BY <1>3, <1>11, <3>2, <4>1, <4>2
    <3>3. QED BY <1>7, <3>1, <3>2
  <2>3. LaneOrder'
    BY <1>6, <1>10 DEF GatewayInv, OrderOK, LaneOrder
  <2>4. QED BY <2>1, <2>2, <2>3 DEF OrderOK
<1>13. ScanOK'
  <2>1. \A n \in DOMAIN queue' : n >= 1
    BY <1>3
  <2>2. QED BY <1>4, <2>1 DEF GatewayInv, ScanOK
<1>14. OneTurnPerConversation'
  BY <1>4, <1>10 DEF GatewayInv, OneTurnPerConversation, Turning, At
<1>15. PlaceForPrepared'
  <2>1. /\ IsFiniteSet(At("prepare")) /\ Cardinality(At("prepare")) \in Nat
        /\ Cardinality(At("prepare") \ {i}) = Cardinality(At("prepare")) - 1
    BY <1>1, AtFinite, FS_RemoveElement
  <2>2. Cardinality(At("prepare")') = Cardinality(At("prepare")) - 1
    BY <1>4, <2>1
  <2>3. Len(queue) + Cardinality(At("prepare")) <= MaxQueued
    BY DEF GatewayInv, PlaceForPrepared
  <2>4. Len(queue') + Cardinality(At("prepare")') <= MaxQueued
    BY <1>3, <2>1, <2>2, <2>3 DEF GatewayBounds
  <2>5. QED BY <2>4 DEF PlaceForPrepared
<1>16. GatewayTypes'
  BY <1>2, <1>3 DEF GatewayInv, GatewayTypes
<1>17. QED BY <1>8, <1>9, <1>12, <1>13, <1>14, <1>15, <1>16 DEF GatewayInv

---------------------------------------------------------------------------
(* The steps of a turn                                                     *)

\* The answer is sent in the same turn.
LEMMA ReplyKeeps ==
  ASSUME GatewayBounds, GatewayInv, NEW i \in At("reply"),
         calls' = Moved(i, "send"), UNCHANGED <<queue, scan, started>>
  PROVE  GatewayInv'
<1>1. calls \in Seq(Call) /\ i \in DOMAIN calls
  BY DEF GatewayInv, GatewayTypes, At
<1>2. CallsGrow /\ calls' \in Seq(Call)
  BY <1>1, MovesGrow, MovesAlong DEF Places
<1>3. /\ At("queued")' = At("queued") /\ At("prepare")' = At("prepare")
      /\ Turning' = Turning /\ At("settled")' = At("settled")
  <2>1. i \notin At("queued") /\ i \notin At("prepare") /\ i \notin At("settled")
    BY DEF At
  <2>2. At("send")' = At("send") \cup {i} /\ \A p \in Places \ {"send"} : At(p)' = At(p) \ {i}
    BY <1>1, PlacesMove DEF Places
  <2>3. QED BY <2>1, <2>2 DEF Places, Turning
<1>4. QueueOK' /\ LanesOK' /\ OrderOK'
  BY <1>2, <1>3, NobodyQueued
<1>5. ScanOK' /\ OneTurnPerConversation'
  BY <1>2, <1>3, NobodyTurns
<1>6. PlaceForPrepared' /\ GatewayTypes'
  BY <1>2, <1>3 DEF GatewayInv, PlaceForPrepared, GatewayTypes
<1>7. QED BY <1>4, <1>5, <1>6 DEF GatewayInv

\* The end of a turn has the queue looked at from its beginning.
LEMMA EndKeeps ==
  ASSUME GatewayBounds, GatewayInv, NEW i \in At("send"),
         calls' = Moved(i, "settled"), scan' = 1, UNCHANGED <<queue, started>>
  PROVE  GatewayInv'
<1>1. calls \in Seq(Call) /\ i \in DOMAIN calls /\ queue \in Seq(Nat)
  BY DEF GatewayInv, GatewayTypes, At
<1>2. CallsGrow /\ calls' \in Seq(Call)
  BY <1>1, MovesGrow, MovesAlong DEF Places
<1>3. /\ At("queued")' = At("queued") /\ At("prepare")' = At("prepare")
      /\ Turning' \subseteq Turning /\ Turning \cup At("settled") \subseteq (Turning \cup At("settled"))'
  <2>1. i \notin At("queued") /\ i \notin At("prepare")
    BY DEF At
  <2>2. At("settled")' = At("settled") \cup {i} /\ \A p \in Places \ {"settled"} : At(p)' = At(p) \ {i}
    BY <1>1, PlacesMove DEF Places
  <2>3. QED BY <2>1, <2>2 DEF Places, Turning
<1>4. QueueOK' /\ LanesOK' /\ OrderOK'
  BY <1>2, <1>3, NobodyQueued
<1>5. ScanOK'
  <2>1. Cardinality(Turning') <= Cardinality(Turning) /\ Cardinality(Turning') \in Nat
                                                      /\ Cardinality(Turning) \in Nat
    BY <1>1, <1>3, AtFinite, FS_Subset, FS_CardinalityType
  <2>2. \A n \in DOMAIN queue : n >= 1
    BY <1>1
  <2>3. QED BY <2>1, <2>2 DEF GatewayInv, ScanOK, GatewayBounds
<1>6. OneTurnPerConversation'
  <2>1. \A j \in Turning : KeyOf(j)' = KeyOf(j)
    BY <1>1, <1>2, LanesStay DEF Turning, At
  <2>2. QED BY <1>3, <2>1 DEF GatewayInv, OneTurnPerConversation
<1>7. PlaceForPrepared' /\ GatewayTypes'
  BY <1>2, <1>3 DEF GatewayInv, PlaceForPrepared, GatewayTypes
<1>8. QED BY <1>4, <1>5, <1>6, <1>7 DEF GatewayInv

---------------------------------------------------------------------------
(* The steps of the scheduler                                              *)

\* The place that is looked at moves on past a call that must wait.
LEMMA SkipKeeps == ASSUME GatewayInv, SkipsActive PROVE GatewayInv'
<1>1. queue \in Seq(Nat) /\ scan \in Nat /\ scan \in DOMAIN queue
  BY DEF GatewayInv, GatewayTypes, SkipsActive, GoesOn
<1>2. UNCHANGED <<calls, queue, started>> /\ scan' = scan + 1
  BY DEF SkipsActive
<1>3. ScanOK'
  <2>1. \A n \in DOMAIN queue : n \in Nat /\ n >= 1
    BY <1>1
  <2>2. \A n \in DOMAIN queue : KeyOf(queue[n]) \in ActiveKeys \/ n >= scan + 1
    BY <1>1, <2>1 DEF GatewayInv, ScanOK, SkipsActive
  <2>3. QED BY <1>1, <1>2, <2>2 DEF GatewayInv, ScanOK, ActiveKeys, KeyOf, Turning, At
<1>4. GatewayTypes' /\ PlaceForPrepared' /\ OneTurnPerConversation'
  BY <1>1, <1>2 DEF GatewayInv, GatewayTypes, PlaceForPrepared, OneTurnPerConversation, KeyOf, Turning, At
<1>5. QueueOK'
  BY <1>2 DEF GatewayInv, QueueOK, At
<1>6. LanesOK'
  BY <1>2 DEF GatewayInv, LanesOK, LaneFree, LaneOf, Released, Turning, At
<1>7. OrderOK'
  BY <1>2 DEF GatewayInv, OrderOK, LaneOrder, LaneOf, KeyOf
<1>8. QED BY <1>3, <1>4, <1>5, <1>6, <1>7 DEF GatewayInv

\* The pass ends at the end of the queue or with the last free turn.
LEMMA PassEndKeeps == ASSUME GatewayBounds, GatewayInv, PassEnds PROVE GatewayInv'
<1>1. queue \in Seq(Nat) /\ scan \in Nat /\ scan # 0 /\ calls \in Seq(Call)
  BY DEF GatewayInv, GatewayTypes, PassEnds
<1>2. UNCHANGED <<calls, queue, started>> /\ scan' = 0
  BY DEF PassEnds
<1>3. ScanOK'
  <2>1. Cardinality(Turning) \in Nat
    BY <1>1, AtFinite
  <2>2. CASE scan \notin DOMAIN queue
    <3>1. \A n \in DOMAIN queue : ~(n >= scan)
      BY <1>1, <2>2
    <3>2. \A n \in DOMAIN queue : KeyOf(queue[n]) \in ActiveKeys
      BY <1>1, <3>1 DEF GatewayInv, ScanOK
    <3>3. QED BY <1>2, <3>2 DEF GatewayInv, ScanOK, ActiveKeys, KeyOf, Turning, At
  <2>3. CASE ~(Cardinality(Turning) < Concurrency)
    <3>1. Cardinality(Turning) = Concurrency
      BY <2>1, <2>3 DEF GatewayInv, ScanOK, GatewayBounds
    <3>2. Cardinality(Turning') = Concurrency
      BY <1>2, <3>1 DEF Turning, At
    <3>3. QED BY <1>2, <3>2 DEF ScanOK, GatewayBounds
  <2>4. QED BY <2>2, <2>3 DEF PassEnds, GoesOn
<1>4. GatewayTypes' /\ PlaceForPrepared' /\ OneTurnPerConversation'
  BY <1>1, <1>2 DEF GatewayInv, GatewayTypes, PlaceForPrepared, OneTurnPerConversation, KeyOf, Turning, At
<1>5. QueueOK'
  BY <1>2 DEF GatewayInv, QueueOK, At
<1>6. LanesOK'
  BY <1>2 DEF GatewayInv, LanesOK, LaneFree, LaneOf, Released, Turning, At
<1>7. OrderOK'
  BY <1>2 DEF GatewayInv, OrderOK, LaneOrder, LaneOf, KeyOf
<1>8. QED BY <1>3, <1>4, <1>5, <1>6, <1>7 DEF GatewayInv

\* A call that is started leaves the queue as it was without it, and comes behind all
\* that was started of its lane and conversation.
LEMMA StartKeeps == ASSUME GatewayBounds, GatewayInv, StartsQueued PROVE GatewayInv'
<1> DEFINE i == queue[scan]
           from(m) == IF m < scan THEN m ELSE m + 1
<1>1. /\ calls \in Seq(Call) /\ queue \in Seq(Nat) /\ started \in Seq(Nat) /\ scan \in DOMAIN queue
      /\ scan \in Nat /\ scan # 0 /\ Len(queue) \in Nat /\ DOMAIN queue = 1 .. Len(queue)
      /\ i \in Nat /\ i \in At("queued") /\ i \in DOMAIN calls /\ KeyOf(i) \notin ActiveKeys
  BY SeqIsFunction DEF GatewayInv, GatewayTypes, StartsQueued, GoesOn, QueueOK, At
<1>2. /\ calls' = Moved(i, "reply") /\ queue' = RemoveAt(queue, scan) /\ started' = Append(started, i)
      /\ UNCHANGED scan
  BY DEF StartsQueued
<1> HIDE DEF i
<1>3. CallsGrow /\ calls' \in Seq(Call)
  BY <1>1, <1>2, MovesGrow, MovesAlong DEF Places
<1>4. /\ queue' \in Seq(Nat) /\ Len(queue') = Len(queue) - 1 /\ DOMAIN queue' = 1 .. Len(queue) - 1
      /\ \A m \in DOMAIN queue' : queue'[m] = queue[from(m)]
  <2>1. /\ queue' \in Seq(Nat) /\ Len(queue') = Len(queue) - 1
        /\ \A m \in DOMAIN queue' : queue'[m] = queue[from(m)]
    BY <1>1, <1>2, OneLess
  <2>2. QED BY <1>1, <2>1
<1> DEFINE L == Len(queue)
<1>31. \A m \in DOMAIN queue' : m \in Nat /\ 1 <= m /\ m <= L - 1
  BY <1>1, <1>4
<1>32. L \in Nat /\ scan \in Nat /\ 1 <= scan /\ scan <= L
  BY <1>1
<1> HIDE DEF L
<1>5. \A m \in DOMAIN queue' :
        /\ from(m) \in DOMAIN queue /\ from(m) # scan
        /\ \A n \in DOMAIN queue' : (m < n => from(m) < from(n)) /\ (from(m) = from(n) => m = n)
  <2>1. \A m \in DOMAIN queue' : from(m) \in 1 .. L /\ from(m) # scan
    BY <1>31, <1>32
  <2>2. \A m, n \in DOMAIN queue' : (m < n => from(m) < from(n)) /\ (from(m) = from(n) => m = n)
    BY <1>31, <1>32
  <2>3. QED BY <1>1, <2>1, <2>2 DEF L
<1>6. \A n \in DOMAIN queue \ {scan} : \E m \in DOMAIN queue' : from(m) = n
  <2> SUFFICES ASSUME NEW n \in 1 .. L, n # scan PROVE \E m \in 1 .. L - 1 : from(m) = n
    BY <1>1, <1>4 DEF L
  <2>1. CASE n < scan
    <3>1. n \in 1 .. L - 1 /\ from(n) = n
      BY <1>32, <2>1
    <3>2. QED BY <3>1
  <2>2. CASE n > scan
    <3>1. n - 1 \in 1 .. L - 1 /\ from(n - 1) = n
      BY <1>32, <2>2
    <3>2. QED BY <3>1
  <2>3. QED BY <1>32, <2>1, <2>2
<1>7. /\ started' \in Seq(Nat) /\ Len(started) \in Nat /\ DOMAIN started = 1 .. Len(started)
      /\ DOMAIN started' = 1 .. Len(started) + 1 /\ started'[Len(started) + 1] = i
      /\ \A n \in DOMAIN started : started'[n] = started[n]
  BY <1>1, <1>2
<1>8. \A n \in DOMAIN started' : n \in DOMAIN started \/ n = Len(started) + 1
  BY <1>7
<1>9. /\ At("queued")' = At("queued") \ {i} /\ At("prepare")' = At("prepare")
      /\ Turning' = Turning \cup {i} /\ At("settled")' = At("settled")
      /\ i \notin Turning
  <2>1. i \notin At("prepare") /\ i \notin Turning /\ i \notin At("settled")
    BY <1>1 DEF At, Turning
  <2>2. At("reply")' = At("reply") \cup {i} /\ \A p \in Places \ {"reply"} : At(p)' = At(p) \ {i}
    BY <1>1, <1>2, PlacesMove DEF Places
  <2>3. QED BY <2>1, <2>2 DEF Places, Turning
<1>10. \A j \in DOMAIN calls :
         LaneOf(j)' = LaneOf(j) /\ KeyOf(j)' = KeyOf(j) /\ (LaneFree(j) => LaneFree(j)')
  BY <1>1, <1>3, LanesStay
<1>11. \A n \in DOMAIN queue : queue[n] \in DOMAIN calls
  BY DEF GatewayInv, QueueOK, At
<1>12. \A n \in DOMAIN started : started[n] \in DOMAIN calls
  BY DEF GatewayInv, LanesOK, At, Turning
<1> HIDE DEF from
<1>13. QueueOK'
  <2>1. \A n \in DOMAIN queue \ {scan} : queue[n] # i
    BY <1>1 DEF GatewayInv, QueueOK, i
  <2>2. \A m \in DOMAIN queue' : queue'[m] \in At("queued")'
    BY <1>4, <1>5, <1>9, <2>1 DEF GatewayInv, QueueOK
  <2>3. \A j \in At("queued")' : \E m \in DOMAIN queue' : queue'[m] = j
    <3> SUFFICES ASSUME NEW j \in At("queued"), j # i PROVE \E m \in DOMAIN queue' : queue'[m] = j
      BY <1>9
    <3>1. PICK n \in DOMAIN queue \ {scan} : queue[n] = j
      BY DEF GatewayInv, QueueOK, i
    <3>2. QED BY <1>4, <1>6, <3>1
  <2>4. \A m, n \in DOMAIN queue' : queue'[m] = queue'[n] => m = n
    BY <1>4, <1>5 DEF GatewayInv, QueueOK
  <2>5. QED BY <2>2, <2>3, <2>4 DEF QueueOK
<1>14. LanesOK'
  <2>1. \A j \in At("prepare") \cup At("queued") : LaneFree(j)'
    BY <1>10 DEF GatewayInv, LanesOK, At
  <2>2. ASSUME NEW n \in DOMAIN started' PROVE started'[n] \in (Turning \cup At("settled"))' /\ LaneFree(started[n])'
    <3>1. PICK j \in DOMAIN calls : j = started'[n] /\ LaneFree(j) /\ j \in Turning \cup At("settled") \cup {i}
      <4>1. CASE n \in DOMAIN started
        BY <1>7, <1>12, <4>1 DEF GatewayInv, LanesOK
      <4>2. CASE n = Len(started) + 1
        BY <1>1, <1>7, <4>2 DEF GatewayInv, LanesOK
      <4>3. QED BY <1>8, <4>1, <4>2
    <3>2. LaneFree(j)'
      BY <1>10, <3>1
    <3>3. QED BY <1>9, <3>1, <3>2
  <2>3. QED BY <1>9, <2>1, <2>2 DEF LanesOK
<1>15. OrderOK'
  <2>1. ASSUME NEW m \in DOMAIN queue', NEW n \in DOMAIN queue', m < n,
               LaneOf(queue[m])' = LaneOf(queue[n])'
        PROVE  queue'[m] < queue'[n]
    <3>1. from(m) \in DOMAIN queue /\ from(n) \in DOMAIN queue /\ from(m) < from(n)
          /\ queue'[m] = queue[from(m)] /\ queue'[n] = queue[from(n)]
      BY <1>4, <1>5, <2>1
    <3>2. LaneOf(queue[from(m)]) = LaneOf(queue[from(n)])
      BY <1>10, <1>11, <2>1, <3>1
    <3>3. QED BY <3>1, <3>2 DEF GatewayInv, OrderOK
  <2>2. ASSUME NEW m \in DOMAIN started', NEW n \in DOMAIN queue',
               LaneOf(started[m])' = LaneOf(queue[n])', KeyOf(started[m])' = KeyOf(queue[n])'
        PROVE  started'[m] < queue'[n]
    <3>1. /\ from(n) \in DOMAIN queue /\ from(n) # scan /\ queue'[n] = queue[from(n)]
          /\ queue[from(n)] \in DOMAIN calls
      BY <1>4, <1>5, <1>11
    <3>2. CASE m \in DOMAIN started
      <4>1. LaneOf(started[m]) = LaneOf(queue[from(n)]) /\ KeyOf(started[m]) = KeyOf(queue[from(n)])
        BY <1>7, <1>10, <1>12, <2>2, <3>1, <3>2
      <4>2. QED BY <1>7, <3>1, <3>2, <4>1 DEF GatewayInv, OrderOK
    <3>3. CASE m = Len(started) + 1
      <4>1. LaneOf(i) = LaneOf(queue[from(n)]) /\ KeyOf(i) = KeyOf(queue[from(n)])
        BY <1>1, <1>7, <1>10, <2>2, <3>1, <3>3
      <4>2. ~(from(n) < scan)
        BY <1>1, <3>1, <4>1 DEF GatewayInv, ScanOK
      <4>3. scan < from(n)
        BY <1>1, <3>1, <4>2
      <4>4. i < queue[from(n)]
        BY <1>1, <3>1, <4>1, <4>3 DEF GatewayInv, OrderOK, i
      <4>5. QED BY <1>7, <3>1, <3>3, <4>4
    <3>4. QED BY <1>8, <3>2, <3>3
  <2>3. ASSUME NEW m \in DOMAIN started', NEW n \in DOMAIN started', m < n,
               LaneOf(started[m])' = LaneOf(started[n])', KeyOf(started[m])' = KeyOf(started[n])'
        PROVE  started'[m] < started'[n]
    <3>1. m \in DOMAIN started /\ started'[m] = started[m] /\ started[m] \in DOMAIN calls
      BY <1>7, <1>8, <1>12, <2>3
    <3>2. CASE n \in DOMAIN started
      <4>1. LaneOf(started[m]) = LaneOf(started[n]) /\ KeyOf(started[m]) = KeyOf(started[n])
        BY <1>7, <1>10, <1>12, <2>3, <3>1, <3>2
      <4>2. QED BY <1>7, <2>3, <3>1, <3>2, <4>1 DEF GatewayInv, OrderOK, LaneOrder
    <3>3. CASE n = Len(started) + 1
      <4>1. LaneOf(started[m]) = LaneOf(i) /\ KeyOf(started[m]) = KeyOf(i)
        BY <1>1, <1>7, <1>10, <2>3, <3>1, <3>3
      <4>2. QED BY <1>1, <1>7, <3>1, <3>3, <4>1 DEF GatewayInv, OrderOK, i
    <3>4. QED BY <1>8, <3>2, <3>3
  <2>4. QED BY <2>1, <2>2, <2>3 DEF OrderOK, LaneOrder
<1>16. ScanOK'
  <2>1. Cardinality(Turning') = Cardinality(Turning) + 1 /\ Cardinality(Turning) \in Nat
    BY <1>1, <1>9, AtFinite, FS_AddElement
  <2>2. Cardinality(Turning') <= Concurrency
    BY <2>1 DEF StartsQueued, GoesOn, GatewayBounds
  <2>3. ActiveKeys \subseteq ActiveKeys'
    <3>1. \A j \in Turning : KeyOf(j)' = KeyOf(j) /\ j \in Turning'
      BY <1>9, <1>10 DEF Turning, At
    <3>2. QED BY <3>1 DEF ActiveKeys
  <2>4. ASSUME NEW m \in DOMAIN queue', ~(m >= scan) PROVE KeyOf(queue[m])' \in ActiveKeys'
    <3>1. m \in DOMAIN queue /\ queue'[m] = queue[m]
      <4>1. m \in Nat /\ 1 <= m /\ m <= L - 1 /\ m < scan
        BY <1>31, <1>32, <2>4
      <4>2. m \in 1 .. L /\ from(m) = m
        BY <1>32, <4>1 DEF from
      <4>3. queue'[m] = queue[from(m)]
        BY <1>4
      <4>4. m \in DOMAIN queue
        BY <1>1, <4>2 DEF L
      <4>5. QED BY <4>2, <4>3, <4>4
    <3>2. KeyOf(queue[m]) \in ActiveKeys
      BY <1>1, <2>4, <3>1 DEF GatewayInv, ScanOK
    <3>3. QED BY <1>10, <1>11, <2>3, <3>1, <3>2
  <2>5. QED BY <1>1, <1>2, <2>2, <2>4 DEF ScanOK
<1>17. OneTurnPerConversation'
  <2>1. \A j \in Turning \cup {i} : KeyOf(j)' = KeyOf(j)
    BY <1>1, <1>10 DEF Turning, At
  <2>2. \A j \in Turning : KeyOf(j) # KeyOf(i)
    BY <1>1 DEF ActiveKeys
  <2>3. QED BY <1>9, <2>1, <2>2 DEF GatewayInv, OneTurnPerConversation
<1>18. PlaceForPrepared'
  BY <1>1, <1>3, <1>4, <1>9, NobodyMore DEF GatewayBounds
<1>19. GatewayTypes'
  BY <1>1, <1>2, <1>3, <1>4, <1>7 DEF GatewayTypes
<1>20. QED BY <1>13, <1>14, <1>15, <1>16, <1>17, <1>18, <1>19 DEF GatewayInv

---------------------------------------------------------------------------
(* Shutdown, and the whole                                                 *)

\* The queue is emptied and its calls are over.
LEMMA DrainKeeps == ASSUME GatewayBounds, GatewayInv, Drains PROVE GatewayInv'
<1> DEFINE drained(i) == IF calls[i].at = "queued" THEN [calls[i] EXCEPT !.at = "settled"] ELSE calls[i]
<1>1. /\ calls \in Seq(Call) /\ Len(calls) \in Nat /\ DOMAIN calls = 1 .. Len(calls)
      /\ \A i \in DOMAIN calls : calls[i] \in Call
  BY SeqIsFunction DEF GatewayInv, GatewayTypes
<1>2. \A i \in DOMAIN calls : /\ drained(i) \in Call /\ drained(i).id = calls[i].id
                               /\ drained(i).at = IF calls[i].at = "queued" THEN "settled" ELSE calls[i].at
  BY <1>1 DEF Call, Places
<1>3. calls' = [i \in 1 .. Len(calls) |-> drained(i)] /\ queue' = <<>> /\ UNCHANGED <<scan, started>>
  BY <1>1 DEF Drains
<1> HIDE DEF drained
<1>4. /\ calls' \in Seq(Call) /\ DOMAIN calls' = DOMAIN calls /\ Len(calls') = Len(calls)
      /\ \A i \in DOMAIN calls : /\ calls'[i].id = calls[i].id
                                  /\ calls'[i].at = IF calls[i].at = "queued" THEN "settled" ELSE calls[i].at
  BY <1>1, <1>2, <1>3
<1>5. CallsGrow
  BY <1>1, <1>4 DEF CallsGrow, Released
<1>6. /\ At("queued")' = {} /\ At("prepare")' = At("prepare") /\ Turning' = Turning
      /\ At("settled") \subseteq At("settled")'
  BY <1>4 DEF At, Turning
<1>7. \A j \in DOMAIN calls :
        LaneOf(j)' = LaneOf(j) /\ KeyOf(j)' = KeyOf(j) /\ (LaneFree(j) => LaneFree(j)')
  BY <1>1, <1>5, LanesStay
<1>8. \A n \in DOMAIN started : started[n] \in DOMAIN calls
  BY DEF GatewayInv, LanesOK, At, Turning
<1>9. QueueOK'
  BY <1>3, <1>6 DEF QueueOK
<1>10. LanesOK'
  <2>1. \A j \in At("prepare") : LaneFree(j)'
    BY <1>7 DEF GatewayInv, LanesOK, At
  <2>2. ASSUME NEW n \in DOMAIN started PROVE LaneFree(started[n])'
    <3>1. PICK j \in DOMAIN calls : j = started[n] /\ LaneFree(j)
      BY <1>8, <2>2 DEF GatewayInv, LanesOK
    <3>2. LaneFree(j)'
      BY <1>7, <3>1
    <3>3. QED BY <1>3, <3>1, <3>2
  <2>3. QED BY <1>3, <1>6, <2>1, <2>2 DEF GatewayInv, LanesOK
<1>11. OrderOK'
  BY <1>3, <1>7, <1>8 DEF GatewayInv, OrderOK, LaneOrder
<1>12. ScanOK'
  BY <1>3, <1>6 DEF GatewayInv, ScanOK
<1>13. OneTurnPerConversation'
  BY <1>6, <1>7 DEF GatewayInv, OneTurnPerConversation, Turning, At
<1>14. queue' \in Seq(Nat) /\ Len(queue') <= Len(queue)
  BY <1>3 DEF GatewayInv, GatewayTypes
<1>15. PlaceForPrepared'
  BY <1>4, <1>6, <1>14, NobodyMore DEF GatewayBounds
<1>16. GatewayTypes'
  BY <1>3, <1>4, <1>14 DEF GatewayInv, GatewayTypes
<1>17. QED BY <1>9, <1>10, <1>11, <1>12, <1>13, <1>15, <1>16 DEF GatewayInv

\* The gateway begins with nothing.
LEMMA GatewayStarts == ASSUME GatewayBounds, GatewayInit PROVE GatewayInv
<1>1. calls = <<>> /\ queue = <<>> /\ started = <<>> /\ scan = 0
  BY DEF GatewayInit
<1>2. \A place : At(place) = {}
  BY <1>1 DEF At
<1>3. Turning = {}
  BY <1>2 DEF Turning
<1>4. Cardinality({}) = 0
  BY FS_EmptySet
<1>5. GatewayTypes /\ QueueOK /\ LanesOK
  BY <1>1, <1>2 DEF GatewayTypes, QueueOK, LanesOK
<1>6. OrderOK
  BY <1>1 DEF OrderOK, LaneOrder
<1>7. ScanOK /\ PlaceForPrepared /\ OneTurnPerConversation
  BY <1>1, <1>2, <1>3, <1>4 DEF ScanOK, PlaceForPrepared, OneTurnPerConversation, GatewayBounds
<1>8. QED BY <1>5, <1>6, <1>7 DEF GatewayInv

\* The invariant is inductive.
LEMMA GatewaySteps ==
  ASSUME GatewayBounds, GatewayInv, [GatewayNext]_gatewayVars
  PROVE  GatewayInv'
<1>1. ASSUME NEW id \in Id, Arrives(id) PROVE GatewayInv'
  BY <1>1, ArrivalKeeps
<1>2. ASSUME NEW i \in DOMAIN calls, CallMoves(i) PROVE GatewayInv'
  <2>1. CASE Admitted(i)
    BY <2>1, AdmissionKeeps
  <2>2. CASE Ends(i)
    BY <2>2, EndKeeps DEF Ends
  <2>3. ASSUME NEW yes \in BOOLEAN, Controlled(i, yes) PROVE GatewayInv'
    BY <2>3, LeavingKeeps DEF Controlled
  <2>4. ASSUME NEW yes \in BOOLEAN, Prepared(i, yes) PROVE GatewayInv'
    <3>1. CASE calls' = Moved(i, "settled") /\ UNCHANGED <<queue, scan>>
      BY <2>4, <3>1, LeavingKeeps DEF Prepared
    <3>2. CASE calls' = Moved(i, "queued") /\ queue' = Append(queue, i) /\ scan' = 1
      BY <2>4, <3>2, QueueingKeeps DEF Prepared
    <3>3. QED BY <2>4, <3>1, <3>2 DEF Prepared
  <2>5. ASSUME NEW yes \in BOOLEAN, Replied(i, yes) PROVE GatewayInv'
    BY <2>5, ReplyKeeps DEF Replied
  <2>6. QED BY <1>2, <2>1, <2>2, <2>3, <2>4, <2>5 DEF CallMoves
<1>3. CASE GatewayAborts \/ UNCHANGED gatewayVars
  <2>1. UNCHANGED <<calls, queue, scan, started>>
    BY <1>3 DEF GatewayAborts, gatewayVars
  <2>2. GatewayTypes' /\ QueueOK' /\ PlaceForPrepared' /\ OneTurnPerConversation'
    BY <2>1 DEF GatewayInv, GatewayTypes, QueueOK, PlaceForPrepared, OneTurnPerConversation, KeyOf, Turning, At
  <2>3. LanesOK'
    BY <2>1 DEF GatewayInv, LanesOK, LaneFree, LaneOf, Released, Turning, At
  <2>4. OrderOK' /\ ScanOK'
    BY <2>1 DEF GatewayInv, OrderOK, LaneOrder, LaneOf, KeyOf, ScanOK, ActiveKeys, Turning, At
  <2>5. QED BY <2>2, <2>3, <2>4 DEF GatewayInv
<1>4. QED BY <1>1, <1>2, <1>3, SkipKeeps, StartKeeps, PassEndKeeps, DrainKeeps DEF GatewayNext

LEMMA GatewayInvariant == GatewaySpec => []GatewayInv
<1>1. GatewayInit => GatewayInv
  BY GatewayBounds, GatewayStarts
<1>2. GatewayInv /\ [GatewayNext]_gatewayVars => GatewayInv'
  BY GatewayBounds, GatewaySteps
<1>3. QED BY <1>1, <1>2, PTL DEF GatewaySpec

---------------------------------------------------------------------------
(* Deliveries                                                              *)

\* A call that has been accepted and may be executed, or was.
Live(i) ==
  calls[i].at \in {"control", "wait", "prepare", "queued", "reply", "send"} \/ i \in ToSet(started)

\* A message was turned away after its note had been outdated by the time of a call.
Forgotten(i) == \E k \in At("refused") : k < i /\ calls[k].id = calls[i].id /\ Outdated(k, i)

\* The notes are of different messages, in the order of the last calls that were noted.
NotesOK ==
  /\ seen \in Seq(Id) /\ Len(seen) <= MaxSeen
  /\ \A p, q \in DOMAIN seen : seen[p] = seen[q] => p = q
  /\ \A i \in DOMAIN calls : Live(i) =>
       \A p, q \in DOMAIN seen : seen[p] = calls[i].id /\ p < q =>
         \E k \in DOMAIN calls : k > i /\ calls[k].id = seen[q]

\* An accepted message is still noted, or it is known why not.
RememberedOK ==
  \A i \in DOMAIN calls : Live(i) =>
    \/ \E p \in DOMAIN seen : seen[p] = calls[i].id
    \/ Outdated(i, Len(calls) + 1) \/ Forgotten(i)

\* And so is, of two accepted calls for one message, why the second was accepted.
ExcusedOK ==
  \A i, j \in DOMAIN calls : Live(i) /\ Live(j) /\ i < j /\ calls[i].id = calls[j].id =>
    Outdated(i, j) \/ Forgotten(i)

SeenInv == NotesOK /\ RememberedOK /\ ExcusedOK

\* The messages between two calls are finitely many.
LEMMA GapFinite ==
  ASSUME NEW s, NEW a \in Nat, NEW b \in Nat
  PROVE  IsFiniteSet({s[k].id : k \in a + 1 .. b - 1})
<1> DEFINE S == a + 1 .. b - 1
           T == {s[k].id : k \in S}
           f == [k \in S |-> s[k].id]
<1>1. IsFiniteSet(S)
  BY FS_Interval
<1>2. f \in Surjection(S, T)
  BY DEF Surjection
<1> HIDE DEF S, T, f
<1>3. IsFiniteSet(T)
  BY <1>1, <1>2, FS_Surjection
<1>4. QED BY <1>3 DEF S, T

\* A wider gap has at least as many messages, and calls keep theirs.
LEMMA WiderGap ==
  ASSUME NEW s \in Seq(Call), NEW r \in Seq(Call), Len(s) <= Len(r),
         \A k \in DOMAIN s : r[k].id = s[k].id,
         NEW a \in Nat, NEW i \in Nat, NEW j \in Nat, NEW b \in Nat,
         a <= i, j <= b, j <= Len(s) + 1, MaxSeen \in Nat,
         Cardinality({s[k].id : k \in i + 1 .. j - 1}) >= MaxSeen
  PROVE  Cardinality({r[k].id : k \in a + 1 .. b - 1}) >= MaxSeen
<1> DEFINE small == {s[k].id : k \in i + 1 .. j - 1}
           big == {r[k].id : k \in a + 1 .. b - 1}
<1>1. \A k \in i + 1 .. j - 1 : k \in DOMAIN s /\ k \in a + 1 .. b - 1
  BY SeqIsFunction
<1>2. small \subseteq big
  BY <1>1
<1>3. IsFiniteSet(big)
  BY GapFinite
<1> HIDE DEF small, big
<1>4. Cardinality(small) <= Cardinality(big) /\ Cardinality(small) \in Nat /\ Cardinality(big) \in Nat
  BY <1>2, <1>3, FS_Subset, FS_CardinalityType
<1>5. Cardinality(small) >= MaxSeen
  BY DEF small
<1>6. Cardinality(big) >= MaxSeen
  BY <1>4, <1>5
<1>7. QED BY <1>6 DEF big

\* In particular what is outdated stays so, and becomes so for wider gaps.
LEMMA OutdatedWidens ==
  ASSUME GatewayBounds, calls \in Seq(Call), NEW a \in Nat, NEW i \in Nat, NEW j \in Nat, NEW b \in Nat,
         a <= i, j <= b, j <= Len(calls) + 1, Outdated(i, j)
  PROVE  Outdated(a, b) /\ (CallsGrow => Outdated(a, b)')
<1>1. MaxSeen \in Nat /\ Len(calls) <= Len(calls) /\ Cardinality({calls[k].id : k \in i + 1 .. j - 1}) >= MaxSeen
  BY SeqIsFunction DEF GatewayBounds, Outdated
<1>2. Cardinality({calls[k].id : k \in a + 1 .. b - 1}) >= MaxSeen
  BY <1>1, WiderGap
<1>3. ASSUME CallsGrow PROVE Cardinality({calls'[k].id : k \in a + 1 .. b - 1}) >= MaxSeen
  <2>1. calls' \in Seq(Call) /\ Len(calls) <= Len(calls') /\ \A k \in DOMAIN calls : calls'[k].id = calls[k].id
    BY <1>3, SeqIsFunction DEF CallsGrow
  <2>2. QED BY <1>1, <2>1, WiderGap
<1>4. QED BY <1>2, <1>3 DEF Outdated

\* A call that was forgotten stays forgotten.
LEMMA ForgottenStays ==
  ASSUME GatewayBounds, calls \in Seq(Call), CallsGrow, At("refused") \subseteq At("refused")',
         NEW i \in DOMAIN calls, Forgotten(i)
  PROVE  Forgotten(i)'
<1>1. PICK k \in At("refused") : k < i /\ calls[k].id = calls[i].id /\ Outdated(k, i)
  BY DEF Forgotten
<1>2. k \in DOMAIN calls /\ k \in Nat /\ i \in Nat /\ i <= Len(calls) + 1 /\ k <= k /\ i <= i
  BY SeqIsFunction DEF At
<1>3. Outdated(k, i)'
  BY <1>1, <1>2, OutdatedWidens
<1>4. calls'[k].id = calls'[i].id
  BY <1>1, <1>2 DEF CallsGrow
<1>5. QED BY <1>1, <1>3, <1>4 DEF Forgotten

\* What excuses two calls stays.
LEMMA ExcuseStays ==
  ASSUME GatewayBounds, calls \in Seq(Call), CallsGrow, At("refused") \subseteq At("refused")',
         NEW i \in DOMAIN calls, NEW j \in Nat, j <= Len(calls) + 1, Outdated(i, j) \/ Forgotten(i)
  PROVE  \A b \in Nat : j <= b => Outdated(i, b)' \/ Forgotten(i)'
<1>1. i \in Nat /\ i <= i
  BY SeqIsFunction
<1>2. CASE Outdated(i, j)
  <2> SUFFICES ASSUME NEW b \in Nat, j <= b PROVE Outdated(i, b)'
    OBVIOUS
  <2>1. QED BY <1>1, <1>2, OutdatedWidens
<1>3. CASE Forgotten(i)
  BY <1>3, ForgottenStays
<1>4. QED BY <1>2, <1>3

\* A step that accepts nobody and leaves the notes alone keeps all this.
LEMMA NobodyAccepted ==
  ASSUME GatewayBounds, calls \in Seq(Call), SeenInv, CallsGrow, UNCHANGED seen,
         At("refused") \subseteq At("refused")',
         \A j \in DOMAIN calls' : Live(j)' => j \in DOMAIN calls /\ Live(j)
  PROVE  SeenInv'
<1>1. /\ DOMAIN calls = 1 .. Len(calls) /\ DOMAIN calls' = 1 .. Len(calls') /\ Len(calls) \in Nat
      /\ DOMAIN calls \subseteq Nat /\ DOMAIN calls \subseteq DOMAIN calls'
      /\ Len(calls') \in Nat /\ Len(calls) + 1 <= Len(calls') + 1
      /\ \A j \in DOMAIN calls : calls'[j].id = calls[j].id
  BY SeqIsFunction DEF CallsGrow
<1>2. NotesOK'
  <2>1. seen' \in Seq(Id) /\ Len(seen') <= MaxSeen /\ \A p, q \in DOMAIN seen' : seen'[p] = seen'[q] => p = q
    BY DEF SeenInv, NotesOK
  <2>2. ASSUME NEW i \in DOMAIN calls', Live(i)', NEW p \in DOMAIN seen, NEW q \in DOMAIN seen,
               seen[p] = calls'[i].id, p < q
        PROVE  \E k \in DOMAIN calls' : k > i /\ calls'[k].id = seen[q]
    <3>1. i \in DOMAIN calls /\ Live(i) /\ seen[p] = calls[i].id
      BY <1>1, <2>2
    <3>2. PICK k \in DOMAIN calls : k > i /\ calls[k].id = seen[q]
      BY <2>2, <3>1 DEF SeenInv, NotesOK
    <3>3. QED BY <1>1, <3>2
  <2>3. QED BY <2>1, <2>2 DEF NotesOK
<1>3. RememberedOK'
  <2> SUFFICES ASSUME NEW i \in DOMAIN calls', Live(i)'
               PROVE  \/ \E p \in DOMAIN seen' : seen'[p] = calls'[i].id
                      \/ Outdated(i, Len(calls) + 1)' \/ Forgotten(i)'
    BY DEF RememberedOK
  <2>1. i \in DOMAIN calls /\ Live(i) /\ i \in Nat
    BY <1>1
  <2>2. CASE \E p \in DOMAIN seen : seen[p] = calls[i].id
    BY <1>1, <2>1, <2>2
  <2>3. CASE Outdated(i, Len(calls) + 1) \/ Forgotten(i)
    <3>1. PICK n \in Nat : n = Len(calls) + 1
      BY <1>1
    <3>2. PICK b \in Nat : b = Len(calls') + 1
      BY <1>1
    <3>3. n <= Len(calls) + 1 /\ n <= b /\ (Outdated(i, n) \/ Forgotten(i))
      BY <1>1, <2>3, <3>1, <3>2
    <3>4. Outdated(i, b)' \/ Forgotten(i)'
      BY <2>1, <3>3, ExcuseStays
    <3>5. QED BY <3>2, <3>4
  <2>4. QED BY <2>1, <2>2, <2>3 DEF SeenInv, RememberedOK
<1>4. ExcusedOK'
  <2> SUFFICES ASSUME NEW i \in DOMAIN calls', NEW j \in DOMAIN calls', Live(i)', Live(j)', i < j,
                      calls'[i].id = calls'[j].id
               PROVE  Outdated(i, j)' \/ Forgotten(i)'
    BY DEF ExcusedOK
  <2>1. /\ i \in DOMAIN calls /\ j \in DOMAIN calls /\ Live(i) /\ Live(j) /\ calls[i].id = calls[j].id
        /\ j \in Nat /\ j <= Len(calls) + 1 /\ j <= j
    BY <1>1
  <2>2. Outdated(i, j) \/ Forgotten(i)
    BY <2>1 DEF SeenInv, ExcusedOK
  <2>3. QED BY <2>1, <2>2, ExcuseStays
<1>5. QED BY <1>2, <1>3, <1>4 DEF SeenInv

\* So does any step of an accepted call that keeps its note.
LEMMA MoveRemembers ==
  ASSUME GatewayBounds, GatewayInv, SeenInv, NEW i \in DOMAIN calls, NEW place \in Places,
         calls[i].at \in {"control", "wait", "prepare", "queued", "reply", "send"},
         Released(i) => place \in {"queued", "reply", "send", "settled", "refused"},
         calls' = Moved(i, place), UNCHANGED seen,
         UNCHANGED started \/ started' = Append(started, i)
  PROVE  SeenInv'
<1>1. calls \in Seq(Call) /\ started \in Seq(Nat) /\ i \in Nat
  BY SeqIsFunction DEF GatewayInv, GatewayTypes
<1>2. CallsGrow
  BY <1>1, MovesGrow
<1>3. At("refused") \subseteq At("refused")'
  <2>1. i \notin At("refused")
    BY DEF At
  <2>2. QED BY <1>1, <2>1, PlacesMove DEF Places
<1>4. DOMAIN calls' = DOMAIN calls /\ \A j \in DOMAIN calls \ {i} : calls'[j] = calls[j]
  BY <1>1, MovesAlong
<1>5. ToSet(started)' \subseteq ToSet(started) \cup {i}
  <2>1. CASE started' = Append(started, i)
    <3>1. \A n \in DOMAIN started' : started'[n] = i \/ (n \in DOMAIN started /\ started'[n] = started[n])
      BY <1>1, <2>1
    <3>2. QED BY <3>1 DEF ToSet
  <2>2. CASE UNCHANGED started
    BY <2>2 DEF ToSet
  <2>3. QED BY <2>1, <2>2
<1>6. \A j \in DOMAIN calls' : Live(j)' => j \in DOMAIN calls /\ Live(j)
  BY <1>4, <1>5 DEF Live
<1>7. QED BY <1>1, <1>2, <1>3, <1>6, NobodyAccepted

\* A call that is turned away takes the note with it, be it that of a later delivery:
\* then the later one was accepted because the note of this one was outdated.
LEMMA RefusalRemembers ==
  ASSUME GatewayBounds, GatewayInv, SeenInv, NEW i \in At("wait"), calls' = Moved(i, "refused"),
         NEW n \in DOMAIN seen, seen[n] = calls[i].id, seen' = RemoveAt(seen, n), UNCHANGED started
  PROVE  SeenInv'
<1>1. /\ calls \in Seq(Call) /\ i \in DOMAIN calls /\ Live(i) /\ "refused" \in Places
      /\ DOMAIN calls = 1 .. Len(calls) /\ Len(calls) \in Nat
  BY SeqIsFunction DEF GatewayInv, GatewayTypes, At, Live, Places
<1>2. /\ DOMAIN calls' = DOMAIN calls /\ calls'[i].at = "refused"
      /\ \A j \in DOMAIN calls : calls'[j].id = calls[j].id
      /\ \A j \in DOMAIN calls \ {i} : calls'[j] = calls[j]
  BY <1>1, MovesAlong
<1>3. CallsGrow /\ calls' \in Seq(Call) /\ Len(calls') = Len(calls)
  <2>1. CallsGrow
    BY <1>1, MovesGrow
  <2>2. QED BY <1>1, <1>2, <2>1, SeqIsFunction DEF CallsGrow
<1>4. At("refused") \subseteq At("refused")' /\ i \in At("refused")'
  BY <1>1, PlacesMove
<1>5. \A j \in DOMAIN calls : Live(j)' => Live(j) /\ j # i
  <2>1. i \notin ToSet(started)
    BY DEF GatewayInv, LanesOK, Turning, At, ToSet
  <2>2. ~Live(i)'
    BY <1>2, <2>1 DEF Live
  <2>3. \A j \in DOMAIN calls \ {i} : Live(j)' => Live(j)
    BY <1>2 DEF Live
  <2>4. QED BY <2>2, <2>3
<1> DEFINE up(p) == IF p < n THEN p ELSE p + 1
<1>6. /\ seen \in Seq(Id) /\ Len(seen) \in Nat /\ DOMAIN seen = 1 .. Len(seen) /\ Len(seen) <= MaxSeen
      /\ \A p, q \in DOMAIN seen : seen[p] = seen[q] => p = q
      /\ MaxSeen \in Nat /\ n \in 1 .. Len(seen)
  BY SeqIsFunction DEF SeenInv, NotesOK, GatewayBounds
<1>7. /\ seen' \in Seq(Id) /\ Len(seen') = Len(seen) - 1 /\ DOMAIN seen' = 1 .. Len(seen) - 1
      /\ \A p \in DOMAIN seen' : seen'[p] = seen[up(p)]
  <2>1. seen \in Seq(Id)
    BY <1>6
  <2>2. /\ seen' \in Seq(Id) /\ Len(seen') = Len(seen) - 1
        /\ \A p \in DOMAIN seen' : seen'[p] = seen[up(p)]
    BY <2>1, OneLess
  <2>3. QED BY <1>6, <2>2
<1>8. /\ \A p \in DOMAIN seen' : up(p) \in DOMAIN seen
      /\ \A p, q \in DOMAIN seen' : (up(p) = up(q) => p = q) /\ (p < q => up(p) < up(q))
      /\ \A p \in DOMAIN seen : p # n => \E q \in DOMAIN seen' : up(q) = p
  <2>1. \A p \in DOMAIN seen' : up(p) \in DOMAIN seen
    BY <1>6, <1>7
  <2>2. \A p, q \in DOMAIN seen' : (up(p) = up(q) => p = q) /\ (p < q => up(p) < up(q))
    BY <1>6, <1>7
  <2>3. ASSUME NEW p \in DOMAIN seen, p # n PROVE \E q \in DOMAIN seen' : up(q) = p
    <3>1. CASE p < n
      <4>1. p \in DOMAIN seen' /\ up(p) = p
        BY <1>6, <1>7, <3>1
      <4>2. QED BY <4>1
    <3>2. CASE p > n
      <4>1. p - 1 \in DOMAIN seen' /\ up(p - 1) = p
        BY <1>6, <1>7, <3>2
      <4>2. QED BY <4>1
    <3>3. QED BY <1>6, <2>3, <3>1, <3>2
  <2>4. QED BY <2>1, <2>2, <2>3
<1> HIDE DEF up
<1>9. NotesOK'
  <2>1. \A p, q \in DOMAIN seen' : seen'[p] = seen'[q] => p = q
    BY <1>6, <1>7, <1>8
  <2>2. ASSUME NEW j \in DOMAIN calls, Live(j)', NEW p \in DOMAIN seen', NEW q \in DOMAIN seen',
               seen'[p] = calls'[j].id, p < q
        PROVE  \E k \in DOMAIN calls : k > j /\ calls'[k].id = seen'[q]
    <3>1. Live(j) /\ seen[up(p)] = calls[j].id /\ up(p) < up(q) /\ up(p) \in DOMAIN seen /\ up(q) \in DOMAIN seen
      BY <1>2, <1>5, <1>7, <1>8, <2>2
    <3>2. PICK k \in DOMAIN calls : k > j /\ calls[k].id = seen[up(q)]
      BY <3>1 DEF SeenInv, NotesOK
    <3>3. QED BY <1>2, <1>7, <3>2
  <2>3. Len(seen') <= MaxSeen
    BY <1>6, <1>7
  <2>4. QED BY <1>2, <1>7, <2>1, <2>2, <2>3 DEF NotesOK
<1>10. RememberedOK'
  <2> SUFFICES ASSUME NEW j \in DOMAIN calls, Live(j)'
               PROVE  \/ \E p \in DOMAIN seen' : seen'[p] = calls'[j].id
                      \/ Outdated(j, Len(calls) + 1)' \/ Forgotten(j)'
    BY <1>2 DEF RememberedOK
  <2>1. Live(j) /\ j # i /\ j \in Nat /\ i \in Nat
    BY <1>1, <1>5
  <2>2. PICK b \in Nat : b = Len(calls) + 1
    BY <1>1
  <2>3. b <= Len(calls) + 1 /\ b <= b /\ j < b /\ i < b /\ j <= Len(calls) + 1 /\ b = Len(calls') + 1
    BY <1>1, <1>3, <2>2
  <2>4. ASSUME Outdated(j, b) \/ Forgotten(j) PROVE Outdated(j, b)' \/ Forgotten(j)'
    BY <1>1, <1>3, <1>4, <2>3, <2>4, ExcuseStays
  <2>5. ASSUME NEW p \in DOMAIN seen, seen[p] = calls[j].id, p # n
        PROVE  \E q \in DOMAIN seen' : seen'[q] = calls'[j].id
    BY <1>2, <1>7, <1>8, <2>5
  <2>6. ASSUME calls[j].id = calls[i].id, j < i PROVE Outdated(j, b)' \/ Forgotten(j)'
    <3>1. Outdated(j, i) \/ Forgotten(j)
      BY <1>1, <2>1, <2>6 DEF SeenInv, ExcusedOK
    <3>2. i <= Len(calls) + 1 /\ i <= b
      BY <1>1, <2>3
    <3>3. QED BY <1>1, <1>3, <1>4, <2>1, <3>1, <3>2, ExcuseStays
  <2>7. ASSUME calls[j].id = calls[i].id, i < j PROVE Forgotten(j)'
    <3>1. CASE Outdated(i, j)
      <4>1. i <= i /\ j <= j /\ j <= Len(calls) + 1
        BY <2>1, <2>3
      <4>2. Outdated(i, j)'
        BY <1>1, <1>3, <2>1, <3>1, <4>1, OutdatedWidens
      <4>3. calls'[i].id = calls'[j].id
        BY <1>1, <1>2, <2>7
      <4>4. QED BY <1>4, <2>7, <4>2, <4>3 DEF Forgotten
    <3>2. CASE Forgotten(i)
      <4>1. PICK k \in At("refused") : k < i /\ calls[k].id = calls[i].id /\ Outdated(k, i)
        BY <3>2 DEF Forgotten
      <4>2. k \in DOMAIN calls /\ k \in Nat /\ k <= k /\ i <= j /\ i <= Len(calls) + 1 /\ k < j
        BY <1>1, <2>1, <2>3, <2>7, <4>1 DEF At
      <4>3. Outdated(k, j)'
        BY <1>1, <1>3, <2>1, <4>1, <4>2, OutdatedWidens
      <4>4. calls'[k].id = calls'[j].id
        BY <1>2, <2>7, <4>1, <4>2
      <4>5. QED BY <1>4, <4>1, <4>2, <4>3, <4>4 DEF Forgotten
    <3>3. QED BY <1>1, <2>1, <2>7, <3>1, <3>2 DEF SeenInv, ExcusedOK
  <2>8. \/ \E p \in DOMAIN seen : seen[p] = calls[j].id
        \/ Outdated(j, b) \/ Forgotten(j)
    BY <2>1, <2>2 DEF SeenInv, RememberedOK
  <2>9. \/ \E q \in DOMAIN seen' : seen'[q] = calls'[j].id
        \/ Outdated(j, b)' \/ Forgotten(j)'
    <3>1. CASE calls[j].id = calls[i].id
      BY <2>1, <2>6, <2>7, <3>1
    <3>2. CASE calls[j].id # calls[i].id
      BY <2>4, <2>5, <2>8, <3>2
    <3>3. QED BY <3>1, <3>2
  <2>10. QED BY <2>3, <2>9
<1>11. ExcusedOK'
  <2> SUFFICES ASSUME NEW j \in DOMAIN calls, NEW k \in DOMAIN calls, Live(j)', Live(k)', j < k,
                      calls'[j].id = calls'[k].id
               PROVE  Outdated(j, k)' \/ Forgotten(j)'
    BY <1>2 DEF ExcusedOK
  <2>1. /\ Live(j) /\ Live(k) /\ calls[j].id = calls[k].id
        /\ k \in Nat /\ k <= Len(calls) + 1 /\ k <= k
    BY <1>1, <1>2, <1>5
  <2>2. Outdated(j, k) \/ Forgotten(j)
    BY <2>1 DEF SeenInv, ExcusedOK
  <2>3. QED BY <1>1, <1>3, <1>4, <2>1, <2>2, ExcuseStays
<1>12. QED BY <1>9, <1>10, <1>11 DEF SeenInv

\* Different notes in a finite set of messages are no more than the set has.
LEMMA NotedApart ==
  ASSUME NEW s \in Seq(Id), Len(s) # 0, \A p, q \in DOMAIN s : s[p] = s[q] => p = q,
         NEW U, IsFiniteSet(U), \A q \in DOMAIN s : q # 1 => s[q] \in U
  PROVE  Len(s) - 1 <= Cardinality(U)
<1> DEFINE S == 2 .. Len(s)
           f == [q \in S |-> s[q]]
<1>1. Len(s) \in Nat /\ \A q \in S : q \in DOMAIN s /\ q # 1
  BY SeqIsFunction
<1>2. f \in Injection(S, U)
  <2>1. f \in [S -> U] /\ \A p, q \in S : f[p] = f[q] => p = q
    BY <1>1
  <2>2. QED BY <2>1 DEF Injection, IsInjective
<1>3. Cardinality(S) = Len(s) - 1
  BY <1>1, FS_Interval
<1> HIDE DEF S, f
<1>4. Cardinality(S) <= Cardinality(U)
  BY <1>2, FS_Injection
<1>5. QED BY <1>3, <1>4

\* A message that is accepted is noted at the end, and an older note that gives way was
\* followed by as many others as the gateway remembers.
LEMMA AcceptanceRemembers ==
  ASSUME GatewayBounds, GatewayInv, SeenInv, NEW id \in Id, ~Contains(seen, id),
         calls' = Append(calls, [id |-> id, at |-> "control"]), seen' = Noted(id), UNCHANGED started
  PROVE  SeenInv'
<1>1. PICK n \in Nat : n = Len(calls) + 1
  BY SeqIsFunction DEF GatewayInv, GatewayTypes
<1>2. /\ calls \in Seq(Call) /\ Len(calls) \in Nat /\ DOMAIN calls = 1 .. Len(calls)
      /\ [id |-> id, at |-> "control"] \in Call
  BY SeqIsFunction DEF GatewayInv, GatewayTypes, Call, Places
<1>3. /\ calls' \in Seq(Call) /\ DOMAIN calls' = 1 .. n /\ Len(calls') = n
      /\ \A j \in DOMAIN calls : calls'[j] = calls[j]
      /\ calls'[n].id = id /\ n \notin DOMAIN calls
  BY <1>1, <1>2
<1>4. CallsGrow /\ At("refused") \subseteq At("refused")'
  <2>1. CallsGrow
    BY <1>1, <1>2, <1>3 DEF CallsGrow, Released
  <2>2. QED BY <1>1, <1>2, <1>3, <2>1 DEF At
<1>5. /\ \A j \in DOMAIN calls' : j \in DOMAIN calls \/ j = n
      /\ \A j \in DOMAIN calls : j \in Nat /\ j < n /\ j \in DOMAIN calls'
      /\ \A j \in DOMAIN calls : Live(j)' => Live(j)
  BY <1>1, <1>2, <1>3 DEF Live
<1>6. /\ seen \in Seq(Id) /\ Len(seen) \in Nat /\ DOMAIN seen = 1 .. Len(seen) /\ Len(seen) <= MaxSeen
      /\ \A p, q \in DOMAIN seen : seen[p] = seen[q] => p = q
      /\ \A p \in DOMAIN seen : seen[p] # id
      /\ MaxSeen \in Nat
  <2>1. \A p \in DOMAIN seen : seen[p] # id
    BY DEF Contains
  <2>2. QED BY <2>1, SeqIsFunction DEF SeenInv, NotesOK, GatewayBounds
<1>7. PICK longer \in Seq(Id) :
        longer = Append(seen, id) /\ seen' = IF Len(longer) > MaxSeen THEN Tail(longer) ELSE longer
  <2>1. Append(seen, id) \in Seq(Id)
    BY <1>6
  <2>2. seen' = IF Len(Append(seen, id)) > MaxSeen THEN Tail(Append(seen, id)) ELSE Append(seen, id)
    BY DEF Noted
  <2>3. QED BY <2>1, <2>2
<1> DEFINE e == Len(seen) + 1
<1>8. /\ Len(longer) = e /\ DOMAIN longer = 1 .. e /\ longer[e] = id /\ e \in Nat /\ e # 0
      /\ \A p \in DOMAIN seen : longer[p] = seen[p] /\ p \in Nat /\ p < e
      /\ \A p \in DOMAIN longer : p \in DOMAIN seen \/ p = e
  BY <1>6, <1>7
<1> HIDE DEF e
<1>9. \A p, q \in DOMAIN longer : longer[p] = longer[q] => p = q
  BY <1>6, <1>8
<1>10. ASSUME NEW i \in DOMAIN calls', Live(i)', NEW p \in DOMAIN longer, NEW q \in DOMAIN longer,
              longer[p] = calls'[i].id, p < q
       PROVE  \E k \in DOMAIN calls' : k > i /\ calls'[k].id = longer[q]
  <2>1. p \in DOMAIN seen /\ longer[p] = seen[p] /\ seen[p] # id
    BY <1>6, <1>8, <1>10
  <2>2. i \in DOMAIN calls /\ Live(i) /\ calls[i].id = seen[p]
    BY <1>3, <1>5, <1>10, <2>1
  <2>3. CASE q = e
    <3>1. n \in DOMAIN calls' /\ n > i /\ calls'[n].id = longer[q]
      BY <1>3, <1>5, <1>8, <2>2, <2>3
    <3>2. QED BY <3>1
  <2>4. CASE q \in DOMAIN seen
    <3>1. PICK k \in DOMAIN calls : k > i /\ calls[k].id = seen[q]
      BY <1>10, <2>1, <2>2, <2>4 DEF SeenInv, NotesOK
    <3>2. QED BY <1>3, <1>5, <1>8, <2>4, <3>1
  <2>5. QED BY <1>8, <2>3, <2>4
<1>11. ASSUME NEW i \in DOMAIN calls, NEW j \in Nat, j <= n, Outdated(i, j) \/ Forgotten(i)
       PROVE  \A b \in Nat : j <= b => Outdated(i, b)' \/ Forgotten(i)'
  <2>1. j <= Len(calls) + 1
    BY <1>1, <1>11
  <2>2. QED BY <1>2, <1>4, <1>11, <2>1, ExcuseStays
<1>12. PICK b \in Nat : b = Len(calls') + 1
  BY <1>3
<1>13. ASSUME NEW i \in DOMAIN calls', Live(i)'
       PROVE  \/ \E p \in DOMAIN longer : longer[p] = calls'[i].id
              \/ Outdated(i, b)' \/ Forgotten(i)'
  <2>1. CASE i = n
    BY <1>3, <1>8, <2>1
  <2>2. CASE i \in DOMAIN calls
    <3>1. \/ \E p \in DOMAIN seen : seen[p] = calls[i].id
          \/ Outdated(i, n) \/ Forgotten(i)
      BY <1>1, <1>5, <1>13, <2>2 DEF SeenInv, RememberedOK
    <3>2. CASE \E p \in DOMAIN seen : seen[p] = calls[i].id
      <4>1. PICK p \in DOMAIN seen : seen[p] = calls[i].id
        BY <3>2
      <4>2. p \in DOMAIN longer /\ longer[p] = calls'[i].id
        BY <1>3, <1>6, <1>8, <2>2, <4>1
      <4>3. QED BY <4>2
    <3>3. CASE Outdated(i, n) \/ Forgotten(i)
      <4>1. n <= n /\ n <= b
        BY <1>3, <1>12
      <4>2. QED BY <1>11, <2>2, <3>3, <4>1
    <3>4. QED BY <3>1, <3>2, <3>3
  <2>3. QED BY <1>5, <2>1, <2>2
<1>14. ExcusedOK'
  <2> SUFFICES ASSUME NEW i \in DOMAIN calls', NEW j \in DOMAIN calls', Live(i)', Live(j)', i < j,
                      calls'[i].id = calls'[j].id
               PROVE  Outdated(i, j)' \/ Forgotten(i)'
    BY DEF ExcusedOK
  <2>1. i \in DOMAIN calls /\ Live(i) /\ j \in Nat /\ j <= n /\ j <= j
    BY <1>1, <1>3, <1>5
  <2>2. Outdated(i, j) \/ Forgotten(i)
    <3>1. CASE j \in DOMAIN calls
      BY <1>3, <1>5, <2>1, <3>1 DEF SeenInv, ExcusedOK
    <3>2. CASE j = n
      <4>1. calls[i].id = id
        BY <1>3, <2>1, <3>2
      <4>2. Outdated(i, n) \/ Forgotten(i)
        BY <1>1, <1>6, <2>1, <4>1 DEF SeenInv, RememberedOK
      <4>3. QED BY <3>2, <4>2
    <3>3. QED BY <1>5, <3>1, <3>2
  <2>3. QED BY <1>11, <2>1, <2>2
<1>15. CASE Len(longer) <= MaxSeen
  <2>1. seen' = longer
    <3>1. ~(Len(longer) > MaxSeen)
      BY <1>6, <1>8, <1>15
    <3>2. QED BY <1>7, <3>1
  <2>2. NotesOK'
    BY <1>9, <1>10, <1>15, <2>1 DEF NotesOK
  <2>3. RememberedOK'
    BY <1>12, <1>13, <2>1 DEF RememberedOK
  <2>4. QED BY <1>14, <2>2, <2>3 DEF SeenInv
<1>16. CASE Len(longer) > MaxSeen
  <2>1. seen' = Tail(longer) /\ Len(longer) = MaxSeen + 1
    BY <1>6, <1>7, <1>8, <1>16 DEF e
  <2>2. /\ seen' \in Seq(Id) /\ Len(seen') = MaxSeen /\ DOMAIN seen' = 1 .. MaxSeen
        /\ \A p \in DOMAIN seen' : seen'[p] = longer[p + 1] /\ p + 1 \in DOMAIN longer /\ p \in Nat
    BY <1>6, <1>8, <2>1
  <2>3. \A p \in DOMAIN longer : p # 1 => p - 1 \in DOMAIN seen' /\ seen'[p - 1] = longer[p]
    BY <1>6, <1>8, <2>1, <2>2
  <2>4. NotesOK'
    <3>1. \A p, q \in DOMAIN seen' : seen'[p] = seen'[q] => p = q
      <4>1. \A p, q \in DOMAIN seen' : seen'[p] = seen'[q] => p + 1 = q + 1
        BY <1>9, <2>2
      <4>2. QED BY <2>2, <4>1
    <3>2. ASSUME NEW i \in DOMAIN calls', Live(i)', NEW p \in DOMAIN seen', NEW q \in DOMAIN seen',
                 seen'[p] = calls'[i].id, p < q
          PROVE  \E k \in DOMAIN calls' : k > i /\ calls'[k].id = seen'[q]
      <4>1. PICK x \in DOMAIN longer : x = p + 1 /\ longer[x] = calls'[i].id
        BY <2>2, <3>2
      <4>2. PICK y \in DOMAIN longer : y = q + 1 /\ longer[y] = seen'[q]
        BY <2>2
      <4>3. x < y
        BY <2>2, <3>2, <4>1, <4>2
      <4>4. QED BY <1>10, <3>2, <4>1, <4>2, <4>3
    <3>3. seen' \in Seq(Id) /\ Len(seen') <= MaxSeen
      BY <1>6, <2>2
    <3>4. \A i \in DOMAIN calls' : Live(i)' =>
            \A p, q \in DOMAIN seen' : seen'[p] = calls'[i].id /\ p < q =>
              \E k \in DOMAIN calls' : k > i /\ calls'[k].id = seen'[q]
      BY <3>2
    <3>5. QED BY <3>1, <3>3, <3>4 DEF NotesOK
  <2>5. RememberedOK'
    <3> SUFFICES ASSUME NEW i \in DOMAIN calls', Live(i)'
                 PROVE  \/ \E p \in DOMAIN seen' : seen'[p] = calls'[i].id
                        \/ Outdated(i, b)' \/ Forgotten(i)'
      BY <1>12 DEF RememberedOK
    <3>1. ASSUME NEW p \in DOMAIN longer, p # 1, longer[p] = calls'[i].id
          PROVE  \E q \in DOMAIN seen' : seen'[q] = calls'[i].id
      BY <2>3, <3>1
    <3>2. ASSUME 1 \in DOMAIN longer, longer[1] = calls'[i].id PROVE Outdated(i, b)'
      <4> DEFINE U == {calls'[k].id : k \in i + 1 .. b - 1}
      <4>1. i \in Nat /\ i + 1 .. b - 1 = i + 1 .. n
        BY <1>3, <1>12
      <4>2. IsFiniteSet(U)
        <5>1. i \in Nat
          BY <4>1
        <5>2. PICK r : r = calls'
          OBVIOUS
        <5>3. IsFiniteSet({r[k].id : k \in i + 1 .. b - 1})
          BY <5>1, GapFinite
        <5>4. QED BY <5>2, <5>3
      <4>3. ASSUME NEW q \in DOMAIN longer, q # 1 PROVE longer[q] \in U
        <5>1. 1 < q
          BY <1>8, <4>3
        <5>2. PICK k \in DOMAIN calls' : k > i /\ calls'[k].id = longer[q]
          BY <1>10, <3>2, <5>1
        <5>3. k \in i + 1 .. n
          BY <1>3, <4>1, <5>2
        <5>4. k \in i + 1 .. b - 1
          BY <4>1, <5>3
        <5>5. QED BY <5>2, <5>4
      <4> HIDE DEF U
      <4>4. Len(longer) - 1 <= Cardinality(U) /\ Cardinality(U) \in Nat
        BY <1>8, <1>9, <4>2, <4>3, NotedApart, FS_CardinalityType
      <4>5. Cardinality(U) >= MaxSeen
        BY <1>6, <2>1, <4>4
      <4>6. QED BY <4>5 DEF Outdated, U
    <3>3. QED BY <1>13, <3>1, <3>2
  <2>6. QED BY <1>14, <2>4, <2>5 DEF SeenInv
<1>17. QED BY <1>6, <1>8, <1>15, <1>16

\* Nothing is noted at first.
LEMMA SeenStarts == ASSUME GatewayBounds, GatewayInit PROVE SeenInv
<1>1. calls = <<>> /\ seen = <<>>
  BY DEF GatewayInit
<1>2. seen \in Seq(Id) /\ Len(seen) <= MaxSeen /\ DOMAIN seen = {} /\ DOMAIN calls = {}
  BY <1>1 DEF GatewayBounds
<1>3. QED BY <1>2 DEF SeenInv, NotesOK, RememberedOK, ExcusedOK

\* A message that is dropped is never executed.
LEMMA DropRemembers ==
  ASSUME GatewayBounds, GatewayInv, SeenInv, NEW id \in Id,
         calls' = Append(calls, [id |-> id, at |-> "settled"]), UNCHANGED <<seen, started>>
  PROVE  SeenInv'
<1>1. /\ calls \in Seq(Call) /\ Len(calls) \in Nat /\ DOMAIN calls = 1 .. Len(calls)
      /\ [id |-> id, at |-> "settled"] \in Call
  BY SeqIsFunction DEF GatewayInv, GatewayTypes, Call, Places
<1>2. /\ calls' \in Seq(Call) /\ DOMAIN calls' = 1 .. Len(calls) + 1 /\ Len(calls') = Len(calls) + 1
      /\ \A j \in DOMAIN calls : calls'[j] = calls[j]
      /\ calls'[Len(calls) + 1].at = "settled"
  BY <1>1
<1>3. CallsGrow
  BY <1>1, <1>2 DEF CallsGrow, Released
<1>4. At("refused") \subseteq At("refused")'
  BY <1>1, <1>2 DEF At
<1>5. \A j \in DOMAIN calls' : j \in DOMAIN calls \/ (j = Len(calls) + 1 /\ j \notin DOMAIN calls)
  BY <1>1, <1>2
<1>6. \A j \in ToSet(started) : j \in DOMAIN calls
  BY DEF GatewayInv, LanesOK, Turning, At, ToSet
<1>7. \A j \in DOMAIN calls' : Live(j)' => j \in DOMAIN calls /\ Live(j)
  <2>1. ASSUME NEW j \in DOMAIN calls', Live(j)' PROVE j \in DOMAIN calls
    BY <1>2, <1>5, <1>6, <2>1 DEF Live
  <2>2. ASSUME NEW j \in DOMAIN calls, Live(j)' PROVE Live(j)
    BY <1>2, <2>2 DEF Live
  <2>3. QED BY <2>1, <2>2
<1>8. QED BY <1>1, <1>3, <1>4, <1>7, NobodyAccepted

\* A drained queue executes nobody.
LEMMA DrainRemembers ==
  ASSUME GatewayBounds, GatewayInv, SeenInv, Drains
  PROVE  SeenInv'
<1> DEFINE drained(i) == IF calls[i].at = "queued" THEN [calls[i] EXCEPT !.at = "settled"] ELSE calls[i]
<1>1. /\ calls \in Seq(Call) /\ Len(calls) \in Nat /\ DOMAIN calls = 1 .. Len(calls)
      /\ \A i \in DOMAIN calls : calls[i] \in Call
  BY SeqIsFunction DEF GatewayInv, GatewayTypes
<1>2. \A i \in DOMAIN calls : /\ drained(i) \in Call /\ drained(i).id = calls[i].id
                               /\ drained(i).at = IF calls[i].at = "queued" THEN "settled" ELSE calls[i].at
  BY <1>1 DEF Call, Places
<1>3. calls' = [i \in 1 .. Len(calls) |-> drained(i)] /\ UNCHANGED <<seen, started>>
  BY <1>1 DEF Drains
<1> HIDE DEF drained
<1>4. /\ calls' \in Seq(Call) /\ DOMAIN calls' = DOMAIN calls /\ Len(calls') = Len(calls)
      /\ \A i \in DOMAIN calls : /\ calls'[i].id = calls[i].id
                                  /\ calls'[i].at = IF calls[i].at = "queued" THEN "settled" ELSE calls[i].at
  BY <1>1, <1>2, <1>3
<1>5. CallsGrow
  BY <1>1, <1>4 DEF CallsGrow, Released
<1>6. At("refused") \subseteq At("refused")'
  BY <1>4 DEF At
<1>7. \A j \in DOMAIN calls' : Live(j)' => j \in DOMAIN calls /\ Live(j)
  BY <1>3, <1>4 DEF Live
<1>8. QED BY <1>1, <1>3, <1>5, <1>6, <1>7, NobodyAccepted

\* What is known of the notes is inductive.
LEMMA SeenSteps ==
  ASSUME GatewayBounds, GatewayInv, SeenInv, [GatewayNext]_gatewayVars
  PROVE  SeenInv'
<1>1. ASSUME NEW id \in Id, Arrives(id) PROVE SeenInv'
  BY <1>1, AcceptanceRemembers, DropRemembers DEF Arrives
<1>2. ASSUME NEW i \in DOMAIN calls, CallMoves(i) PROVE SeenInv'
  <2>1. CASE Admitted(i)
    <3>1. i \in At("wait") /\ calls[i].at = "wait" /\ ~Released(i) /\ UNCHANGED started
      BY <2>1 DEF Admitted, At, Released
    <3>2. CASE UNCHANGED seen
      <4>1. PICK place \in Places : calls' = Moved(i, place)
        BY <2>1 DEF Admitted, Places
      <4>2. QED BY <3>1, <3>2, <4>1, MoveRemembers
    <3>3. CASE calls' = Moved(i, "refused") /\ Forgets(calls[i].id)
      <4>1. CASE ~UNCHANGED seen
        <5>1. PICK n \in DOMAIN seen : seen[n] = calls[i].id /\ seen' = RemoveAt(seen, n)
          BY <3>3, <4>1 DEF Forgets
        <5>2. QED BY <3>1, <3>3, <5>1, RefusalRemembers
      <4>2. QED BY <3>2, <4>1
    <3>4. QED BY <2>1, <3>2, <3>3 DEF Admitted
  <2>2. CASE Ends(i)
    BY <2>2, MoveRemembers DEF Ends, At, Places
  <2>3. ASSUME NEW yes \in BOOLEAN, Controlled(i, yes) PROVE SeenInv'
    <3>1. i \in At("control") /\ calls[i].at = "control" /\ ~Released(i) /\ UNCHANGED <<seen, started>>
      BY <2>3 DEF Controlled, At, Released
    <3>2. PICK place \in Places : calls' = Moved(i, place)
      BY <2>3 DEF Controlled, Places
    <3>3. QED BY <3>1, <3>2, MoveRemembers
  <2>4. ASSUME NEW yes \in BOOLEAN, Prepared(i, yes) PROVE SeenInv'
    <3>1. i \in At("prepare") /\ calls[i].at = "prepare" /\ ~Released(i) /\ UNCHANGED <<seen, started>>
      BY <2>4 DEF Prepared, At, Released
    <3>2. PICK place \in Places : calls' = Moved(i, place)
      BY <2>4 DEF Prepared, Places
    <3>3. QED BY <3>1, <3>2, MoveRemembers
  <2>5. ASSUME NEW yes \in BOOLEAN, Replied(i, yes) PROVE SeenInv'
    BY <2>5, MoveRemembers DEF Replied, At, Places
  <2>6. QED BY <1>2, <2>1, <2>2, <2>3, <2>4, <2>5 DEF CallMoves
<1>3. CASE StartsQueued
  <2>1. PICK i \in At("queued") : i = queue[scan]
    BY <1>3 DEF StartsQueued, GoesOn, GatewayInv, QueueOK
  <2>2. /\ i \in DOMAIN calls /\ calls[i].at = "queued" /\ "reply" \in Places
        /\ calls' = Moved(i, "reply") /\ started' = Append(started, i) /\ UNCHANGED seen
    BY <1>3, <2>1 DEF StartsQueued, At, Places
  <2>3. QED BY <2>2, MoveRemembers
<1>4. CASE SkipsActive \/ PassEnds \/ GatewayAborts \/ UNCHANGED gatewayVars
  <2>1. UNCHANGED <<calls, seen, started>>
    BY <1>4 DEF SkipsActive, PassEnds, GatewayAborts, gatewayVars
  <2>2. calls \in Seq(Call)
    BY DEF GatewayInv, GatewayTypes
  <2>3. /\ CallsGrow /\ At("refused") \subseteq At("refused")'
        /\ \A j \in DOMAIN calls' : Live(j)' => j \in DOMAIN calls /\ Live(j)
    BY <2>1, <2>2, SeqIsFunction DEF CallsGrow, Released, At, Live
  <2>4. QED BY <2>1, <2>2, <2>3, NobodyAccepted
<1>5. QED BY <1>1, <1>2, <1>3, <1>4, DrainRemembers DEF GatewayNext

LEMMA NotesInvariant == GatewaySpec => []SeenInv
<1>1. GatewayInit => SeenInv
  BY GatewayBounds, SeenStarts
<1>2. GatewayInv /\ SeenInv /\ [GatewayNext]_gatewayVars => SeenInv'
  BY GatewayBounds, SeenSteps
<1>3. QED BY <1>1, <1>2, GatewayInvariant, PTL DEF GatewaySpec

---------------------------------------------------------------------------
(* The promises                                                            *)

\* A request whose destination has been prepared, and for which a thread may have been
\* opened, always finds its place in the queue: handle() counts the requests that are
\* being prepared before its await.
THEOREM PlacesSuffice == GatewaySpec => []PlaceForPrepared
<1>1. GatewayInv => PlaceForPrepared
  BY DEF GatewayInv
<1>2. QED BY <1>1, GatewayInvariant, PTL

\* A conversation has one running turn at most, however many messages arrive for it and
\* in whatever order their preparations end (schedule()).
THEOREM TurnsApart == GatewaySpec => []OneTurnPerConversation
<1>1. GatewayInv => OneTurnPerConversation
  BY DEF GatewayInv
<1>2. QED BY <1>1, GatewayInvariant, PTL

\* The requests of a lane that share a conversation are started in the order of their
\* arrival, although their controls and preparations take any time, and calls in front
\* of them may be handled, turned away or fail (handle(), admissionTails).
THEOREM LanesInOrder == GatewaySpec => []LaneOrder
<1>1. GatewayInv => LaneOrder
  BY DEF GatewayInv, OrderOK
<1>2. QED BY <1>1, GatewayInvariant, PTL

\* Nobody is left waiting in the queue for nothing: the scheduler is run by whoever is
\* queued and by every turn that ends, and each pass starts what can be started.
THEOREM NobodyStranded == GatewaySpec => []NoneStranded
<1>1. GatewayInv => NoneStranded
  <2>1. QueueOK => {queue[n] : n \in DOMAIN queue} = At("queued")
    BY DEF QueueOK
  <2>2. QED BY <2>1 DEF GatewayInv, ScanOK, NoneStranded, ToSet
<1>2. QED BY <1>1, GatewayInvariant, PTL

\* A message that an adapter delivers again is not executed again, although an earlier
\* delivery may still wait, may be turned away and delete the note of a later one: not
\* before as many other messages have come as the gateway remembers, after the executed
\* delivery or between it and an earlier one that is turned away (handle(), seen).
THEOREM NotTwice == GatewaySpec => []ExecutedOnce
<1>1. GatewayInv /\ SeenInv => ExecutedOnce
  <2> SUFFICES ASSUME GatewayInv, SeenInv,
                      NEW i \in ToSet(started), NEW j \in ToSet(started), i < j,
                      calls[i].id = calls[j].id
               PROVE  Outdated(i, j) \/ Forgotten(i)
    BY DEF ExecutedOnce, Forgotten
  <2>1. i \in DOMAIN calls /\ j \in DOMAIN calls
    BY DEF GatewayInv, LanesOK, Turning, At, ToSet
  <2>2. Live(i) /\ Live(j)
    BY DEF Live
  <2>3. QED BY <2>1, <2>2 DEF SeenInv, ExcusedOK
<1>2. QED BY <1>1, GatewayInvariant, NotesInvariant, PTL

---------------------------------------------------------------------------
(* The rate-limit pool: who waits                                          *)

Item == [session : Session, key : CoalesceKey \cup {NoKey}]

\* Every set of numbers has a least one.
LEMMA LeastNumber ==
  ASSUME NEW T \in SUBSET Nat, T # {}
  PROVE  Min(T) \in T /\ \A y \in T : Min(T) <= y
<1>1. PICK x \in T : \A y \in T : ~(<<y, x>> \in OpToRel(<, Nat))
  BY WFMin, NatLessThanWellFounded
<1>2. \A y \in T : ~(y < x)
  BY <1>1 DEF OpToRel
<1>3. \A y \in T : x <= y
  BY <1>2
<1>4. QED BY <1>3 DEF Min

\* The place of a session is that of an item of it, with none before.
LEMMA OldestPlace ==
  ASSUME NEW line \in Seq(Item), NEW s \in Senders(line)
  PROVE  /\ Oldest(line, s) \in DOMAIN line /\ Oldest(line, s) \in Nat
         /\ line[Oldest(line, s)].session = s
         /\ \A i \in DOMAIN line : line[i].session = s => Oldest(line, s) <= i
<1> DEFINE places == {i \in DOMAIN line : line[i].session = s}
<1>1. places \in SUBSET Nat /\ places # {} /\ DOMAIN line \subseteq Nat
  BY DEF Senders
<1>2. Min(places) \in places /\ \A i \in places : Min(places) <= i
  BY <1>1, LeastNumber
<1>3. QED BY <1>1, <1>2 DEF Oldest

\* It is the only such place.
LEMMA OldestUnique ==
  ASSUME NEW line \in Seq(Item), NEW i \in DOMAIN line,
         \A j \in DOMAIN line : line[j].session = line[i].session => i <= j
  PROVE  line[i].session \in Senders(line) /\ Oldest(line, line[i].session) = i
<1>1. line[i].session \in Senders(line)
  BY DEF Senders
<1>2. i \in Nat
  OBVIOUS
<1>3. QED BY <1>1, <1>2, OldestPlace

\* The sessions of a line are sessions, finitely many, each with fewer ahead of it than
\* wait, and no two with the same.
LEMMA WaitingFinite ==
  ASSUME PoolBounds, NEW line \in Seq(Item)
  PROVE  /\ Senders(line) \subseteq Session /\ IsFiniteSet(Senders(line))
         /\ Cardinality(Senders(line)) \in Nat /\ Cardinality(Session) \in Nat
         /\ Cardinality(Senders(line)) <= Cardinality(Session)
<1>1. \A i \in DOMAIN line : line[i] \in Item
  BY SeqIsFunction
<1>2. Senders(line) \subseteq Session
  BY <1>1 DEF Senders, Item
<1>3. QED BY <1>2, FS_Subset, FS_CardinalityType DEF PoolBounds

LEMMA AheadFinite ==
  ASSUME PoolBounds, NEW line \in Seq(Item), NEW s \in Senders(line)
  PROVE  /\ AheadOf(line, s) \subseteq Senders(line) /\ s \notin AheadOf(line, s)
         /\ IsFiniteSet(AheadOf(line, s)) /\ Cardinality(AheadOf(line, s)) \in Nat
         /\ Cardinality(AheadOf(line, s)) < Cardinality(Senders(line))
<1>1. AheadOf(line, s) \subseteq Senders(line) /\ s \notin AheadOf(line, s)
  BY OldestPlace DEF AheadOf
<1>2. IsFiniteSet(Senders(line)) /\ Cardinality(Senders(line)) \in Nat
  BY WaitingFinite
<1>3. /\ IsFiniteSet(AheadOf(line, s)) /\ Cardinality(AheadOf(line, s)) \in Nat
      /\ Cardinality(AheadOf(line, s)) <= Cardinality(Senders(line))
      /\ Cardinality(AheadOf(line, s)) # Cardinality(Senders(line))
  BY <1>1, <1>2, FS_Subset, FS_CardinalityType
<1>4. QED BY <1>1, <1>2, <1>3

\* Of two sessions, one is ahead of the other, with fewer ahead of it.
LEMMA AheadGrows ==
  ASSUME PoolBounds, NEW line \in Seq(Item), NEW s \in Senders(line), NEW t \in Senders(line), s # t
  PROVE  \/ Cardinality(AheadOf(line, s)) < Cardinality(AheadOf(line, t)) /\ s \in AheadOf(line, t)
         \/ Cardinality(AheadOf(line, t)) < Cardinality(AheadOf(line, s)) /\ t \in AheadOf(line, s)
<1>1. \A u, v \in Senders(line) :
        Oldest(line, u) < Oldest(line, v) =>
          Cardinality(AheadOf(line, u)) < Cardinality(AheadOf(line, v)) /\ u \in AheadOf(line, v)
  <2> SUFFICES ASSUME NEW u \in Senders(line), NEW v \in Senders(line),
                      Oldest(line, u) < Oldest(line, v)
               PROVE  Cardinality(AheadOf(line, u)) < Cardinality(AheadOf(line, v)) /\ u \in AheadOf(line, v)
    OBVIOUS
  <2>1. AheadOf(line, u) \subseteq AheadOf(line, v) /\ u \in AheadOf(line, v) /\ u \notin AheadOf(line, u)
    BY OldestPlace DEF AheadOf
  <2>2. /\ IsFiniteSet(AheadOf(line, v)) /\ Cardinality(AheadOf(line, u)) \in Nat
        /\ Cardinality(AheadOf(line, v)) \in Nat
    BY AheadFinite
  <2>3. /\ Cardinality(AheadOf(line, u)) <= Cardinality(AheadOf(line, v))
        /\ Cardinality(AheadOf(line, u)) # Cardinality(AheadOf(line, v))
    BY <2>1, <2>2, FS_Subset
  <2>4. QED BY <2>1, <2>2, <2>3
<1>2. Oldest(line, s) # Oldest(line, t) /\ Oldest(line, s) \in Nat /\ Oldest(line, t) \in Nat
  BY OldestPlace
<1>3. Oldest(line, s) < Oldest(line, t) \/ Oldest(line, t) < Oldest(line, s)
  BY <1>2
<1>4. QED BY <1>1, <1>3

\* So every number below that of the sessions is that of the sessions ahead of one.
LEMMA AheadTakesAll ==
  ASSUME PoolBounds, NEW line \in Seq(Item), NEW n \in 0 .. Cardinality(Senders(line)) - 1
  PROVE  \E s \in Senders(line) : Cardinality(AheadOf(line, s)) = n
<1> DEFINE size == Cardinality(Senders(line))
           rank == [s \in Senders(line) |-> Cardinality(AheadOf(line, s))]
<1>1. IsFiniteSet(Senders(line)) /\ size \in Nat
  BY WaitingFinite
<1>2. rank \in [Senders(line) -> 0 .. size - 1]
  BY <1>1, AheadFinite
<1>3. \A s, t \in Senders(line) : s # t => rank[s] # rank[t]
  <2> SUFFICES ASSUME NEW s \in Senders(line), NEW t \in Senders(line), s # t
               PROVE  Cardinality(AheadOf(line, s)) # Cardinality(AheadOf(line, t))
    OBVIOUS
  <2>1. Cardinality(AheadOf(line, s)) \in Nat /\ Cardinality(AheadOf(line, t)) \in Nat
    BY AheadFinite
  <2>2. QED BY <2>1, AheadGrows
<1>4. rank \in Injection(Senders(line), 0 .. size - 1)
  BY <1>2, <1>3 DEF Injection, IsInjective
<1>5. IsFiniteSet(0 .. size - 1) /\ Cardinality(0 .. size - 1) = size
  BY <1>1, FS_Interval
<1>6. rank \in Surjection(Senders(line), 0 .. size - 1)
  BY <1>1, <1>4, <1>5, FS_Injection
<1>7. \E s \in Senders(line) : rank[s] = n
  BY <1>6 DEF Surjection
<1>8. QED BY <1>7

---------------------------------------------------------------------------
(* The rate-limit pool: the cursor                                         *)

LEMMA Remainders ==
  ASSUME NEW k \in Nat, k >= 1, NEW x \in Nat
  PROVE  /\ x % k \in 0 .. k - 1
         /\ x < k => x % k = x
         /\ x = k => x % k = 0
OBVIOUS

\* When the oldest item of a session u leaves the line, the others that wait keep their
\* order, and u comes back in it no earlier than it was.
LEMMA OthersKeepOrder ==
  ASSUME NEW line \in Seq(Item), NEW u \in Senders(line),
         NEW rest, rest = RemoveAt(line, Oldest(line, u))
  PROVE  /\ rest \in Seq(Item)
         /\ Senders(rest) \subseteq Senders(line) /\ Senders(line) \ {u} \subseteq Senders(rest)
         /\ \A s \in Senders(line) \ {u} :
              AheadOf(rest, s) \subseteq AheadOf(line, s) /\ AheadOf(line, s) \ {u} \subseteq AheadOf(rest, s)
<1> DEFINE p == Oldest(line, u)
<1>1. p \in DOMAIN line /\ p \in Nat /\ Len(line) \in Nat /\ DOMAIN line = 1 .. Len(line)
  BY OldestPlace
<1>2. rest \in Seq(Item) /\ Len(rest) = Len(line) - 1
      /\ \A m \in DOMAIN rest : rest[m] = line[IF m < p THEN m ELSE m + 1]
  BY <1>1, OneLess
<1>3. DOMAIN rest = 1 .. Len(line) - 1
  BY <1>2
<1>4. \A i \in DOMAIN line : line[i].session = u => p <= i
  BY OldestPlace
<1>5. line[p].session = u
  BY OldestPlace
<1> HIDE DEF p
<1>6. Senders(rest) \subseteq Senders(line)
  <2> SUFFICES ASSUME NEW m \in DOMAIN rest PROVE rest[m].session \in Senders(line)
    BY DEF Senders
  <2>1. (IF m < p THEN m ELSE m + 1) \in DOMAIN line
    BY <1>1, <1>3
  <2>2. QED BY <1>2, <2>1 DEF Senders
<1>7. \A t \in Senders(line) \ {u} :
        /\ t \in Senders(rest) /\ Oldest(line, t) # p /\ Oldest(line, t) \in Nat
        /\ Oldest(rest, t) = IF Oldest(line, t) < p THEN Oldest(line, t) ELSE Oldest(line, t) - 1
  <2> SUFFICES ASSUME NEW t \in Senders(line) \ {u}
               PROVE  /\ t \in Senders(rest) /\ Oldest(line, t) # p /\ Oldest(line, t) \in Nat
                      /\ Oldest(rest, t) = IF Oldest(line, t) < p THEN Oldest(line, t)
                                           ELSE Oldest(line, t) - 1
    OBVIOUS
  <2> DEFINE o == Oldest(line, t)
             m == IF o < p THEN o ELSE o - 1
  <2>1. /\ o \in DOMAIN line /\ o \in Nat /\ line[o].session = t
        /\ \A i \in DOMAIN line : line[i].session = t => o <= i
    BY OldestPlace
  <2>2. o # p
    BY <1>5, <2>1
  <2> HIDE DEF o
  <2>3. m \in DOMAIN rest /\ (IF m < p THEN m ELSE m + 1) = o
    BY <1>1, <1>3, <2>1, <2>2
  <2>4. rest[m].session = t
    BY <1>2, <2>1, <2>3
  <2>5. \A j \in DOMAIN rest : rest[j].session = rest[m].session => m <= j
    <3> SUFFICES ASSUME NEW j \in DOMAIN rest, rest[j].session = t PROVE m <= j
      BY <2>4
    <3>1. (IF j < p THEN j ELSE j + 1) \in DOMAIN line /\ j \in Nat
      BY <1>1, <1>3
    <3>2. line[IF j < p THEN j ELSE j + 1].session = t
      BY <1>2
    <3>3. o <= IF j < p THEN j ELSE j + 1
      BY <2>1, <3>1, <3>2
    <3>4. QED BY <1>1, <2>1, <2>2, <3>1, <3>3
  <2> HIDE DEF m
  <2>6. rest[m].session \in Senders(rest) /\ Oldest(rest, rest[m].session) = m
    BY <1>2, <2>3, <2>5, OldestUnique
  <2>7. t \in Senders(rest) /\ Oldest(rest, t) = m
    BY <2>4, <2>6
  <2>8. QED BY <2>1, <2>2, <2>7 DEF m, o
<1>8. u \in Senders(rest) => Oldest(rest, u) \in Nat /\ Oldest(rest, u) >= p
  <2> SUFFICES ASSUME u \in Senders(rest) PROVE Oldest(rest, u) \in Nat /\ Oldest(rest, u) >= p
    OBVIOUS
  <2>1. PICK m : m = Oldest(rest, u)
    OBVIOUS
  <2>2. m \in DOMAIN rest /\ m \in Nat /\ rest[m].session = u
    BY <1>2, <2>1, OldestPlace
  <2>3. (IF m < p THEN m ELSE m + 1) \in DOMAIN line
    BY <1>1, <1>3, <2>2
  <2>4. p <= IF m < p THEN m ELSE m + 1
    BY <1>2, <1>4, <2>2, <2>3
  <2>5. QED BY <1>1, <2>1, <2>2, <2>4
<1>9. ASSUME NEW s \in Senders(line) \ {u}
      PROVE  AheadOf(rest, s) \subseteq AheadOf(line, s) /\ AheadOf(line, s) \ {u} \subseteq AheadOf(rest, s)
  <2>1. ASSUME NEW t \in Senders(line) \ {u}
        PROVE  t \in AheadOf(rest, s) <=> t \in AheadOf(line, s)
    <3>1. Oldest(rest, t) < Oldest(rest, s) <=> Oldest(line, t) < Oldest(line, s)
      BY <1>1, <1>7
    <3>2. QED BY <1>7, <3>1 DEF AheadOf
  <2>2. u \in AheadOf(rest, s) => u \in AheadOf(line, s)
    <3> SUFFICES ASSUME u \in AheadOf(rest, s) PROVE u \in AheadOf(line, s)
      OBVIOUS
    <3>1. u \in Senders(rest) /\ Oldest(rest, u) < Oldest(rest, s)
      BY DEF AheadOf
    <3>2. p < Oldest(line, s)
      BY <1>1, <1>7, <1>8, <3>1
    <3>3. QED BY <3>2 DEF AheadOf, p
  <2>3. AheadOf(rest, s) \subseteq Senders(line) /\ AheadOf(line, s) \subseteq Senders(line)
    BY <1>6 DEF AheadOf
  <2>4. QED BY <2>1, <2>2, <2>3
<1>10. Senders(line) \ {u} \subseteq Senders(rest)
  BY <1>7
<1>11. QED BY <1>2, <1>6, <1>9, <1>10

\* How many more grants may pass a session by, with q sessions ahead of it, the cursor at c
\* and n sessions in all: until the cursor comes to its place, and a round for every one
\* that may then have taken the place ahead of it again.
Rest(q, c, n) == q * (n - 1) + IF c <= q THEN q - c ELSE (n - c) + q

\* A grant to another session uses one of them up.
LEMMA RestFalls ==
  ASSUME NEW n \in Nat, NEW k \in Nat, NEW c \in Nat, NEW q \in Nat, NEW q2 \in Nat, NEW r \in Nat,
         k <= n, c <= k, q < k, r < k, r # q, r = c % k,
         r < q => q2 = q \/ q2 = q - 1,
         r > q => q2 = q
  PROVE  Rest(q2, (r + 1) % k, n) + 1 <= Rest(q, c, n)
<1>1. k >= 2 /\ n >= 2
  OBVIOUS
<1>2. (c < k /\ r = c) \/ (c = k /\ r = 0)
  <2>1. c < k => c % k = c
    BY <1>1, Remainders
  <2>2. c = k => c % k = 0
    BY <1>1, Remainders
  <2>3. QED BY <2>1, <2>2
<1>3. /\ r + 1 < k => (r + 1) % k = r + 1
      /\ r + 1 = k => (r + 1) % k = 0
  <2>1. PICK e \in Nat : e = r + 1
    OBVIOUS
  <2>2. (e < k => e % k = e) /\ (e = k => e % k = 0)
    BY <1>1, Remainders
  <2>3. QED BY <2>1, <2>2
<1>4. PICK d \in Nat : d = (r + 1) % k
  BY <1>3
<1>5. (d = r + 1 /\ r + 1 < k) \/ (d = 0 /\ r + 1 = k)
  BY <1>3, <1>4
<1>6. PICK x \in Nat : x = q * (n - 1)
  BY <1>1
<1>7. q2 = q - 1 => q2 * (n - 1) = x - (n - 1)
  BY <1>1, <1>6
<1>8. Rest(q, c, n) = x + IF c <= q THEN q - c ELSE (n - c) + q
  BY <1>6 DEF Rest
<1>9. Rest(q2, d, n) = q2 * (n - 1) + IF d <= q2 THEN q2 - d ELSE (n - d) + q2
  BY DEF Rest
<1>10. CASE q2 = q
  <2>1. Rest(q2, d, n) = x + IF d <= q THEN q - d ELSE (n - d) + q
    BY <1>6, <1>9, <1>10
  <2>2. (IF d <= q THEN q - d ELSE (n - d) + q) + 1 <= IF c <= q THEN q - c ELSE (n - c) + q
    BY <1>1, <1>2, <1>5
  <2>3. QED BY <1>4, <1>8, <2>1, <2>2
<1>11. CASE q2 = q - 1 /\ r < q
  <2>1. Rest(q2, d, n) = x - (n - 1) + IF d <= q - 1 THEN q - 1 - d ELSE (n - d) + q - 1
    BY <1>7, <1>9, <1>11
  <2>2. (IF d <= q - 1 THEN q - 1 - d ELSE (n - d) + q - 1) + 1 <= (n - 1) + IF c <= q THEN q - c ELSE (n - c) + q
    BY <1>1, <1>2, <1>5, <1>11
  <2>3. QED BY <1>4, <1>8, <2>1, <2>2
<1>12. QED BY <1>10, <1>11

\* They are never more than that.
LEMMA RestBounded ==
  ASSUME NEW n \in Nat, NEW c \in Nat, NEW q \in Nat, q < n, c < n \/ c = 0
  PROVE  Rest(q, c, n) \in Nat /\ Rest(q, c, n) <= n * (n - 1)
<1>1. PICK x \in Nat : x = q * (n - 1)
  OBVIOUS
<1>2. Rest(q, c, n) = x + IF c <= q THEN q - c ELSE (n - c) + q
  BY <1>1 DEF Rest
<1>3. x <= (n - 1) * (n - 1)
  <2>1. PICK y \in Nat : n - 1 = q + y
    BY n - 1 - q \in Nat
  <2>2. (n - 1) * (n - 1) = q * (n - 1) + y * (n - 1)
    BY <2>1
  <2>3. y * (n - 1) \in Nat
    BY <2>1
  <2>4. QED BY <1>1, <2>2, <2>3
<1>4. n * (n - 1) = (n - 1) * (n - 1) + (n - 1)
  OBVIOUS
<1>5. c > q => x <= (n - 1) * (n - 1) - (n - 1)
  <2> SUFFICES ASSUME c > q PROVE x <= (n - 1) * (n - 1) - (n - 1)
    OBVIOUS
  <2>1. PICK y \in Nat : n - 2 = q + y
    BY n - 2 - q \in Nat
  <2>2. (n - 1) * (n - 1) - (n - 1) = (n - 2) * (n - 1)
    OBVIOUS
  <2>3. (n - 2) * (n - 1) = q * (n - 1) + y * (n - 1)
    BY <2>1
  <2>4. y * (n - 1) \in Nat
    BY <2>1
  <2>5. QED BY <1>1, <2>2, <2>3, <2>4
<1>6. PICK z \in Nat : z = (n - 1) * (n - 1)
  OBVIOUS
<1>7. QED BY <1>2, <1>3, <1>4, <1>5, <1>6

---------------------------------------------------------------------------
(* The rate-limit pool: the invariant of a lane                            *)

\* The cursor is one of the sessions; a session has been passed over so often that the
\* grants that may still pass it by keep it below the bound.  The cursor is behind more
\* sessions than wait only after a removal or with at most one that waits.
LaneFair(line, at, counts) ==
  /\ at < Cardinality(Session) \/ at = 0
  /\ \A s \in Session : s \notin Senders(line) => counts[s] = 0
  /\ at > Cardinality(Senders(line)) => \A s \in Session : counts[s] = 0
  /\ at <= Cardinality(Senders(line)) =>
       \A s \in Senders(line) :
         counts[s] + Rest(Cardinality(AheadOf(line, s)), at, Cardinality(Session))
           <= Cardinality(Session) * (Cardinality(Session) - 1)

\* Nobody in a line has more ahead of it than there are other sessions.
LEMMA RestFits ==
  ASSUME PoolBounds, NEW line \in Seq(Item), NEW s \in Senders(line),
         NEW at \in Nat, at < Cardinality(Session) \/ at = 0
  PROVE  /\ Rest(Cardinality(AheadOf(line, s)), at, Cardinality(Session)) \in Nat
         /\ Rest(Cardinality(AheadOf(line, s)), at, Cardinality(Session))
              <= Cardinality(Session) * (Cardinality(Session) - 1)
<1>1. PICK n \in Nat : n = Cardinality(Session)
  BY FS_CardinalityType DEF PoolBounds
<1>2. PICK q \in Nat : q = Cardinality(AheadOf(line, s))
  BY AheadFinite
<1>3. q < n
  BY <1>1, <1>2, AheadFinite, WaitingFinite
<1>4. Rest(q, at, n) \in Nat /\ Rest(q, at, n) <= n * (n - 1)
  BY <1>1, <1>3, RestBounded
<1>5. QED BY <1>1, <1>2, <1>4

\* Where nobody has been passed over, the lane is fair.
LEMMA FairFromNone ==
  ASSUME PoolBounds, NEW line \in Seq(Item), NEW at \in Nat, NEW counts,
         at < Cardinality(Session) \/ at = 0, \A s \in Session : counts[s] = 0
  PROVE  LaneFair(line, at, counts)
<1>1. \A s \in Senders(line) :
        counts[s] + Rest(Cardinality(AheadOf(line, s)), at, Cardinality(Session))
          <= Cardinality(Session) * (Cardinality(Session) - 1)
  <2> SUFFICES ASSUME NEW s \in Senders(line)
               PROVE  counts[s] + Rest(Cardinality(AheadOf(line, s)), at, Cardinality(Session))
                        <= Cardinality(Session) * (Cardinality(Session) - 1)
    OBVIOUS
  <2>1. counts[s] = 0
    BY WaitingFinite
  <2>2. QED BY <2>1, RestFits
<1>2. QED BY <1>1 DEF LaneFair

\* An item that comes is behind all that wait.
LEMMA AppendKeepsOrder ==
  ASSUME NEW line \in Seq(Item), NEW item \in Item, NEW longer, longer = Append(line, item)
  PROVE  /\ longer \in Seq(Item) /\ Senders(longer) = Senders(line) \cup {item.session}
         /\ \A s \in Senders(line) : AheadOf(longer, s) = AheadOf(line, s)
<1>1. /\ longer \in Seq(Item) /\ Len(line) \in Nat /\ DOMAIN line = 1 .. Len(line)
      /\ DOMAIN longer = 1 .. Len(line) + 1 /\ longer[Len(line) + 1] = item
      /\ \A i \in 1 .. Len(line) : longer[i] = line[i]
  OBVIOUS
<1>2. Senders(longer) = Senders(line) \cup {item.session}
  <2>1. \A i \in DOMAIN line : longer[i].session = line[i].session /\ i \in DOMAIN longer
    BY <1>1
  <2>2. \A i \in DOMAIN longer : i \in DOMAIN line \/ i = Len(line) + 1
    BY <1>1
  <2>3. Len(line) + 1 \in DOMAIN longer
    BY <1>1
  <2>4. QED BY <1>1, <2>1, <2>2, <2>3 DEF Senders
<1>3. \A s \in Senders(line) : Oldest(longer, s) = Oldest(line, s)
  <2> SUFFICES ASSUME NEW s \in Senders(line) PROVE Oldest(longer, s) = Oldest(line, s)
    OBVIOUS
  <2>1. PICK o : o = Oldest(line, s)
    OBVIOUS
  <2>2. o \in DOMAIN line /\ line[o].session = s /\ \A i \in DOMAIN line : line[i].session = s => o <= i
    BY <2>1, OldestPlace
  <2>3. o \in DOMAIN longer /\ longer[o].session = s
    BY <1>1, <2>2
  <2>4. \A i \in DOMAIN longer : longer[i].session = longer[o].session => o <= i
    BY <1>1, <2>2, <2>3
  <2>5. Oldest(longer, longer[o].session) = o
    BY <1>1, <2>3, <2>4, OldestUnique
  <2>6. QED BY <2>1, <2>3, <2>5
<1>4. \A s \in Senders(line) : Oldest(line, s) \in 1 .. Len(line)
  BY <1>1, OldestPlace
<1>5. item.session \in Senders(line) \/ Oldest(longer, item.session) = Len(line) + 1
  <2> SUFFICES ASSUME item.session \notin Senders(line)
               PROVE  Oldest(longer, item.session) = Len(line) + 1
    OBVIOUS
  <2>1. PICK o : o = Len(line) + 1
    OBVIOUS
  <2>2. \A i \in DOMAIN line : line[i].session # item.session
    BY DEF Senders
  <2>3. \A i \in DOMAIN longer : longer[i].session = longer[o].session => o <= i
    BY <1>1, <2>1, <2>2
  <2>4. o \in DOMAIN longer /\ longer[o].session = item.session
    BY <1>1, <2>1
  <2>5. Oldest(longer, longer[o].session) = o
    BY <1>1, <2>3, <2>4, OldestUnique
  <2>6. QED BY <2>1, <2>4, <2>5
<1>6. \A s \in Senders(line) : AheadOf(longer, s) = AheadOf(line, s)
  <2> SUFFICES ASSUME NEW s \in Senders(line) PROVE AheadOf(longer, s) = AheadOf(line, s)
    OBVIOUS
  <2>1. \A t \in Senders(line) : t \in AheadOf(longer, s) <=> t \in AheadOf(line, s)
    BY <1>2, <1>3 DEF AheadOf
  <2>2. item.session \notin Senders(line) => item.session \notin AheadOf(longer, s)
    BY <1>1, <1>3, <1>4, <1>5 DEF AheadOf
  <2>3. AheadOf(longer, s) \subseteq Senders(line) \cup {item.session} /\ AheadOf(line, s) \subseteq Senders(line)
    BY <1>2 DEF AheadOf
  <2>4. QED BY <2>1, <2>2, <2>3
<1>7. QED BY <1>1, <1>2, <1>6

LEMMA AppendStaysFair ==
  ASSUME PoolBounds, NEW line \in Seq(Item), NEW at \in Nat, NEW counts,
         LaneFair(line, at, counts), NEW item \in Item
  PROVE  LaneFair(Append(line, item), at, counts)
<1>1. PICK longer : longer = Append(line, item)
  OBVIOUS
<1>2. /\ longer \in Seq(Item) /\ Senders(longer) = Senders(line) \cup {item.session}
      /\ \A s \in Senders(line) : AheadOf(longer, s) = AheadOf(line, s)
  BY <1>1, AppendKeepsOrder
<1>3. at < Cardinality(Session) \/ at = 0
  BY DEF LaneFair
<1>4. CASE at > Cardinality(Senders(line))
  <2>1. \A s \in Session : counts[s] = 0
    BY <1>4 DEF LaneFair
  <2>2. QED BY <1>1, <1>2, <1>3, <2>1, FairFromNone
<1>5. CASE ~(at > Cardinality(Senders(line)))
  <2>1. /\ Cardinality(Senders(line)) \in Nat /\ Cardinality(Senders(longer)) \in Nat
        /\ Cardinality(Senders(line)) <= Cardinality(Senders(longer))
    BY <1>2, WaitingFinite, FS_Subset
  <2>2. at <= Cardinality(Senders(line)) /\ ~(at > Cardinality(Senders(longer)))
    BY <1>5, <2>1
  <2>3. \A s \in Senders(longer) :
          counts[s] + Rest(Cardinality(AheadOf(longer, s)), at, Cardinality(Session))
            <= Cardinality(Session) * (Cardinality(Session) - 1)
    <3> SUFFICES ASSUME NEW s \in Senders(longer)
                 PROVE  counts[s] + Rest(Cardinality(AheadOf(longer, s)), at, Cardinality(Session))
                          <= Cardinality(Session) * (Cardinality(Session) - 1)
      OBVIOUS
    <3>1. CASE s \in Senders(line)
      BY <1>2, <2>2, <3>1 DEF LaneFair
    <3>2. CASE s \notin Senders(line)
      <4>1. counts[s] = 0
        BY <1>2, <3>2, WaitingFinite DEF LaneFair
      <4>2. QED BY <1>2, <1>3, <4>1, RestFits
    <3>3. QED BY <3>1, <3>2
  <2>4. \A s \in Session : s \notin Senders(longer) => counts[s] = 0
    BY <1>2 DEF LaneFair
  <2>5. LaneFair(longer, at, counts)
    BY <1>3, <2>2, <2>3, <2>4 DEF LaneFair
  <2>6. QED BY <1>1, <2>5
<1>6. QED BY <1>4, <1>5

\* What the cursor picks in a line that is not empty is a session that waits there.
LEMMA PickFairPicks ==
  ASSUME PoolBounds, NEW line \in Seq(Item), line # <<>>, NEW at \in Nat
  PROVE  /\ Cardinality(Senders(line)) >= 1
         /\ PickFair(line, at).session \in Senders(line)
         /\ Cardinality(AheadOf(line, PickFair(line, at).session)) = at % Cardinality(Senders(line))
         /\ PickFair(line, at).next =
              IF Cardinality(Senders(line)) > 1
              THEN ((at % Cardinality(Senders(line))) + 1) % Cardinality(Senders(line)) ELSE at
<1>1. PICK k \in Nat : k = Cardinality(Senders(line))
  BY WaitingFinite
<1>2. k >= 1
  <2>1. 1 \in DOMAIN line
    OBVIOUS
  <2>2. line[1].session \in Senders(line)
    BY <2>1 DEF Senders
  <2>3. Senders(line) # {}
    BY <2>2
  <2>4. k # 0
    BY <1>1, <2>3, WaitingFinite, FS_EmptySet
  <2>5. QED BY <2>4
<1>3. at % k \in 0 .. k - 1
  BY <1>2, Remainders
<1>4. PICK r : r = at % k
  OBVIOUS
<1>5. \E s \in Senders(line) : Cardinality(AheadOf(line, s)) = r
  BY <1>1, <1>3, <1>4, AheadTakesAll
<1>6. PickFair(line, at).session = CHOOSE s \in Senders(line) : Cardinality(AheadOf(line, s)) = r
  BY <1>1, <1>4 DEF PickFair
<1>7. PickFair(line, at).session \in Senders(line) /\ Cardinality(AheadOf(line, PickFair(line, at).session)) = r
  BY <1>5, <1>6
<1>8. PickFair(line, at).next = IF k > 1 THEN ((at % k) + 1) % k ELSE at
  BY <1>1 DEF PickFair
<1>9. QED BY <1>1, <1>2, <1>4, <1>7, <1>8

\* A grant keeps the lane fair, and the cursor among the sessions.
LEMMA GrantStaysFair ==
  ASSUME PoolBounds, NEW line \in Seq(Item), line # <<>>, NEW at \in Nat,
         NEW counts \in [Session -> Nat], LaneFair(line, at, counts),
         NEW u, u = PickFair(line, at).session, NEW d, d = PickFair(line, at).next,
         NEW rest, rest = RemoveAt(line, Oldest(line, u)),
         NEW after, after = Passing(line, counts, u)
  PROVE  /\ rest \in Seq(Item) /\ d \in Nat /\ after \in [Session -> Nat]
         /\ LaneFair(rest, d, after)
<1>1. PICK k \in Nat : k = Cardinality(Senders(line))
  BY WaitingFinite
<1>2. PICK n \in Nat : n = Cardinality(Session)
  BY WaitingFinite
<1>3. PICK r : r = at % k
  OBVIOUS
<1>4. /\ k >= 1 /\ u \in Senders(line) /\ Cardinality(AheadOf(line, u)) = r
      /\ d = IF k > 1 THEN (r + 1) % k ELSE at
  BY <1>1, <1>3, PickFairPicks
<1>5. r \in Nat /\ r < k /\ r % k = r
  <2>1. r \in 0 .. k - 1
    BY <1>3, <1>4, Remainders
  <2>2. r \in Nat /\ r < k
    BY <2>1
  <2>3. QED BY <1>4, <2>2, Remainders
<1>6. k > 1 => d \in 0 .. k - 1
  <2>1. PICK e \in Nat : e = r + 1
    BY <1>5
  <2>2. e % k \in 0 .. k - 1
    BY <1>4, <2>1, Remainders
  <2>3. QED BY <1>4, <2>1, <2>2
<1>7. k <= n
  BY <1>1, <1>2, WaitingFinite
<1>8. d \in Nat /\ (d < n \/ d = 0)
  BY <1>2, <1>4, <1>6, <1>7 DEF LaneFair
<1>9. /\ rest \in Seq(Item) /\ Senders(rest) \subseteq Senders(line) /\ Senders(line) \ {u} \subseteq Senders(rest)
      /\ \A s \in Senders(line) \ {u} :
           AheadOf(rest, s) \subseteq AheadOf(line, s) /\ AheadOf(line, s) \ {u} \subseteq AheadOf(rest, s)
  BY <1>4, OthersKeepOrder
<1>10. after \in [Session -> Nat]
       /\ \A s \in Session : after[s] = IF s = u \/ s \notin Senders(line) THEN 0 ELSE counts[s] + 1
  BY DEF Passing
<1>11. CASE k = 1
  <2>1. Senders(line) = {u}
    <3>1. Cardinality({u}) = 1 /\ {u} \in SUBSET Senders(line)
      BY <1>4, FS_Singleton
    <3>2. QED BY <1>1, <1>11, <3>1, WaitingFinite, FS_Subset
  <2>2. \A s \in Session : after[s] = 0
    BY <1>10, <2>1
  <2>3. LaneFair(rest, d, after)
    BY <1>2, <1>8, <1>9, <2>2, FairFromNone
  <2>4. QED BY <1>8, <1>9, <1>10, <2>3
<1>12. CASE k > 1
  <2>1. PICK k2 \in Nat : k2 = Cardinality(Senders(rest))
    BY <1>9, WaitingFinite
  <2>2. k - 1 <= k2
    <3>1. IsFiniteSet(Senders(line) \ {u}) /\ Cardinality(Senders(line) \ {u}) = k - 1
      BY <1>1, <1>4, WaitingFinite, FS_RemoveElement
    <3>2. QED BY <1>9, <2>1, <3>1, WaitingFinite, FS_Subset
  <2>3. d <= k2
    BY <1>6, <1>12, <2>2
  <2>4. \A s \in Session : s \notin Senders(rest) => after[s] = 0
    BY <1>9, <1>10
  <2>5. ASSUME NEW s \in Senders(line) \ {u}
        PROVE  after[s] + Rest(Cardinality(AheadOf(rest, s)), d, n) <= n * (n - 1)
    <3>1. PICK q \in Nat : q = Cardinality(AheadOf(line, s))
      BY AheadFinite
    <3>2. s \in Senders(rest) /\ s \in Session
      BY <1>9, WaitingFinite
    <3>3. PICK q2 \in Nat : q2 = Cardinality(AheadOf(rest, s))
      BY <1>9, <3>2, AheadFinite
    <3>4. q < k /\ q # r
      <4>1. q < k
        BY <1>1, <3>1, AheadFinite
      <4>2. Cardinality(AheadOf(line, s)) # Cardinality(AheadOf(line, u))
        BY <1>4, <1>5, <3>1, AheadGrows
      <4>3. QED BY <1>4, <3>1, <4>1, <4>2
    <3>5. r < q => q2 = q \/ q2 = q - 1
      <4>1. /\ IsFiniteSet(AheadOf(line, s)) /\ IsFiniteSet(AheadOf(line, s) \ {u})
            /\ Cardinality(AheadOf(line, s) \ {u}) \in {q, q - 1}
        BY <3>1, AheadFinite, FS_RemoveElement
      <4>2. q2 <= q
        BY <1>9, <3>1, <3>3, <4>1, FS_Subset
      <4>3. IsFiniteSet(AheadOf(rest, s))
        BY <1>9, <3>2, AheadFinite
      <4>4. Cardinality(AheadOf(line, s) \ {u}) <= q2
        BY <1>9, <3>3, <4>3, FS_Subset
      <4>5. QED BY <4>1, <4>2, <4>4
    <3>6. r > q => q2 = q
      <4> SUFFICES ASSUME r > q PROVE q2 = q
        OBVIOUS
      <4>1. u \notin AheadOf(line, s)
        <5>1. ~(Cardinality(AheadOf(line, u)) < Cardinality(AheadOf(line, s)))
          BY <1>4, <1>5, <3>1
        <5>2. s \in AheadOf(line, u)
          BY <1>4, <5>1, AheadGrows
        <5>3. QED BY <1>4, <5>2, OldestPlace DEF AheadOf
      <4>2. AheadOf(rest, s) = AheadOf(line, s)
        BY <1>9, <4>1
      <4>3. QED BY <3>1, <3>3, <4>2
    <3>7. after[s] = counts[s] + 1 /\ counts[s] \in Nat
      BY <1>10, <3>2
    <3>8. d = (r + 1) % k
      BY <1>4, <1>12
    <3>9. CASE at <= k
      <4>1. Rest(q2, (r + 1) % k, n) + 1 <= Rest(q, at, n)
        BY <1>3, <1>5, <1>7, <3>4, <3>5, <3>6, <3>9, RestFalls
      <4>2. counts[s] + Rest(q, at, n) <= n * (n - 1)
        BY <1>1, <1>2, <3>1, <3>9 DEF LaneFair
      <4>3. Rest(q, at, n) \in Nat
        BY <1>2, <3>1, RestFits DEF LaneFair
      <4>4. Rest(q2, d, n) \in Nat
        BY <1>2, <1>8, <1>9, <3>2, <3>3, RestFits
      <4>5. PICK m \in Int : m = n * (n - 1)
        OBVIOUS
      <4>6. QED BY <3>3, <3>7, <3>8, <4>1, <4>2, <4>3, <4>4, <4>5
    <3>10. CASE at > k
      <4>1. Rest(q2, (r + 1) % k, n) + 1 <= Rest(q, r, n)
        <5>1. r <= k /\ r = r % k /\ r # q
          BY <1>5, <3>4
        <5>2. QED BY <1>5, <1>7, <3>4, <3>5, <3>6, <5>1, RestFalls
      <4>2. counts[s] = 0
        BY <1>1, <3>2, <3>10 DEF LaneFair
      <4>3. Rest(q, r, n) \in Nat /\ Rest(q, r, n) <= n * (n - 1)
        BY <1>2, <1>5, <1>7, <3>1, RestFits
      <4>4. Rest(q2, d, n) \in Nat
        BY <1>2, <1>8, <1>9, <3>2, <3>3, RestFits
      <4>5. PICK m \in Int : m = n * (n - 1)
        OBVIOUS
      <4>6. QED BY <3>3, <3>7, <3>8, <4>1, <4>2, <4>3, <4>4, <4>5
    <3>11. at <= k \/ at > k
      OBVIOUS
    <3>12. QED BY <3>9, <3>10, <3>11
  <2>6. ASSUME u \in Senders(rest)
        PROVE  after[u] + Rest(Cardinality(AheadOf(rest, u)), d, n) <= n * (n - 1)
    <3>1. after[u] = 0
      BY <1>4, <1>10, WaitingFinite
    <3>2. QED BY <1>2, <1>8, <1>9, <2>6, <3>1, RestFits
  <2>7. \A s \in Senders(rest) : after[s] + Rest(Cardinality(AheadOf(rest, s)), d, n) <= n * (n - 1)
    BY <1>9, <2>5, <2>6
  <2>8. LaneFair(rest, d, after)
    BY <1>2, <1>8, <2>1, <2>3, <2>4, <2>7 DEF LaneFair
  <2>9. QED BY <1>8, <1>9, <1>10, <2>8
<1>13. QED BY <1>4, <1>11, <1>12

---------------------------------------------------------------------------
(* The rate-limit pool: the theorem                                        *)

PoolTypes ==
  /\ lanes \in [LaneSet -> Seq(Item)] /\ cursor \in [LaneSet -> Nat]
  /\ passed \in [LaneSet -> [Session -> Nat]]

PoolInv == PoolTypes /\ \A l \in LaneSet : LaneFair(lanes[l], cursor[l], passed[l])

LEMMA PoolStarts == PoolBounds /\ PoolInit => PoolInv
<1> SUFFICES ASSUME PoolBounds, PoolInit PROVE PoolInv
  OBVIOUS
<1>1. \A s \in Session : NobodyPassed[s] = 0
  BY DEF NobodyPassed
<1>2. PoolTypes
  BY DEF PoolInit, PoolTypes, NobodyPassed
<1>3. ASSUME NEW l \in LaneSet PROVE LaneFair(lanes[l], cursor[l], passed[l])
  <2>1. lanes[l] = <<>> /\ cursor[l] = 0 /\ passed[l] = NobodyPassed /\ <<>> \in Seq(Item)
    BY <1>3 DEF PoolInit
  <2>2. PICK at \in Nat : at = 0
    OBVIOUS
  <2>3. PICK line \in Seq(Item) : line = <<>>
    BY <2>1
  <2>4. at < Cardinality(Session) \/ at = 0
    BY <2>2
  <2>5. LaneFair(line, at, NobodyPassed)
    BY <1>1, <2>4, FairFromNone
  <2>6. QED BY <2>1, <2>2, <2>3, <2>5
<1>4. QED BY <1>2, <1>3 DEF PoolInv

\* A step that changes one lane, and leaves that one fair, keeps the invariant.
LEMMA OneLane ==
  ASSUME PoolInv, NEW l \in LaneSet, NEW line \in Seq(Item), NEW at \in Nat, NEW counts \in [Session -> Nat],
         LaneFair(line, at, counts), lanes' = [lanes EXCEPT ![l] = line],
         cursor' = [cursor EXCEPT ![l] = at], passed' = [passed EXCEPT ![l] = counts]
  PROVE  PoolInv'
<1>1. PoolTypes'
  BY DEF PoolInv, PoolTypes
<1>2. ASSUME NEW m \in LaneSet PROVE LaneFair(lanes'[m], cursor'[m], passed'[m])
  <2>1. CASE m = l
    <3>1. lanes'[m] = line /\ cursor'[m] = at /\ passed'[m] = counts
      BY <2>1 DEF PoolInv, PoolTypes
    <3>2. QED BY <3>1
  <2>2. CASE m # l
    <3>1. lanes'[m] = lanes[m] /\ cursor'[m] = cursor[m] /\ passed'[m] = passed[m]
      BY <2>2 DEF PoolInv, PoolTypes
    <3>2. QED BY <1>2, <3>1 DEF PoolInv
  <2>3. QED BY <2>1, <2>2
<1>3. (\A m \in LaneSet : LaneFair(lanes[m], cursor[m], passed[m]))'
  BY <1>2 DEF LaneSet, LaneFair
<1>4. QED BY <1>1, <1>3 DEF PoolInv

LEMMA PoolSteps ==
  ASSUME PoolBounds, PoolInv, PoolNext \/ UNCHANGED poolVars
  PROVE  PoolInv'
<1>1. PoolTypes
  BY DEF PoolInv
<1>2. ASSUME UNCHANGED <<lanes, cursor, passed>> PROVE PoolInv'
  BY <1>2 DEF PoolInv, PoolTypes, LaneSet, LaneFair
<1>3. ASSUME NEW l \in LaneSet, NEW s \in Session, NEW k \in CoalesceKey \cup {NoKey},
             Submit(l, [session |-> s, key |-> k])
      PROVE  PoolInv'
  <2>1. PICK item \in Item : item = [session |-> s, key |-> k]
    BY DEF Item
  <2>2. CASE UNCHANGED lanes
    BY <1>2, <1>3, <2>2 DEF Submit
  <2>3. CASE lanes' = [lanes EXCEPT ![l] = Append(@, item)]
    <3>1. PICK line : line = Append(lanes[l], item)
      OBVIOUS
    <3>2. lanes[l] \in Seq(Item) /\ cursor[l] \in Nat /\ passed[l] \in [Session -> Nat]
      BY <1>1 DEF PoolTypes
    <3>3. line \in Seq(Item)
      BY <3>1, <3>2
    <3>4. LaneFair(line, cursor[l], passed[l])
      BY <3>1, <3>2, AppendStaysFair DEF PoolInv
    <3>5. /\ lanes' = [lanes EXCEPT ![l] = line]
          /\ cursor' = [cursor EXCEPT ![l] = cursor[l]] /\ passed' = [passed EXCEPT ![l] = passed[l]]
      BY <1>1, <1>3, <2>3, <3>1 DEF PoolTypes, Submit
    <3>6. QED BY <3>2, <3>3, <3>4, <3>5, OneLane
  <2>4. QED BY <1>3, <2>1, <2>2, <2>3 DEF Submit
<1>4. ASSUME NEW n \in DOMAIN Lanes, TakesNext(n) PROVE PoolInv'
  <2>1. PICK l \in LaneSet : l = Lanes[n]
    BY DEF LaneSet, ToSet
  <2>2. lanes[l] \in Seq(Item) /\ cursor[l] \in Nat /\ passed[l] \in [Session -> Nat] /\ lanes[l] # <<>>
    BY <1>1, <1>4, <2>1 DEF PoolTypes, TakesNext
  <2>3. PICK u : u = PickFair(lanes[l], cursor[l]).session
    OBVIOUS
  <2>4. PICK d : d = PickFair(lanes[l], cursor[l]).next
    OBVIOUS
  <2>5. PICK rest : rest = RemoveAt(lanes[l], Oldest(lanes[l], u))
    OBVIOUS
  <2>6. PICK after : after = Passing(lanes[l], passed[l], u)
    OBVIOUS
  <2>7. LaneFair(lanes[l], cursor[l], passed[l])
    BY DEF PoolInv
  <2>8. /\ rest \in Seq(Item) /\ d \in Nat /\ after \in [Session -> Nat]
        /\ LaneFair(rest, d, after)
    BY <2>2, <2>3, <2>4, <2>5, <2>6, <2>7, GrantStaysFair
  <2>9. /\ lanes' = [lanes EXCEPT ![l] = rest] /\ cursor' = [cursor EXCEPT ![l] = d]
        /\ passed' = [passed EXCEPT ![l] = after]
    BY <1>1, <1>4, <2>1, <2>3, <2>4, <2>5, <2>6 DEF PoolTypes, TakesNext
  <2>10. QED BY <2>8, <2>9, OneLane
<1>5. ASSUME NEW l \in LaneSet, NEW i \in DOMAIN lanes[l], RemoveWhere(l, i) PROVE PoolInv'
  <2>1. lanes[l] \in Seq(Item) /\ cursor[l] \in Nat
    BY <1>1 DEF PoolTypes
  <2>2. PICK rest : rest = RemoveAt(lanes[l], i)
    OBVIOUS
  <2>3. rest \in Seq(Item)
    BY <2>1, <2>2, OneLess
  <2>4. NobodyPassed \in [Session -> Nat] /\ \A s \in Session : NobodyPassed[s] = 0
    BY DEF NobodyPassed
  <2>5. cursor[l] < Cardinality(Session) \/ cursor[l] = 0
    BY DEF PoolInv, LaneFair
  <2>6. LaneFair(rest, cursor[l], NobodyPassed)
    BY <2>1, <2>3, <2>4, <2>5, FairFromNone
  <2>7. /\ lanes' = [lanes EXCEPT ![l] = rest] /\ cursor' = [cursor EXCEPT ![l] = cursor[l]]
        /\ passed' = [passed EXCEPT ![l] = NobodyPassed]
    BY <1>1, <1>5, <2>2 DEF PoolTypes, RemoveWhere
  <2>8. QED BY <2>1, <2>3, <2>4, <2>6, <2>7, OneLane
<1>6. CASE Drain \/ DrainEnds \/ Refill
  BY <1>2, <1>6 DEF Drain, DrainEnds, Refill
<1>7. CASE UNCHANGED poolVars
  BY <1>2, <1>7 DEF poolVars
<1>8. QED BY <1>3, <1>4, <1>5, <1>6, <1>7 DEF PoolNext

\* What waits in a lane is passed over no more than so often.
LEMMA PoolKeepsFair == PoolBounds /\ PoolInv => NotStarved
<1> SUFFICES ASSUME PoolBounds, PoolInv, NEW l \in LaneSet, NEW s \in Session, s \in Senders(lanes[l])
             PROVE  passed[l][s] <= Cardinality(Session) * (Cardinality(Session) - 1)
  BY DEF NotStarved
<1>1. PICK n \in Nat : n = Cardinality(Session)
  BY FS_CardinalityType DEF PoolBounds
<1>2. PICK x \in Int : x = n * (n - 1)
  OBVIOUS
<1>3. /\ lanes[l] \in Seq(Item) /\ cursor[l] \in Nat /\ passed[l] \in [Session -> Nat]
      /\ LaneFair(lanes[l], cursor[l], passed[l])
  BY DEF PoolInv, PoolTypes
<1>4. PICK q : q = Rest(Cardinality(AheadOf(lanes[l], s)), cursor[l], n)
  OBVIOUS
<1>5. q \in Nat /\ q <= x
  BY <1>1, <1>2, <1>3, <1>4, RestFits DEF LaneFair
<1>6. passed[l][s] \in Nat
  BY <1>3
<1>7. passed[l][s] = 0 \/ passed[l][s] + q <= x
  <2>1. Cardinality(Senders(lanes[l])) \in Nat
    BY <1>3, WaitingFinite
  <2>2. QED BY <1>1, <1>2, <1>3, <1>4, <2>1 DEF LaneFair
<1>8. passed[l][s] <= x
  BY <1>2, <1>5, <1>6, <1>7
<1>9. QED BY <1>1, <1>2, <1>8

\* A session that waits in a lane is passed over at most n(n-1) times, for any number n of
\* sessions, any lanes and any submissions (pickFairIndex).
THEOREM NobodyStarves == PoolSpec => []NotStarved
<1>1. PoolInit => PoolInv
  BY PoolBounds, PoolStarts
<1>2. PoolInv /\ [PoolNext]_poolVars => PoolInv'
  BY PoolBounds, PoolSteps
<1>3. PoolInv => NotStarved
  BY PoolBounds, PoolKeepsFair
<1>4. QED BY <1>1, <1>2, <1>3, PTL DEF PoolSpec
=============================================================================

-------------------------- MODULE NotificationProofs --------------------------
(***************************************************************************)
(* The notification daemons, for any limits and any number of deaths: the  *)
(* offset of the Telegram daemon and the requests it repeats, the topic    *)
(* each session has, and the prompts Discord sends to a session.           *)
(*                                                                         *)
(* The batch at hand begins with the update the offset on disk names, and  *)
(* a handler that is about to save has an update that took effect, was     *)
(* answered, had nobody to go to or is of the kinds a topic may swallow.   *)
(* What a session has acknowledged in this life lies behind the offset, or *)
(* is the update at hand, which goes on to be saved whatever becomes of    *)
(* its answer.                                                             *)
(*                                                                         *)
(* A topic that is not lost is the one its session has in the registry, or *)
(* is on its way there: then the registry has none, and the one call that  *)
(* the session's entry of inflight names has made it.                      *)
(*                                                                         *)
(* A prompt has one place at a time, in the daemon's line, in a request on *)
(* a wire or in the session, and is over once it is in none of them.  What *)
(* the session says of a prompt it says when it is over, and in favour of  *)
(* it only if it ran undisturbed under the grant it was queued under; one  *)
(* that goes on holds its socket, which still waits for it, has its cancel *)
(* behind it on the wire or is no longer the daemon's.                     *)
(***************************************************************************)
EXTENDS TelegramDaemon, SessionTopics, RemoteControl, TLAPS

Stations == {"off", "poll", "next", "ack", "reply", "save"}

Next1 == LaterOf(stored, 1)

PollTypes ==
  /\ posted \in Nat /\ stored \in Nat /\ offset = stored /\ batch \in Seq(Nat)
  /\ loop \in Stations /\ ackedNow \subseteq Nat

\* The updates at hand are those from the offset on, in their order.
BatchFits ==
  /\ \A i \in DOMAIN batch : batch[i] = Next1 + i - 1
  /\ loop \in {"ack", "reply", "save"} => batch # <<>>

HandledNow ==
  /\ loop = "save" => Settled(Update)
  /\ loop = "reply" => /\ verdict => Update \in acked
                       /\ reply = "yes" => Update \in told

AckedBehind ==
  \A u \in ackedNow : /\ loop \in {"poll", "next", "ack"} => u < Next1
                      /\ loop = "reply" /\ ~verdict => u < Next1
                      /\ loop \in {"reply", "save"} => u <= Next1

CursorInv == PollTypes /\ BatchFits /\ HandledNow /\ AckedBehind /\ CursorBehindWork

\* There is no update, and the daemon is off.
LEMMA TelegramStarts == TelegramInit => CursorInv
<1> SUFFICES ASSUME TelegramInit PROVE CursorInv
  OBVIOUS
<1>1. batch = <<>> /\ loop = "off" /\ stored = 0 /\ ackedNow = {} /\ posted = 0 /\ offset = 0
  BY DEF TelegramInit
<1>2. PollTypes
  BY <1>1 DEF PollTypes, Stations
<1>3. BatchFits /\ HandledNow /\ AckedBehind
  BY <1>1 DEF BatchFits, HandledNow, AckedBehind
<1>4. CursorBehindWork
  BY <1>1 DEF CursorBehindWork
<1>5. QED BY <1>2, <1>3, <1>4 DEF CursorInv

\* The update at hand is the next one.
LEMMA UpdateNext ==
  ASSUME CursorInv, batch # <<>>
  PROVE  Update = Next1 /\ Next1 \in Nat /\ Tail(batch) \in Seq(Nat)
         /\ \A i \in DOMAIN Tail(batch) : Tail(batch)[i] = Next1 + i
<1>1. batch \in Seq(Nat) /\ Len(batch) \in Nat \ {0} /\ DOMAIN batch = 1 .. Len(batch) /\ stored \in Nat
  BY DEF CursorInv, PollTypes
<1>2. Next1 \in Nat /\ \A i \in 1 .. Len(batch) : batch[i] = Next1 + i - 1
  BY <1>1 DEF CursorInv, BatchFits, Next1, LaterOf
<1>3. Head(batch) = batch[1] /\ 1 \in 1 .. Len(batch)
  BY <1>1
<1>4. /\ Tail(batch) \in Seq(Nat) /\ DOMAIN Tail(batch) = 1 .. Len(batch) - 1
      /\ \A i \in 1 .. Len(batch) - 1 : Tail(batch)[i] = batch[i + 1]
  BY <1>1
<1> HIDE DEF Next1
<1>5. Update = Next1
  BY <1>2, <1>3 DEF Update
<1>6. \A i \in 1 .. Len(batch) - 1 : i + 1 \in 1 .. Len(batch) /\ Next1 + (i + 1) - 1 = Next1 + i
  BY <1>1, <1>2
<1>7. QED BY <1>2, <1>4, <1>5, <1>6

---------------------------------------------------------------------------
(* The handler                                                             *)

\* The end of a request: a topic message is done with it or tried again, a command
\* has its answer on the way.
LEMMA ResolvedKeeps ==
  ASSUME CursorInv, loop = "ack", NEW ok, Resolved(ok)
  PROVE  CursorInv'
<1>1. batch # <<>> /\ Update = Next1 /\ Next1 \in Nat
  BY UpdateNext DEF CursorInv, BatchFits
<1>2. UNCHANGED <<posted, stored, offset, told, unheard, unsaid>> /\ verdict' = ok /\ acked \subseteq acked'
      /\ Next1' = Next1
  BY DEF Resolved, Next1
<1>3. CASE KindOf[Update] \notin {"topic", "photo"}
  <2>1. loop' = "reply" /\ UNCHANGED batch /\ reply' # "yes"
    BY <1>3 DEF Resolved, Answers
  <2>2. (ok => Update \in acked') /\ ackedNow' \subseteq ackedNow \cup {Update}
    BY DEF Resolved
  <2>3. HandledNow'
    BY <1>2, <2>1, <2>2 DEF HandledNow, Update
  <2>4. PollTypes' /\ BatchFits' /\ CursorBehindWork'
    BY <1>1, <1>2, <2>1, <2>2 DEF CursorInv, PollTypes, BatchFits, CursorBehindWork, Settled, Stations
  <2>5. AckedBehind'
    <3>1. \A u \in ackedNow' : u \in ackedNow \/ (u = Update /\ ok)
      BY DEF Resolved
    <3>2. \A u \in ackedNow : u < Next1 /\ u <= Next1
      BY <1>1 DEF CursorInv, AckedBehind, PollTypes
    <3>3. QED BY <1>1, <1>2, <2>1, <3>1, <3>2 DEF AckedBehind
  <2>6. QED BY <2>3, <2>4, <2>5 DEF CursorInv
<1>4. CASE KindOf[Update] \in {"topic", "photo"} /\ ok
  <2>1. loop' = "save" /\ UNCHANGED batch /\ Update \in acked'
    BY <1>4 DEF Resolved, Saving
  <2>2. PollTypes' /\ BatchFits' /\ HandledNow' /\ CursorBehindWork'
    BY <1>1, <1>2, <2>1 DEF CursorInv, PollTypes, BatchFits, HandledNow, CursorBehindWork, Settled, Stations,
                            Update, Resolved
  <2>3. AckedBehind'
    <3>1. \A u \in ackedNow' : u \in ackedNow \/ u = Update
      BY DEF Resolved
    <3>2. \A u \in ackedNow : u <= Next1
      BY <1>1 DEF CursorInv, AckedBehind, PollTypes
    <3>3. QED BY <1>1, <1>2, <2>1, <3>1, <3>2 DEF AckedBehind
  <2>4. QED BY <2>2, <2>3 DEF CursorInv
<1>5. CASE KindOf[Update] \in {"topic", "photo"} /\ ~ok
  <2>1. loop' = "poll" /\ batch' = <<>> /\ ackedNow' = ackedNow
    BY <1>5 DEF Resolved, Retries
  <2>2. PollTypes' /\ BatchFits' /\ HandledNow' /\ CursorBehindWork'
    BY <1>2, <2>1 DEF CursorInv, PollTypes, BatchFits, HandledNow, CursorBehindWork, Settled, Stations
  <2>3. AckedBehind'
    BY <1>2, <2>1 DEF CursorInv, AckedBehind
  <2>4. QED BY <2>2, <2>3 DEF CursorInv
<1>6. QED BY <1>3, <1>4, <1>5

\* A step that leaves the updates at hand, their handler and what came of them alone.
LEMMA Untouched ==
  ASSUME CursorInv, posted' \in Nat, UNCHANGED <<stored, offset, batch, loop, verdict, ackedNow>>,
         acked \subseteq acked', told \subseteq told', unheard \subseteq unheard', unsaid \subseteq unsaid',
         loop = "reply" /\ reply' = "yes" => reply = "yes" \/ Update \in told'
  PROVE  CursorInv'
BY DEF CursorInv, PollTypes, BatchFits, HandledNow, AckedBehind, CursorBehindWork, Settled, Next1, Update

\* The steps that leave a batch, or fetch one from the offset.
LEMMA FetchKeeps ==
  ASSUME CursorInv, Polls \/ LeavesBatch
  PROVE  CursorInv'
<1>1. /\ UNCHANGED <<stored, offset, verdict, ackedNow, acked, told, unheard, unsaid, posted>>
      /\ loop' \in {"poll", "next", "off"}
      /\ loop' = "off" \/ loop \in {"poll", "next"}
  BY DEF Polls, LeavesBatch, ghosts
<1>2. AckedBehind'
  BY <1>1 DEF CursorInv, AckedBehind, Next1
<1>3. batch' \in Seq(Nat) /\ \A i \in DOMAIN batch' : batch'[i] = Next1 + i - 1
  <2>1. CASE batch' = <<>>
    BY <2>1
  <2>2. CASE Polls
    <3>1. Next1 \in Nat /\ posted \in Nat /\ posted >= Next1 /\ offset = stored
      BY <2>2 DEF Polls, Next1, LaterOf, CursorInv, PollTypes
    <3>2. batch' = [i \in 1 .. posted - Next1 + 1 |-> Next1 + i - 1]
      BY <2>2, <3>1 DEF Polls, Next1
    <3> HIDE DEF Next1
    <3>3. posted - Next1 + 1 \in Nat /\ \A i \in 1 .. posted - Next1 + 1 : Next1 + i - 1 \in Nat
      BY <3>1
    <3>4. QED BY <3>2, <3>3
  <2>3. QED BY <2>1, <2>2 DEF LeavesBatch
<1>4. PollTypes' /\ BatchFits' /\ HandledNow' /\ CursorBehindWork'
  BY <1>1, <1>3 DEF CursorInv, PollTypes, BatchFits, HandledNow, CursorBehindWork, Settled, Stations, Next1
<1>5. QED BY <1>2, <1>4 DEF CursorInv

\* An update for which there is nobody is done with, one that needs no session is
\* answered, any other is asked about.
LEMMA BeginKeeps ==
  ASSUME CursorInv, Unheard \/ Ignores \/ AnswersOnly \/ Requests
  PROVE  CursorInv'
<1>1. loop = "next" /\ batch # <<>> /\ UNCHANGED <<posted, stored, offset, batch, ackedNow, acked, told>>
      /\ unheard \subseteq unheard' /\ unsaid \subseteq unsaid'
  BY DEF Unheard, Ignores, AnswersOnly, Requests, pollVars, ghosts, Saving
<1>2. Update = Next1 /\ Next1 \in Nat
  BY <1>1, UpdateNext
<1>3. \A u \in ackedNow : u < Next1 /\ u <= Next1
  BY <1>1, <1>2 DEF CursorInv, AckedBehind, PollTypes
<1>4. loop' \in {"save", "reply", "ack"}
  BY DEF Unheard, Ignores, AnswersOnly, Requests, Saving, Answers, CursorInv, PollTypes
<1>5. HandledNow'
  <2>1. CASE Unheard
    BY <1>1, <2>1 DEF Unheard, Saving, HandledNow, Update, Settled
  <2>2. CASE AnswersOnly
    BY <2>2 DEF AnswersOnly, Answers, HandledNow
  <2>3. CASE Requests
    BY <2>3 DEF Requests, HandledNow
  <2>4. CASE Ignores
    <3>1. loop' = "save" /\ Update' = Update /\ Update \in unsaid'
      BY <1>1, <2>4 DEF Ignores, Saving, Update
    <3>2. KindOf[Update] \in {"aside", "topic", "photo", "tap"}
      BY <2>4 DEF Ignores
    <3>3. QED BY <3>1, <3>2 DEF HandledNow, Settled
  <2>5. QED BY <2>1, <2>2, <2>3, <2>4
<1>6. PollTypes' /\ BatchFits' /\ CursorBehindWork' /\ AckedBehind'
  BY <1>1, <1>3, <1>4 DEF CursorInv, PollTypes, BatchFits, CursorBehindWork, Settled, AckedBehind, Stations, Next1
<1>7. QED BY <1>5, <1>6 DEF CursorInv

\* Behind an answer the update is saved if it took effect or was answered.
LEMMA ConcludeKeeps == ASSUME CursorInv, Concludes PROVE CursorInv'
<1>1. /\ loop = "reply" /\ batch # <<>>
      /\ UNCHANGED <<posted, stored, offset, verdict, ackedNow, acked, told, unheard, unsaid>>
  BY DEF Concludes, ghosts, CursorInv, BatchFits
<1>2. CASE verdict \/ reply = "yes"
  BY <1>1, <1>2 DEF Concludes, CursorInv, PollTypes, BatchFits, HandledNow, AckedBehind, CursorBehindWork, Settled,
                    Stations, Next1, Update
<1>3. CASE ~(verdict \/ reply = "yes")
  BY <1>1, <1>3 DEF Concludes, CursorInv, PollTypes, BatchFits, HandledNow, AckedBehind, CursorBehindWork, Settled,
                    Stations, Next1
<1>4. QED BY <1>2, <1>3

\* The offset moves past the update that was handled.
LEMMA SaveKeeps == ASSUME CursorInv, Saves PROVE CursorInv'
<1>1. /\ loop = "save" /\ loop' = "next" /\ stored' = Update + 1 /\ offset' = stored' /\ batch' = Tail(batch)
      /\ UNCHANGED <<posted, verdict, ackedNow, acked, told, unheard, unsaid>> /\ batch # <<>>
  BY DEF Saves, ghosts, CursorInv, BatchFits
<1>2. /\ Update = Next1 /\ Next1 \in Nat /\ Tail(batch) \in Seq(Nat)
      /\ \A i \in DOMAIN Tail(batch) : Tail(batch)[i] = Next1 + i
  BY <1>1, UpdateNext
<1>3. stored \in Nat /\ stored <= Next1 /\ Next1 <= stored + 1 /\ Next1' = Next1 + 1 /\ (stored > 0 => Next1 = stored)
  BY <1>1, <1>2 DEF Next1, LaterOf, CursorInv, PollTypes
<1>4. Settled(Update) /\ \A u : Settled(u)' <=> Settled(u)
  BY <1>1 DEF CursorInv, HandledNow, Settled
<1> HIDE DEF Next1
<1>5. CursorBehindWork'
  <2>1. \A u \in 1 .. stored' - 1 : u \in 1 .. stored - 1 \/ u = Update
    BY <1>1, <1>2, <1>3
  <2>2. QED BY <1>1, <1>4, <2>1 DEF CursorInv, CursorBehindWork
<1>6. AckedBehind'
  BY <1>1, <1>2, <1>3 DEF CursorInv, AckedBehind, PollTypes
<1>7. BatchFits'
  <2>1. \A i \in DOMAIN Tail(batch) : i \in Nat
    BY <1>2
  <2>2. QED BY <1>1, <1>2, <1>3, <2>1 DEF BatchFits
<1>8. PollTypes' /\ HandledNow'
  BY <1>1, <1>2 DEF CursorInv, PollTypes, HandledNow, Stations
<1>9. QED BY <1>5, <1>6, <1>7, <1>8 DEF CursorInv

---------------------------------------------------------------------------
(* Around the handler                                                      *)

\* A daemon that starts has acknowledged nothing yet and no batch; one that dies, or is
\* stopped while a request is open, has none either or ends the request.
LEMMA LifeKeeps ==
  ASSUME CursorInv, TelegramBoots \/ Stops \/ TelegramDies
  PROVE  CursorInv'
<1>1. CASE TelegramBoots
  BY <1>1 DEF TelegramBoots, CursorInv, PollTypes, BatchFits, HandledNow, AckedBehind, CursorBehindWork,
                    Settled, Stations
<1>2. CASE TelegramDies
  BY <1>2 DEF TelegramDies, ghosts, CursorInv, PollTypes, BatchFits, HandledNow, AckedBehind,
                    CursorBehindWork, Settled, Stations, Next1
<1>3. CASE Stops /\ loop = "ack"
  BY <1>3, ResolvedKeeps DEF Stops
<1>4. CASE Stops /\ loop # "ack"
  BY <1>4, Untouched DEF Stops, pollVars, ghosts, CursorInv, PollTypes
<1>5. QED BY <1>1, <1>2, <1>3, <1>4

\* The acknowledgement, or the time-out in its place.
LEMMA HearKeeps == ASSUME CursorInv, Hears \/ TimesOut PROVE CursorInv'
<1>1. CASE TimesOut
  <2>1. loop = "ack" /\ Resolved(FALSE)
    BY <1>1, Zenon DEF TimesOut
  <2>2. QED BY <2>1, ResolvedKeeps, Zenon
<1>2. CASE Hears /\ loop = "ack" /\ Head(toDaemon).request = request
  BY <1>2, ResolvedKeeps DEF Hears
<1>3. CASE Hears /\ ~(loop = "ack" /\ Head(toDaemon).request = request)
  <2>1. UNCHANGED <<pollVars, loop, verdict, request, sendVars, ghosts>>
    BY <1>3 DEF Hears
  <2>2. QED BY <2>1, Untouched DEF pollVars, ghosts, sendVars, CursorInv, PollTypes
<1>4. QED BY <1>1, <1>2, <1>3

\* What goes on around the poll loop.
LEMMA AroundKeeps ==
  ASSUME CursorInv, PoolSteps \/ Posts \/ Disconnects \/ \E ok \in BOOLEAN : Performs(ok)
  PROVE  CursorInv'
<1>1. CASE PoolSteps
  <2>1. UNCHANGED <<pollVars, loop, verdict, acked, ackedNow, unheard, unsaid>>
    BY <1>1 DEF PoolSteps, Sends, ghosts
  <2>2. told \subseteq told' /\ (reply' = "yes" => reply = "yes" \/ Update \in told')
    BY <1>1 DEF PoolSteps, Flushes, Spends, Refills, Sends, SendFails, ghosts
  <2>3. QED BY <2>1, <2>2, Untouched DEF pollVars, CursorInv, PollTypes
<1>2. CASE Posts \/ Disconnects \/ \E ok \in BOOLEAN : Performs(ok)
  <2>1. posted \in Nat
    BY DEF CursorInv, PollTypes
  <2>2. /\ posted' \in {posted, posted + 1}
        /\ UNCHANGED <<stored, offset, batch, loop, verdict, reply, acked, ackedNow, told, unheard, unsaid>>
    BY <1>2 DEF Posts, Disconnects, Performs, pollVars, ghosts, sendVars
  <2>3. QED BY <2>1, <2>2, Untouched
<1>3. QED BY <1>1, <1>2

\* The invariant is inductive.
LEMMA CursorStep == CursorInv /\ [TelegramNext]_telegramVars => CursorInv'
<1> SUFFICES ASSUME CursorInv, [TelegramNext]_telegramVars PROVE CursorInv'
  OBVIOUS
<1>1. CASE LoopSteps
  BY <1>1, FetchKeeps, BeginKeeps, HearKeeps, ConcludeKeeps, SaveKeeps DEF LoopSteps
<1>2. CASE UNCHANGED telegramVars
  BY <1>2, Untouched DEF telegramVars, pollVars, ghosts, sendVars, CursorInv, PollTypes
<1>3. QED BY <1>1, <1>2, AroundKeeps, LifeKeeps DEF TelegramNext

\* The wire to the session holds what was sent on it.
Wired == \E S : toSession \in Seq(S)

\* Only a handler that asks writes on the wire, and only the session reads from it.
LEMMA WireUse ==
  ASSUME [TelegramNext]_telegramVars
  PROVE  UNCHANGED toSession \/ Requests \/ \E ok \in BOOLEAN : Performs(ok)
<1>1. CASE LoopSteps
  BY <1>1 DEF LoopSteps, Polls, LeavesBatch, Unheard, Ignores, AnswersOnly, Hears, TimesOut, Concludes, Saves, askVars
<1>2. CASE PoolSteps \/ Posts \/ Disconnects \/ TelegramBoots \/ Stops \/ TelegramDies
  BY <1>2 DEF PoolSteps, Posts, Disconnects, TelegramBoots, Stops, TelegramDies, askVars
<1>3. CASE UNCHANGED telegramVars
  BY <1>3 DEF telegramVars, askVars
<1>4. QED BY <1>1, <1>2, <1>3 DEF TelegramNext

\* The invariant of the wire is inductive.
LEMMA WireStep == Wired /\ [TelegramNext]_telegramVars => Wired'
<1> SUFFICES ASSUME Wired, [TelegramNext]_telegramVars PROVE Wired'
  OBVIOUS
<1>1. PICK S : toSession \in Seq(S)
  BY DEF Wired
<1>2. CASE Requests
  <2>1. toSession' \in Seq(S \cup {[request |-> request', update |-> Update]})
    BY <1>1, <1>2 DEF Requests
  <2>2. QED BY <2>1 DEF Wired
<1>3. CASE \E ok \in BOOLEAN : Performs(ok)
  BY <1>1, <1>3 DEF Performs, Wired
<1>4. CASE UNCHANGED toSession
  BY <1>4 DEF Wired
<1>5. QED BY <1>2, <1>3, <1>4, WireUse

\* Whatever is asked is about the update at hand, and what was acknowledged lies before it.
LEMMA AskedOnce ==
  ASSUME Wired, CursorInv, [TelegramNext]_telegramVars, Len(toSession') > Len(toSession),
         NEW u \in ackedNow'
  PROVE  toSession'[Len(toSession')].update # u
<1>1. PICK S : toSession \in Seq(S)
  BY DEF Wired
<1>2. Requests
  <2>1. CASE \E ok \in BOOLEAN : Performs(ok)
    <3>1. toSession # <<>> /\ toSession' = Tail(toSession)
      BY <2>1 DEF Performs
    <3>2. Len(toSession) \in Nat /\ Len(toSession') = Len(toSession) - 1
      BY <1>1, <3>1
    <3>3. QED BY <3>2
  <2>2. CASE UNCHANGED toSession
    <3>1. Len(toSession) \in Nat
      BY <1>1
    <3>2. QED BY <2>2, <3>1
  <2>3. QED BY <2>1, <2>2, WireUse
<1>3. /\ loop = "next" /\ batch # <<>> /\ ackedNow' = ackedNow
      /\ toSession' = Append(toSession, [request |-> request', update |-> Update])
  BY <1>2 DEF Requests, ghosts
<1>4. toSession'[Len(toSession')].update = Update
  BY <1>1, <1>3
<1>5. Update = Next1 /\ Next1 \in Nat /\ u \in Nat /\ u < Next1
  BY <1>3, UpdateNext DEF CursorInv, AckedBehind, PollTypes
<1>6. QED BY <1>4, <1>5

\* Over any deaths, stops and losses the offset on disk passes only what took effect, was
\* answered or found nobody, and what a topic swallows without a word (Settled names it;
\* pollTelegramLoop, handleSessionTopicInbound).
THEOREM CursorIsBehind == TelegramSpec => []CursorBehindWork
<1>1. CursorInv => CursorBehindWork
  BY DEF CursorInv
<1>2. QED BY <1>1, TelegramStarts, CursorStep, PTL DEF TelegramSpec

\* What a session has acknowledged to a daemon is not asked again by it, whatever becomes
\* of the answers, of the socket and of the attempts to stop it (replay of side effects).
THEOREM AcknowledgedOnce == TelegramSpec => NotReplayed
<1>1. TelegramInit => Wired
  BY DEF TelegramInit, Wired
<1>2. Wired /\ CursorInv /\ [TelegramNext]_telegramVars =>
        [\A u \in ackedNow' : Len(toSession') > Len(toSession) =>
           toSession'[Len(toSession')].update # u]_telegramVars
  BY AskedOnce
<1>3. QED BY <1>1, <1>2, TelegramStarts, CursorStep, WireStep, PTL DEF TelegramSpec, NotReplayed

---------------------------------------------------------------------------
(* Topics                                                                  *)

Names == Title \cup {Short}
Doings == {"idle", "asking", "sharing", "creating", "renaming", "renamed"}
Handling == [at : Doings, conn : Nat, title : Names, given : Names, topic : Nat, of : Handler \cup {0}]
Registry == [Member -> [topic : Nat, name : Names]]
ForumTopic == [session : Member, name : Names]
Connection == [session : Member, identity : Names, failed : BOOLEAN, open : BOOLEAN]

TopicTypes ==
  /\ forum \in Seq(ForumTopic)
  /\ topics \in Registry /\ topicsFile \in Registry /\ saves \subseteq Registry
  /\ inflight \in [Member -> Handler \cup {0}]
  /\ conns \in Seq(Connection)
  /\ frames \in [Handler -> Handling]
  /\ \A f \in Handler : frames[f].at # "idle" => frames[f].conn \in DOMAIN conns

\* A registry only ever names topics that are there, each under its own session.
Points(registry) ==
  \A s \in Member : registry[s].topic # 0 =>
    registry[s].topic \in DOMAIN forum /\ forum[registry[s].topic].session = s

\* A call that creates a topic is the one its session's entry names, and a session
\* for which a topic is being created has none.
CallsFit ==
  /\ \A f \in Handler : frames[f].at = "creating" =>
       /\ inflight[SessionOf(frames[f])] = f
       /\ frames[f].topic # 0 => /\ frames[f].topic \in DOMAIN forum
                                 /\ forum[frames[f].topic].session = SessionOf(frames[f])
  /\ \A f \in Handler : frames[f].at \in {"idle", "asking"} => frames[f].topic = 0
  /\ \A s \in Member : inflight[s] # 0 =>
       /\ frames[inflight[s]].at = "creating" /\ SessionOf(frames[inflight[s]]) = s
       /\ topics[s].topic = 0

\* A topic that is not lost is in the registry, or the call that made it is under way.
Findable ==
  \A t \in DOMAIN forum \ forgotten :
    LET s == forum[t].session IN
    topics[s].topic = t \/ (inflight[s] # 0 /\ frames[inflight[s]].topic = t)

TopicInv ==
  /\ TopicTypes /\ Points(topics) /\ Points(topicsFile) /\ \A r \in saves : Points(r)
  /\ CallsFit /\ Findable

\* What is used of sequences: an element, a replacement, one more at the end.
LEMMA Elements ==
  ASSUME NEW S, NEW q \in Seq(S)
  PROVE  Len(q) \in Nat /\ DOMAIN q = 1 .. Len(q) /\ \A i \in DOMAIN q : q[i] \in S
OBVIOUS

LEMMA Replaced ==
  ASSUME NEW S, NEW q \in Seq(S), NEW i \in DOMAIN q, NEW e \in S
  PROVE  /\ [q EXCEPT ![i] = e] \in Seq(S) /\ DOMAIN [q EXCEPT ![i] = e] = DOMAIN q
         /\ \A j \in DOMAIN q : [q EXCEPT ![i] = e][j] = IF j = i THEN e ELSE q[j]
OBVIOUS

LEMMA OneMore ==
  ASSUME NEW S, NEW q \in Seq(S), NEW e \in S
  PROVE  /\ Append(q, e) \in Seq(S) /\ DOMAIN Append(q, e) = DOMAIN q \cup {Len(q) + 1}
         /\ Len(q) + 1 \notin DOMAIN q /\ Len(Append(q, e)) = Len(q) + 1
         /\ \A i \in DOMAIN q : Append(q, e)[i] = q[i]
         /\ Append(q, e)[Len(q) + 1] = e
<1>1. Len(q) \in Nat /\ DOMAIN q = 1 .. Len(q)
  OBVIOUS
<1>. QED BY <1>1

\* There are no topics, no calls and no frames.
LEMMA TopicsStart == TopicsInit => TopicInv
<1>1. SUFFICES ASSUME TopicsInit PROVE TopicInv
  OBVIOUS
<1>2. TopicTypes
  BY <1>1 DEF TopicsInit, TopicTypes, NoTopics, Registry, Names, Idle, Handling, Doings, ForumTopic, Connection
<1>3. Points(topics) /\ Points(topicsFile) /\ \A r \in saves : Points(r)
  BY <1>1 DEF TopicsInit, Points, NoTopics
<1>4. CallsFit /\ Findable
  BY <1>1 DEF TopicsInit, CallsFit, Findable, Idle
<1>. QED BY <1>2, <1>3, <1>4 DEF TopicInv

\* What a handler does next is to rename or nothing.
LEMMA NamedNext ==
  ASSUME TopicTypes, NEW h \in Handling, NEW registry, NEW topic \in Nat
  PROVE  /\ Named(h, registry, topic) \in Handling
         /\ Named(h, registry, topic).at \in {"idle", "renaming"}
         /\ Named(h, registry, topic).at = "renaming" => Named(h, registry, topic).conn = h.conn
         /\ Named(h, registry, topic).at = "idle" => Named(h, registry, topic).topic = 0
<1> DEFINE n == [h EXCEPT !.at = "renaming", !.topic = topic, !.given = Short, !.of = 0]
<1>1. Idle \in Handling /\ Idle.at = "idle" /\ Idle.topic = 0
  BY DEF Idle, Handling, Doings, Names
<1>2. n \in Handling /\ n.at = "renaming" /\ n.conn = h.conn
  BY DEF Handling, Doings, Names
<1>3. Named(h, registry, topic) \in {Idle, n}
  BY DEF Named
<1>. QED BY <1>1, <1>2, <1>3

LEMMA FallsNext ==
  ASSUME TopicTypes, NEW h \in Handling
  PROVE  /\ FallsBack(h) \in Handling /\ FallsBack(h).at \in {"idle", "renaming"}
         /\ FallsBack(h).at = "renaming" => FallsBack(h).conn = h.conn
         /\ FallsBack(h).at = "idle" => FallsBack(h).topic = 0
<1>1. Idle \in Handling /\ Idle.at = "idle" /\ Idle.topic = 0
  BY DEF Idle, Handling, Doings, Names
<1>2. FallsBack(h) \in {Idle, Named(h, topics, 0)}
  BY DEF FallsBack
<1>. QED BY <1>1, <1>2, NamedNext

\* What the types say of a topic and of a connection.
LEMMA Typed ==
  ASSUME TopicTypes
  PROVE  /\ Len(forum) \in Nat /\ DOMAIN forum = 1 .. Len(forum)
         /\ \A t \in DOMAIN forum : forum[t] \in ForumTopic /\ forum[t].session \in Member
         /\ \A c \in DOMAIN conns : /\ conns[c] \in Connection /\ c \in Nat
                                    /\ conns[c].session \in Member /\ conns[c].identity \in Names
<1>1. forum \in Seq(ForumTopic) /\ conns \in Seq(Connection)
  BY DEF TopicTypes
<1>2. \A t \in DOMAIN forum : forum[t] \in ForumTopic
  BY <1>1, Elements
<1>3. \A c \in DOMAIN conns : conns[c] \in Connection /\ c \in Nat
  BY <1>1, Elements
<1>4. \A t \in DOMAIN forum : forum[t].session \in Member
  BY <1>2 DEF ForumTopic
<1>5. \A c \in DOMAIN conns : conns[c].session \in Member /\ conns[c].identity \in Names
  BY <1>3 DEF Connection
<1>. QED BY <1>1, <1>2, <1>3, <1>4, <1>5, Elements

\* A connection stays the connection of its session.
ConnsStand ==
  /\ conns' \in Seq(Connection)
  /\ \A c \in DOMAIN conns : c \in DOMAIN conns' /\ conns'[c].session = conns[c].session

LEMMA ConnectionStands ==
  ASSUME TopicTypes, NEW c \in DOMAIN conns,
         \/ \E title \in Names : conns' = [conns EXCEPT ![c].identity = title]
         \/ conns' = [conns EXCEPT ![c].open = FALSE]
         \/ UNCHANGED conns
  PROVE  ConnsStand
<1>1. conns \in Seq(Connection) /\ \A d \in DOMAIN conns : conns[d] \in Connection
  BY Elements DEF TopicTypes
<1>2. ASSUME NEW e \in Connection, e.session = conns[c].session, conns' = [conns EXCEPT ![c] = e]
      PROVE  ConnsStand
  <2>1. /\ conns' \in Seq(Connection) /\ DOMAIN conns' = DOMAIN conns
        /\ \A d \in DOMAIN conns : conns'[d] = IF d = c THEN e ELSE conns[d]
    BY <1>1, <1>2, Replaced
  <2>. QED BY <1>2, <2>1 DEF ConnsStand
<1>3. ASSUME NEW title \in Names, conns' = [conns EXCEPT ![c].identity = title] PROVE ConnsStand
  <2>1. [conns[c] EXCEPT !.identity = title] \in Connection
    BY <1>1 DEF Connection
  <2>2. [conns[c] EXCEPT !.identity = title].session = conns[c].session
    BY <1>1 DEF Connection
  <2>3. conns' = [conns EXCEPT ![c] = [conns[c] EXCEPT !.identity = title]]
    BY <1>3
  <2>. QED BY <1>2, <2>1, <2>2, <2>3
<1>4. ASSUME conns' = [conns EXCEPT ![c].open = FALSE] PROVE ConnsStand
  <2>1. [conns[c] EXCEPT !.open = FALSE] \in Connection
    BY <1>1 DEF Connection
  <2>2. [conns[c] EXCEPT !.open = FALSE].session = conns[c].session
    BY <1>1 DEF Connection
  <2>3. conns' = [conns EXCEPT ![c] = [conns[c] EXCEPT !.open = FALSE]]
    BY <1>4
  <2>. QED BY <1>2, <2>1, <2>2, <2>3
<1>5. ASSUME UNCHANGED conns PROVE ConnsStand
  BY <1>1, <1>5 DEF ConnsStand
<1>. QED BY <1>3, <1>4, <1>5

\* A frame that neither creates a topic nor begins to.
Aside(f) ==
  \/ frames'[f] = frames[f]
  \/ /\ frames[f].at # "creating" /\ frames'[f].at # "creating"
     /\ frames'[f].at \in {"idle", "asking"} => frames'[f].topic = 0
     /\ frames'[f].at # "idle" => frames'[f].conn \in DOMAIN conns'

\* As long as no creation begins or ends, everything keeps its place.
LEMMA AsideKeeps ==
  ASSUME TopicInv, UNCHANGED <<inflight, forgotten>>, ConnsStand,
         forum' \in Seq(ForumTopic), DOMAIN forum' = DOMAIN forum,
         \A t \in DOMAIN forum : forum'[t].session = forum[t].session,
         topics' \in Registry, \A s \in Member : topics'[s].topic = topics[s].topic,
         \A r \in saves' \cup {topicsFile'} : r \in saves \cup {topicsFile, topics, topics'},
         frames' \in [Handler -> Handling], \A f \in Handler : Aside(f)
  PROVE  TopicInv'
<1>0. TopicTypes'
  <2>1. saves' \subseteq Registry /\ topicsFile' \in Registry
    BY DEF TopicInv, TopicTypes
  <2>2. \A f \in Handler : frames'[f].at # "idle" => frames'[f].conn \in DOMAIN conns'
    BY DEF Aside, TopicInv, TopicTypes, ConnsStand
  <2>. QED BY <2>1, <2>2 DEF TopicTypes, TopicInv, ConnsStand
<1>1. Points(topics)' /\ Points(topicsFile)' /\ \A r \in saves' : Points(r)'
  <2> DEFINE Aims(r) == \A s \in Member : r[s].topic # 0 =>
                           r[s].topic \in DOMAIN forum' /\ forum'[r[s].topic].session = s
  <2>1. \A r : Points(r) => Aims(r)
    BY DEF Points
  <2>2. Points(topics) /\ Points(topicsFile) /\ \A r \in saves : Points(r)
    BY DEF TopicInv
  <2>3. Aims(topics')
    BY <2>1, <2>2
  <2>4. \A r \in saves' \cup {topicsFile'} : Aims(r)
    BY <2>1, <2>2, <2>3
  <2>. QED BY <2>3, <2>4 DEF Points
<1> DEFINE Of(f) == conns[frames[f].conn].session
<1>2. ASSUME NEW f \in Handler, frames[f].at = "creating" \/ frames'[f].at = "creating"
      PROVE  frames'[f] = frames[f] /\ Of(f)' = Of(f)
  <2>1. frames'[f] = frames[f] /\ frames[f].at # "idle"
    BY <1>2 DEF Aside
  <2>. QED BY <2>1 DEF TopicInv, TopicTypes, ConnsStand
<1>3. \A s \in Member : inflight[s] # 0 => inflight[s] \in Handler /\ frames[inflight[s]].at = "creating"
  BY DEF TopicInv, TopicTypes, CallsFit
<1>4. CallsFit'
  <2>1. ASSUME NEW f \in Handler, frames'[f].at = "creating"
        PROVE  /\ inflight'[Of(f)'] = f
               /\ frames'[f].topic # 0 => /\ frames'[f].topic \in DOMAIN forum'
                                          /\ forum'[frames'[f].topic].session = Of(f)'
    BY <1>2, <2>1 DEF TopicInv, CallsFit, SessionOf
  <2>2. ASSUME NEW f \in Handler, frames'[f].at \in {"idle", "asking"} PROVE frames'[f].topic = 0
    BY <2>2 DEF Aside, TopicInv, CallsFit
  <2>3. ASSUME NEW s \in Member, inflight'[s] # 0
        PROVE  /\ frames'[inflight'[s]].at = "creating" /\ conns'[frames'[inflight'[s]].conn].session = s
               /\ topics'[s].topic = 0
    <3>1. inflight[s] # 0 /\ inflight[s] \in Handler /\ frames[inflight[s]].at = "creating"
      BY <1>3, <2>3
    <3>2. frames'[inflight[s]] = frames[inflight[s]] /\ Of(inflight[s])' = Of(inflight[s])
      BY <1>2, <3>1
    <3>3. Of(inflight[s]) = s /\ topics[s].topic = 0
      BY <3>1 DEF TopicInv, CallsFit, SessionOf
    <3>. QED BY <3>1, <3>2, <3>3
  <2>. QED BY <2>1, <2>2, <2>3 DEF CallsFit, SessionOf
<1>5. Findable'
  <2>1. SUFFICES ASSUME NEW t \in DOMAIN forum \ forgotten
                 PROVE  \/ topics'[forum[t].session].topic = t
                        \/ /\ inflight'[forum[t].session] # 0
                           /\ frames'[inflight'[forum[t].session]].topic = t
    BY DEF Findable
  <2>2. forum[t].session \in Member
    BY Typed DEF TopicInv
  <2>3. topics[forum[t].session].topic = t \/ (inflight[forum[t].session] # 0 /\ frames[inflight[forum[t].session]].topic = t)
    BY DEF TopicInv, Findable
  <2>4. inflight[forum[t].session] # 0 => frames'[inflight[forum[t].session]] = frames[inflight[forum[t].session]]
    BY <1>2, <1>3, <2>2
  <2>. QED BY <2>2, <2>3, <2>4
<1>6. TopicInv' = (TopicTypes' /\ Points(topics)' /\ Points(topicsFile)' /\ (\A r \in saves' : Points(r)') /\ CallsFit' /\ Findable')
  BY DEF TopicInv
<1>. QED BY <1>0, <1>1, <1>4, <1>5, <1>6

\* One handler takes its next step, beside all creations.
LEMMA OneAside ==
  ASSUME TopicTypes, NEW f \in Handler, NEW h \in Handling, frames' = [frames EXCEPT ![f] = h],
         frames[f].at # "creating", h.at # "creating", h.at \in {"idle", "asking"} => h.topic = 0,
         h.at # "idle" => h.conn \in DOMAIN conns'
  PROVE  frames' \in [Handler -> Handling] /\ \A g \in Handler : Aside(g)
<1>1. frames \in [Handler -> Handling]
  BY DEF TopicTypes
<1>2. frames'[f] = h /\ \A g \in Handler \ {f} : frames'[g] = frames[g]
  BY <1>1
<1>3. Aside(f)
  BY <1>2 DEF Aside
<1>4. \A g \in Handler \ {f} : Aside(g)
  BY <1>2 DEF Aside
<1>. QED BY <1>1, <1>3, <1>4

\* A creation begins only for a session that has no topic and no call under way, so every
\* topic that is not lost stays where it was.
LEMMA CallStarts ==
  ASSUME TopicInv, NEW f \in Handler, NEW h \in Handling, h.conn \in DOMAIN conns, h.topic = 0,
         frames[f].at # "creating", StartsCall(f, h), ConnsStand,
         UNCHANGED <<forum, topics, topicsFile, forgotten>>
  PROVE  TopicInv'
<1> DEFINE x == [h EXCEPT !.at = "creating", !.given = Provisional(h)]
           s == conns[h.conn].session
<1>1. /\ topics[s].topic = 0 /\ inflight[s] = 0 /\ frames' = [frames EXCEPT ![f] = x]
      /\ inflight' = [inflight EXCEPT ![s] = f] /\ saves' = saves
  BY DEF StartsCall, SessionOf, Continue
<1>2. Provisional(h) \in Names /\ s \in Member /\ f # 0
  BY Typed, HandlerAssumption DEF Provisional, TopicInv, Handling
<1>3. x \in Handling /\ x.at = "creating" /\ x.conn = h.conn /\ x.topic = 0
  BY <1>2 DEF Handling, Doings
<1>4. /\ frames \in [Handler -> Handling] /\ inflight \in [Member -> Handler \cup {0}]
      /\ \A g \in Handler : frames[g].at # "idle" => frames[g].conn \in DOMAIN conns
  BY DEF TopicInv, TopicTypes
<1> HIDE DEF x
<1>5. /\ frames'[f] = x /\ \A g \in Handler \ {f} : frames'[g] = frames[g]
      /\ inflight'[s] = f /\ \A u \in Member \ {s} : inflight'[u] = inflight[u]
  BY <1>1, <1>2, <1>4
<1>6. conns'[h.conn].session = s /\ h.conn \in DOMAIN conns'
  BY DEF ConnsStand
<1>7. TopicTypes'
  <2>1. frames' \in [Handler -> Handling] /\ inflight' \in [Member -> Handler \cup {0}]
    BY <1>1, <1>2, <1>3, <1>4
  <2>2. \A g \in Handler : frames'[g].at # "idle" => frames'[g].conn \in DOMAIN conns'
    BY <1>3, <1>4, <1>5, <1>6 DEF ConnsStand
  <2>. QED BY <1>1, <2>1, <2>2 DEF TopicTypes, TopicInv, ConnsStand
<1>8. \A u \in Member \ {s} : inflight[u] # 0 =>
        inflight[u] # f /\ inflight[u] \in Handler /\ frames'[inflight[u]] = frames[inflight[u]]
  BY <1>4, <1>5 DEF TopicInv, CallsFit
<1>9. CallsFit'
  <2>1. ASSUME NEW g \in Handler, frames'[g].at = "creating"
        PROVE  /\ inflight'[conns'[frames'[g].conn].session] = g
               /\ frames'[g].topic # 0 => /\ frames'[g].topic \in DOMAIN forum'
                                          /\ forum'[frames'[g].topic].session = conns'[frames'[g].conn].session
    <3>1. CASE g = f
      BY <3>1, <1>3, <1>5, <1>6
    <3>2. CASE g # f
      <4>1. frames'[g] = frames[g] /\ frames[g].at = "creating" /\ frames[g].conn \in DOMAIN conns
        BY <3>2, <1>4, <1>5, <2>1
      <4>2. conns'[frames[g].conn].session = conns[frames[g].conn].session /\ conns[frames[g].conn].session \in Member
        BY <4>1, Typed DEF ConnsStand, TopicInv
      <4>3. inflight[conns[frames[g].conn].session] = g /\ g # 0
        BY <4>1, HandlerAssumption DEF TopicInv, CallsFit, SessionOf
      <4>4. frames[g].topic # 0 => /\ frames[g].topic \in DOMAIN forum
                                   /\ forum[frames[g].topic].session = conns[frames[g].conn].session
        BY <4>1 DEF TopicInv, CallsFit, SessionOf
      <4>. QED BY <1>1, <1>5, <4>1, <4>2, <4>3, <4>4
    <3>. QED BY <3>1, <3>2
  <2>2. \A g \in Handler : frames'[g].at \in {"idle", "asking"} => frames'[g].topic = 0
    BY <1>3, <1>5 DEF TopicInv, CallsFit
  <2>3. ASSUME NEW u \in Member, inflight'[u] # 0
        PROVE  /\ frames'[inflight'[u]].at = "creating" /\ conns'[frames'[inflight'[u]].conn].session = u
               /\ topics'[u].topic = 0
    <3>1. CASE u = s
      BY <3>1, <1>1, <1>3, <1>5, <1>6
    <3>2. CASE u # s
      <4>1. inflight'[u] = inflight[u] /\ frames'[inflight[u]] = frames[inflight[u]] /\ inflight[u] \in Handler
        BY <3>2, <2>3, <1>5, <1>8
      <4>2. /\ frames[inflight[u]].at = "creating" /\ conns[frames[inflight[u]].conn].session = u
            /\ topics[u].topic = 0
        BY <4>1, <2>3 DEF TopicInv, CallsFit, SessionOf
      <4>. QED BY <4>1, <4>2, <1>4 DEF ConnsStand
    <3>. QED BY <3>1, <3>2
  <2>. QED BY <2>1, <2>2, <2>3 DEF CallsFit, SessionOf
<1>10. Findable'
  <2>1. ASSUME NEW t \in DOMAIN forum \ forgotten
        PROVE  \/ topics[forum[t].session].topic = t
               \/ inflight'[forum[t].session] # 0 /\ frames'[inflight'[forum[t].session]].topic = t
    <3>1. forum[t].session \in Member
      BY Typed DEF TopicInv
    <3>2. topics[forum[t].session].topic = t \/ (inflight[forum[t].session] # 0 /\ frames[inflight[forum[t].session]].topic = t)
      BY DEF TopicInv, Findable
    <3>. QED BY <3>1, <3>2, <1>1, <1>5, <1>8
  <2>. QED BY <2>1 DEF Findable
<1>11. Points(topics)' /\ Points(topicsFile)' /\ \A r \in saves' : Points(r)'
  BY <1>1 DEF TopicInv, Points
<1>. QED BY <1>7, <1>9, <1>10, <1>11 DEF TopicInv

\* The topic that a call has made belongs to the session that the call is for.
LEMMA MadeKeeps ==
  ASSUME TopicInv, NEW f \in Handler, TopicMade(f)
  PROVE  TopicInv'
<1> DEFINE s == conns[frames[f].conn].session
           n == Len(forum) + 1
           m == [session |-> s, name |-> frames[f].given]
           h == [frames[f] EXCEPT !.topic = n]
<1>1. /\ frames[f].at = "creating" /\ frames[f].topic = 0 /\ forum' = Append(forum, m)
      /\ UNCHANGED <<topics, inflight, conns, topicsFile, saves, forgotten>>
  BY DEF TopicMade, SessionOf, diskVars
<1>2. /\ frames \in [Handler -> Handling] /\ inflight \in [Member -> Handler \cup {0}]
      /\ forum \in Seq(ForumTopic)
      /\ \A g \in Handler : frames[g].at # "idle" => frames[g].conn \in DOMAIN conns
  BY DEF TopicInv, TopicTypes
<1>3. s \in Member /\ m \in ForumTopic
  BY <1>1, <1>2, Typed DEF ForumTopic, TopicInv, Handling
<1>4. /\ forum' \in Seq(ForumTopic) /\ DOMAIN forum' = DOMAIN forum \cup {n} /\ n \notin DOMAIN forum
      /\ \A t \in DOMAIN forum : forum'[t] = forum[t]
      /\ forum'[n] = m /\ Len(forum') = n /\ n \in Nat \ {0} /\ 0 \notin DOMAIN forum
  BY <1>1, <1>2, <1>3, OneMore, Elements
<1> HIDE DEF n
<1>5. frames' = [frames EXCEPT ![f] = h]
  BY <1>4 DEF TopicMade
<1>6. h \in Handling /\ h.at = "creating" /\ h.conn = frames[f].conn /\ h.topic = n
  <2>1. frames[f] \in Handling /\ n \in Nat
    BY <1>2, <1>4
  <2>. QED BY <1>1, <2>1 DEF Handling
<1>7. m.session = s
  OBVIOUS
<1> HIDE DEF m, h
<1>8. frames'[f] = h /\ \A g \in Handler \ {f} : frames'[g] = frames[g]
  BY <1>2, <1>5
<1>9. TopicTypes'
  <2>1. frames' \in [Handler -> Handling]
    BY <1>2, <1>5, <1>6
  <2>2. \A g \in Handler : frames'[g].at # "idle" => frames'[g].conn \in DOMAIN conns'
    BY <1>1, <1>2, <1>6, <1>8
  <2>. QED BY <1>1, <1>4, <2>1, <2>2 DEF TopicTypes, TopicInv
<1>10. Points(topics)' /\ Points(topicsFile)' /\ \A r \in saves' : Points(r)'
  BY <1>1, <1>4 DEF TopicInv, Points
<1>11. CallsFit'
  <2>1. ASSUME NEW g \in Handler, frames'[g].at = "creating"
        PROVE  /\ inflight'[conns'[frames'[g].conn].session] = g
               /\ frames'[g].topic # 0 => /\ frames'[g].topic \in DOMAIN forum'
                                          /\ forum'[frames'[g].topic].session = conns'[frames'[g].conn].session
    <3>1. frames[g].at = "creating" /\ frames'[g].conn = frames[g].conn
      BY <1>1, <1>6, <1>8, <2>1
    <3>2. inflight[conns[frames[g].conn].session] = g
      BY <3>1 DEF TopicInv, CallsFit, SessionOf
    <3>3. CASE g = f
      BY <3>1, <3>2, <3>3, <1>1, <1>4, <1>6, <1>7, <1>8
    <3>4. CASE g # f
      <4>1. frames[g].topic # 0 => frames[g].topic \in DOMAIN forum
                                   /\ forum[frames[g].topic].session = conns[frames[g].conn].session
        BY <3>1 DEF TopicInv, CallsFit, SessionOf
      <4>. QED BY <4>1, <3>1, <3>2, <3>4, <1>1, <1>4, <1>8
    <3>. QED BY <3>3, <3>4
  <2>2. \A g \in Handler : frames'[g].at \in {"idle", "asking"} => frames'[g].topic = 0
    BY <1>6, <1>8 DEF TopicInv, CallsFit
  <2>3. ASSUME NEW u \in Member, inflight'[u] # 0
        PROVE  /\ frames'[inflight'[u]].at = "creating" /\ conns'[frames'[inflight'[u]].conn].session = u
               /\ topics'[u].topic = 0
    <3>1. /\ frames[inflight[u]].at = "creating" /\ conns[frames[inflight[u]].conn].session = u
          /\ topics[u].topic = 0 /\ inflight[u] \in Handler
      BY <2>3, <1>1, <1>2 DEF TopicInv, CallsFit, SessionOf
    <3>. QED BY <3>1, <1>1, <1>6, <1>8
  <2>. QED BY <2>1, <2>2, <2>3 DEF CallsFit, SessionOf
<1>12. Findable'
  <2>1. ASSUME NEW t \in DOMAIN forum' \ forgotten
        PROVE  \/ topics[forum'[t].session].topic = t
               \/ inflight[forum'[t].session] # 0 /\ frames'[inflight[forum'[t].session]].topic = t
    <3>1. CASE t = n
      <4>1. inflight[s] = f /\ f # 0
        BY <1>1, HandlerAssumption DEF TopicInv, CallsFit, SessionOf
      <4>. QED BY <3>1, <4>1, <1>4, <1>6, <1>7, <1>8
    <3>2. CASE t # n
      <4>1. t \in DOMAIN forum \ forgotten /\ forum'[t] = forum[t] /\ forum[t].session \in Member /\ t # 0
        BY <2>1, <3>2, <1>4, Typed DEF TopicInv
      <4>2. topics[forum[t].session].topic = t \/ (inflight[forum[t].session] # 0 /\ frames[inflight[forum[t].session]].topic = t)
        BY <4>1 DEF TopicInv, Findable
      <4>. QED BY <4>1, <4>2, <1>1, <1>2, <1>8
    <3>. QED BY <3>1, <3>2
  <2>. QED BY <2>1, <1>1 DEF Findable
<1>. QED BY <1>9, <1>10, <1>11, <1>12 DEF TopicInv

\* When a call ends, with the topic in the registry or the topic given up, all who waited
\* for it leave; every other call, and the topics of every other session, stand.
LEMMA CallEnds ==
  ASSUME TopicInv, NEW f \in Handler, frames[f].at = "creating", CallOver(f), ConnsStand,
         NEW s, s = SessionOf(frames[f]), forum' = forum, topics' \in Registry,
         \A u \in Member \ {s} : topics'[u].topic = topics[u].topic,
         saves' \subseteq Registry, Points(topics)', Points(topicsFile)', \A r \in saves' : Points(r)',
         topicsFile' = topicsFile, frames' \in [Handler -> Handling],
         \A g \in Handler \ WaitingFor(f) : frames'[g] = frames[g],
         \A g \in WaitingFor(f) : /\ frames'[g].at \in {"idle", "renaming"}
                                  /\ frames'[g].at = "idle" => frames'[g].topic = 0
                                  /\ frames'[g].at = "renaming" => frames'[g].conn \in DOMAIN conns',
         forgotten \subseteq forgotten',
         frames[f].topic \in DOMAIN forum \ forgotten' => topics'[s].topic = frames[f].topic
  PROVE  TopicInv'
<1>1. /\ frames \in [Handler -> Handling] /\ inflight \in [Member -> Handler \cup {0}]
      /\ \A g \in Handler : frames[g].at # "idle" => frames[g].conn \in DOMAIN conns
  BY DEF TopicInv, TopicTypes
<1>2. s = conns[frames[f].conn].session /\ s \in Member /\ inflight[s] = f /\ f # 0
  BY <1>1, Typed, HandlerAssumption DEF SessionOf, TopicInv, CallsFit
<1>3. inflight'[s] = 0 /\ \A u \in Member \ {s} : inflight'[u] = inflight[u] /\ inflight[u] # f
  BY <1>2 DEF CallOver, TopicInv, CallsFit, SessionOf
<1>4. ASSUME NEW g \in Handler, g # f, frames[g].at = "creating"
      PROVE  g \notin WaitingFor(f) /\ frames'[g] = frames[g]
  BY <1>4 DEF WaitingFor
<1>5. TopicTypes'
  <2>1. inflight' \in [Member -> Handler \cup {0}]
    BY <1>1 DEF CallOver
  <2>2. ASSUME NEW g \in Handler, frames'[g].at # "idle" PROVE frames'[g].conn \in DOMAIN conns'
    BY <2>2, <1>1 DEF ConnsStand
  <2>. QED BY <2>1, <2>2 DEF TopicTypes, TopicInv, ConnsStand
<1>6. CallsFit'
  <2>1. ASSUME NEW g \in Handler, frames'[g].at = "creating"
        PROVE  /\ inflight'[conns'[frames'[g].conn].session] = g
               /\ frames'[g].topic # 0 => /\ frames'[g].topic \in DOMAIN forum'
                                          /\ forum'[frames'[g].topic].session = conns'[frames'[g].conn].session
    <3>1. g \notin WaitingFor(f) /\ frames'[g] = frames[g]
      BY <2>1
    <3>2. g # f /\ frames[g].at = "creating" /\ frames[g].conn \in DOMAIN conns
      BY <3>1, <2>1, <1>1 DEF WaitingFor
    <3>3. /\ inflight[conns[frames[g].conn].session] = g
          /\ frames[g].topic # 0 => /\ frames[g].topic \in DOMAIN forum
                                    /\ forum[frames[g].topic].session = conns[frames[g].conn].session
      BY <3>2 DEF TopicInv, CallsFit, SessionOf
    <3>4. conns'[frames[g].conn].session = conns[frames[g].conn].session /\ conns[frames[g].conn].session \in Member
      BY <3>2, Typed DEF ConnsStand, TopicInv
    <3>. QED BY <3>1, <3>2, <3>3, <3>4, <1>2, <1>3
  <2>2. \A g \in Handler : frames'[g].at \in {"idle", "asking"} => frames'[g].topic = 0
    BY DEF TopicInv, CallsFit
  <2>3. ASSUME NEW u \in Member, inflight'[u] # 0
        PROVE  /\ frames'[inflight'[u]].at = "creating" /\ conns'[frames'[inflight'[u]].conn].session = u
               /\ topics'[u].topic = 0
    <3>1. u # s /\ inflight'[u] = inflight[u] /\ inflight[u] # f /\ inflight[u] \in Handler
      BY <2>3, <1>1, <1>3
    <3>2. /\ frames[inflight[u]].at = "creating" /\ conns[frames[inflight[u]].conn].session = u
          /\ topics[u].topic = 0
      BY <3>1, <2>3 DEF TopicInv, CallsFit, SessionOf
    <3>. QED BY <3>1, <3>2, <1>1, <1>4 DEF ConnsStand
  <2>. QED BY <2>1, <2>2, <2>3 DEF CallsFit, SessionOf
<1>7. Findable'
  <2>1. ASSUME NEW t \in DOMAIN forum \ forgotten'
        PROVE  \/ topics'[forum[t].session].topic = t
               \/ inflight'[forum[t].session] # 0 /\ frames'[inflight'[forum[t].session]].topic = t
    <3>1. forum[t].session \in Member /\ t # 0
      BY Typed DEF TopicInv
    <3>2. topics[forum[t].session].topic = t \/ (inflight[forum[t].session] # 0 /\ frames[inflight[forum[t].session]].topic = t)
      BY DEF TopicInv, Findable
    <3>3. CASE forum[t].session = s
      <4>1. topics[s].topic = 0
        BY <1>2 DEF TopicInv, CallsFit
      <4>. QED BY <4>1, <3>1, <3>2, <3>3, <1>2
    <3>4. CASE forum[t].session # s
      <4>1. inflight[forum[t].session] # 0 =>
              inflight[forum[t].session] \in Handler /\ frames[inflight[forum[t].session]].at = "creating"
        BY <3>1, <1>1 DEF TopicInv, CallsFit
      <4>. QED BY <4>1, <3>1, <3>2, <3>4, <1>3, <1>4
    <3>. QED BY <3>3, <3>4
  <2>. QED BY <2>1 DEF Findable
<1>. QED BY <1>5, <1>6, <1>7 DEF TopicInv

\* Whatever getOrCreateTopic() does, a topic that is not lost stays findable.
LEMMA GetsKeeps ==
  ASSUME TopicInv, NEW f \in Handler, NEW h \in Handling, h.conn \in DOMAIN conns, h.topic = 0,
         frames[f].at # "creating", GetsOrCreates(f, h), ConnsStand,
         UNCHANGED <<forum, topics, topicsFile, forgotten>>
  PROVE  TopicInv'
<1>1. TopicTypes /\ conns[h.conn].session \in Member /\ h.conn \in DOMAIN conns'
  BY Typed DEF TopicInv, ConnsStand
<1>2. forum' \in Seq(ForumTopic) /\ topics' \in Registry
  BY <1>1 DEF TopicTypes
<1>3. ASSUME NEW x \in Handling, frames' = [frames EXCEPT ![f] = x], x.at # "creating",
             x.at \in {"idle", "asking"} => x.topic = 0, x.at # "idle" => x.conn = h.conn,
             UNCHANGED inflight, saves' \subseteq saves \cup {topics}
      PROVE  TopicInv'
  <2>1. frames' \in [Handler -> Handling] /\ \A g \in Handler : Aside(g)
    BY <1>1, <1>3, OneAside
  <2>. QED BY <1>2, <1>3, <2>1, AsideKeeps
<1>4. CASE KnowsTopic(f, h)
  <2> DEFINE topic == topics[SessionOf(h)].topic
             x == Named(h, topics, topic)
  <2>1. frames' = [frames EXCEPT ![f] = x] /\ saves' = saves \cup {topics} /\ UNCHANGED inflight
    BY <1>4 DEF KnowsTopic, Continue
  <2>2. topic \in Nat
    BY <1>1 DEF TopicTypes, Registry, SessionOf
  <2> HIDE DEF topic
  <2>3. /\ x \in Handling /\ x.at \in {"idle", "renaming"}
        /\ x.at = "renaming" => x.conn = h.conn
        /\ x.at = "idle" => x.topic = 0
    BY <1>1, <2>2, NamedNext
  <2> HIDE DEF x
  <2>. QED BY <1>3, <2>1, <2>3
<1>5. CASE SharesCall(f, h)
  <2> DEFINE x == [h EXCEPT !.at = "sharing", !.of = inflight[SessionOf(h)]]
  <2>1. frames' = [frames EXCEPT ![f] = x] /\ UNCHANGED <<saves, inflight>>
    BY <1>5 DEF SharesCall, Continue
  <2>2. inflight[SessionOf(h)] \in Handler \cup {0}
    BY <1>1 DEF TopicTypes, SessionOf
  <2>3. x \in Handling /\ x.at = "sharing" /\ x.conn = h.conn
    BY <2>2 DEF Handling, Doings
  <2> HIDE DEF x
  <2>. QED BY <1>3, <2>1, <2>3
<1>6. CASE StartsCall(f, h)
  BY <1>6, CallStarts
<1>. QED BY <1>4, <1>5, <1>6 DEF GetsOrCreates

LEMMA ArrivalKeeps ==
  ASSUME TopicInv, NEW f \in Handler, NEW c \in DOMAIN conns, NEW title \in Names, FrameArrives(f, c, title)
  PROVE  TopicInv'
<1> DEFINE h == [Idle EXCEPT !.conn = c, !.title = title]
<1>1. TopicTypes /\ c \in Nat /\ frames[f].at = "idle" /\ UNCHANGED <<forum, topics, topicsFile, forgotten>>
  BY Typed DEF TopicInv, FrameArrives
<1>2. /\ h \in Handling /\ h.conn = c /\ h.topic = 0 /\ h.at = "idle"
  BY <1>1 DEF Idle, Handling, Doings, Names
<1>3. ConnsStand
  <2>1. conns' = conns \/ conns' = [conns EXCEPT ![c].identity = title]
    BY DEF FrameArrives
  <2>. QED BY <1>1, <2>1, ConnectionStands
<1>4. forum' \in Seq(ForumTopic) /\ topics' \in Registry /\ c \in DOMAIN conns'
  BY <1>1, <1>3 DEF TopicTypes, ConnsStand
<1>5. ASSUME NEW x \in Handling, frames' = [frames EXCEPT ![f] = x], x.at # "creating",
             x.at \in {"idle", "asking"} => x.topic = 0, x.at # "idle" => x.conn = c,
             UNCHANGED <<inflight, saves>>
      PROVE  TopicInv'
  <2>1. frames' \in [Handler -> Handling] /\ \A g \in Handler : Aside(g)
    BY <1>1, <1>4, <1>5, OneAside
  <2>. QED BY <1>1, <1>3, <1>4, <1>5, <2>1, AsideKeeps
<1>6. \/ frames' = [frames EXCEPT ![f] = FallsBack(h)] /\ UNCHANGED <<inflight, saves>>
      \/ frames' = [frames EXCEPT ![f] = [h EXCEPT !.at = "asking"]] /\ UNCHANGED <<inflight, saves>>
      \/ GetsOrCreates(f, h)
  BY DEF FrameArrives, Continue
<1>7. [h EXCEPT !.at = "asking"] \in Handling /\ [h EXCEPT !.at = "asking"].at = "asking"
      /\ [h EXCEPT !.at = "asking"].conn = c /\ [h EXCEPT !.at = "asking"].topic = 0
  BY <1>2 DEF Handling, Doings
<1> HIDE DEF h
<1>8. /\ FallsBack(h) \in Handling /\ FallsBack(h).at \in {"idle", "renaming"}
      /\ FallsBack(h).at = "renaming" => FallsBack(h).conn = c
      /\ FallsBack(h).at = "idle" => FallsBack(h).topic = 0
  BY <1>1, <1>2, FallsNext
<1>9. CASE frames' = [frames EXCEPT ![f] = FallsBack(h)] /\ UNCHANGED <<inflight, saves>>
  BY <1>5, <1>8, <1>9
<1>10. CASE frames' = [frames EXCEPT ![f] = [h EXCEPT !.at = "asking"]] /\ UNCHANGED <<inflight, saves>>
  BY <1>5, <1>7, <1>10
<1>11. CASE GetsOrCreates(f, h)
  BY <1>1, <1>2, <1>3, <1>11, GetsKeeps
<1>. QED BY <1>6, <1>9, <1>10, <1>11

LEMMA ChatKeeps ==
  ASSUME TopicInv, NEW f \in Handler, ChatKnown(f) \/ ChatUnknown(f)
  PROVE  TopicInv'
<1>1. /\ TopicTypes /\ frames[f].at = "asking" /\ UNCHANGED <<forum, topics, topicsFile, forgotten, conns>>
      /\ frames[f] \in Handling /\ frames[f].conn \in DOMAIN conns
  BY DEF TopicInv, TopicTypes, ChatKnown, ChatUnknown, diskVars
<1>2. frames[f].topic = 0
  BY <1>1 DEF TopicInv, CallsFit
<1>3. ConnsStand
  BY <1>1, ConnectionStands
<1>4. CASE ChatKnown(f)
  BY <1>1, <1>2, <1>3, <1>4, GetsKeeps DEF ChatKnown
<1>5. CASE ChatUnknown(f)
  <2> DEFINE x == FallsBack(frames[f])
  <2>1. frames' = [frames EXCEPT ![f] = x] /\ UNCHANGED <<inflight, saves, topicsFile>>
    BY <1>5 DEF ChatUnknown, Continue, diskVars
  <2>2. /\ x \in Handling /\ x.at \in {"idle", "renaming"}
        /\ x.at = "renaming" => x.conn = frames[f].conn
        /\ x.at = "idle" => x.topic = 0
    BY <1>1, FallsNext
  <2> HIDE DEF x
  <2>3. frames' \in [Handler -> Handling] /\ \A g \in Handler : Aside(g)
    BY <1>1, <2>1, <2>2, OneAside
  <2>4. forum' \in Seq(ForumTopic) /\ topics' \in Registry
    BY <1>1 DEF TopicTypes
  <2>. QED BY <1>1, <1>3, <2>1, <2>3, <2>4, AsideKeeps
<1>. QED BY <1>4, <1>5

\* The answer of createForumTopic, or its loss.
LEMMA AnswerKeeps ==
  ASSUME TopicInv, NEW f \in Handler, TopicKnown(f) \/ TopicFails(f)
  PROVE  TopicInv'
<1> DEFINE s == SessionOf(frames[f])
           t == frames[f].topic
<1>1. /\ TopicTypes /\ frames[f].at = "creating" /\ CallOver(f) /\ UNCHANGED <<forum, topicsFile>>
      /\ frames \in [Handler -> Handling] /\ frames[f] \in Handling
      /\ topics \in Registry /\ saves \subseteq Registry
      /\ \A g \in Handler : frames[g].at # "idle" => frames[g].conn \in DOMAIN conns
  BY DEF TopicInv, TopicTypes, TopicKnown, TopicFails, diskVars
<1>2. s \in Member /\ t \in Nat /\ frames[f].given \in Names
  BY <1>1, Typed DEF SessionOf, Handling
<1>3. t # 0 => t \in DOMAIN forum /\ forum[t].session = s
  BY <1>1 DEF TopicInv, CallsFit
<1>4. Points(topics) /\ Points(topicsFile) /\ \A r \in saves : Points(r)
  BY DEF TopicInv
<1>5. \A r : Points(r) = (\A u \in Member : r[u].topic # 0 =>
                            r[u].topic \in DOMAIN forum /\ forum[r[u].topic].session = u)
  BY DEF Points
<1>6. \A g \in WaitingFor(f) : g \in Handler /\ frames[g].at # "idle"
  BY <1>1 DEF WaitingFor
<1>7. CASE TopicKnown(f)
  <2> DEFINE known == [topics EXCEPT ![s] = [topic |-> t, name |-> frames[f].given]]
             after == [g \in Handler |-> IF g \in WaitingFor(f) THEN Named(frames[g], known, t) ELSE frames[g]]
  <2>1. /\ t # 0 /\ topics' = known /\ saves' = saves \cup {known} /\ frames' = after
        /\ UNCHANGED <<conns, forgotten>>
    BY <1>7 DEF TopicKnown, Continue
  <2>2. known \in Registry /\ known[s].topic = t /\ \A u \in Member \ {s} : known[u] = topics[u]
    BY <1>1, <1>2 DEF Registry
  <2>3. Points(known)
    BY <1>3, <1>4, <1>5, <2>1, <2>2
  <2>4. ConnsStand
    <3>1. conns \in Seq(Connection)
      BY <1>1 DEF TopicTypes
    <3>. QED BY <2>1, <3>1 DEF ConnsStand
  <2> HIDE DEF known
  <2>5. /\ frames' \in [Handler -> Handling] /\ \A g \in Handler \ WaitingFor(f) : frames'[g] = frames[g]
        /\ \A g \in WaitingFor(f) : frames'[g] = Named(frames[g], known, t)
    BY <1>1, <1>2, <1>6, <2>1, NamedNext
  <2>6. ASSUME NEW g \in WaitingFor(f)
        PROVE  /\ frames'[g].at \in {"idle", "renaming"}
               /\ frames'[g].at = "idle" => frames'[g].topic = 0
               /\ frames'[g].at = "renaming" => frames'[g].conn \in DOMAIN conns'
    <3>1. frames[g] \in Handling /\ frames[g].conn \in DOMAIN conns
      BY <1>1, <1>6
    <3>2. /\ Named(frames[g], known, t).at \in {"idle", "renaming"}
          /\ Named(frames[g], known, t).at = "renaming" => Named(frames[g], known, t).conn = frames[g].conn
          /\ Named(frames[g], known, t).at = "idle" => Named(frames[g], known, t).topic = 0
      BY <1>1, <1>2, <3>1, NamedNext
    <3>. QED BY <2>1, <2>5, <3>1, <3>2
  <2>7. Points(topics)' /\ Points(topicsFile)' /\ \A r \in saves' : Points(r)'
    BY <1>1, <1>4, <2>1, <2>3 DEF Points
  <2>8. /\ topics' \in Registry /\ saves' \subseteq Registry /\ topics'[s].topic = t
        /\ \A u \in Member \ {s} : topics'[u].topic = topics[u].topic
    BY <1>1, <2>1, <2>2
  <2> HIDE DEF s, t, after
  <2>9. s = SessionOf(frames[f]) /\ t = frames[f].topic
    BY DEF s, t
  <2>. QED BY <1>1, <2>1, <2>4, <2>5, <2>6, <2>7, <2>8, <2>9, CallEnds
<1>8. CASE TopicFails(f)
  <2> DEFINE after == [g \in Handler |-> IF g \in WaitingFor(f) THEN FallsBack(frames[g]) ELSE frames[g]]
             failed == [c \in DOMAIN conns |->
                          IF \E g \in WaitingFor(f) : frames[g].conn = c
                          THEN [conns[c] EXCEPT !.failed = TRUE] ELSE conns[c]]
  <2>1. /\ frames' = after /\ forgotten' = forgotten \cup ({t} \ {0}) /\ conns' = failed
        /\ UNCHANGED <<topics, saves>>
    BY <1>8 DEF TopicFails, Continue, diskVars
  <2>2. ConnsStand
    <3>1. Len(conns) \in Nat /\ DOMAIN conns = 1 .. Len(conns) /\ \A c \in DOMAIN conns : conns[c] \in Connection
      <4>1. conns \in Seq(Connection)
        BY <1>1 DEF TopicTypes
      <4>. QED BY <4>1, Elements
    <3>2. \A c \in DOMAIN conns : failed[c] \in Connection /\ failed[c].session = conns[c].session
      BY <3>1 DEF Connection
    <3>3. DOMAIN failed = 1 .. Len(conns)
      BY <3>1
    <3>4. failed \in [1 .. Len(conns) -> Connection]
      BY <3>1, <3>2
    <3> HIDE DEF failed
    <3>5. failed \in Seq(Connection)
      BY <3>1, <3>4
    <3>. QED BY <2>1, <3>1, <3>2, <3>3, <3>5 DEF ConnsStand
  <2>3. /\ frames' \in [Handler -> Handling] /\ \A g \in Handler \ WaitingFor(f) : frames'[g] = frames[g]
        /\ \A g \in WaitingFor(f) : frames'[g] = FallsBack(frames[g])
    BY <1>1, <1>6, <2>1, FallsNext
  <2>4. ASSUME NEW g \in WaitingFor(f)
        PROVE  /\ frames'[g].at \in {"idle", "renaming"}
               /\ frames'[g].at = "idle" => frames'[g].topic = 0
               /\ frames'[g].at = "renaming" => frames'[g].conn \in DOMAIN conns'
    <3>1. frames[g] \in Handling /\ frames[g].conn \in DOMAIN conns
      BY <1>1, <1>6
    <3>2. /\ FallsBack(frames[g]).at \in {"idle", "renaming"}
          /\ FallsBack(frames[g]).at = "renaming" => FallsBack(frames[g]).conn = frames[g].conn
          /\ FallsBack(frames[g]).at = "idle" => FallsBack(frames[g]).topic = 0
      BY <1>1, <3>1, FallsNext
    <3>. QED BY <2>2, <2>3, <3>1, <3>2 DEF ConnsStand
  <2>5. Points(topics)' /\ Points(topicsFile)' /\ \A r \in saves' : Points(r)'
    BY <1>1, <1>4, <2>1 DEF Points
  <2>6. /\ topics' \in Registry /\ saves' \subseteq Registry
        /\ \A u \in Member \ {s} : topics'[u].topic = topics[u].topic
        /\ forgotten \subseteq forgotten'
        /\ t \in DOMAIN forum => t \in forgotten'
    <3>1. t \in DOMAIN forum => t # 0
      BY <1>1, Typed
    <3>. QED BY <1>1, <2>1, <3>1
  <2> HIDE DEF s, t, after, failed
  <2>7. s = SessionOf(frames[f]) /\ t = frames[f].topic
    BY DEF s, t
  <2>. QED BY <1>1, <2>1, <2>2, <2>3, <2>4, <2>5, <2>6, <2>7, CallEnds
<1>. QED BY <1>7, <1>8

\* A rename gives the topic, and then its registry entry, another name and nothing else.
LEMMA RenameKeeps ==
  ASSUME TopicInv, NEW f \in Handler, NameGiven(f) \/ NameKnown(f) \/ NameRefused(f) \/ NameFails(f)
  PROVE  TopicInv'
<1>1. /\ TopicTypes /\ frames[f] \in Handling /\ frames[f].at \in {"renaming", "renamed"}
      /\ UNCHANGED <<inflight, conns, topicsFile, forgotten>>
      /\ frames \in [Handler -> Handling] /\ forum \in Seq(ForumTopic) /\ topics \in Registry
      /\ frames[f].conn \in DOMAIN conns /\ conns \in Seq(Connection)
  BY DEF TopicInv, TopicTypes, NameGiven, NameKnown, NameRefused, NameFails, Applies, diskVars
<1>2. ConnsStand
  BY <1>1 DEF ConnsStand
<1>3. ASSUME NEW x \in Handling, frames' = [frames EXCEPT ![f] = x], x.at \in {"idle", "renamed"},
             x.at = "idle" => x.topic = 0, x.conn = frames[f].conn \/ x.at = "idle"
      PROVE  frames' \in [Handler -> Handling] /\ \A g \in Handler : Aside(g)
  BY <1>1, <1>3, OneAside
<1>4. Idle \in Handling /\ Idle.at = "idle" /\ Idle.topic = 0
  BY DEF Idle, Handling, Doings, Names
<1>5. CASE NameGiven(f)
  <2> DEFINE x == [frames[f] EXCEPT !.at = "renamed"]
             t == frames[f].topic
             m == [forum[t] EXCEPT !.name = frames[f].title]
  <2>1. /\ frames' = [frames EXCEPT ![f] = x] /\ UNCHANGED <<topics, saves>>
        /\ forum' = forum \/ forum' = [forum EXCEPT ![t] = m]
    BY <1>5 DEF NameGiven, diskVars
  <2>2. x \in Handling /\ x.at = "renamed" /\ x.conn = frames[f].conn
    BY <1>1 DEF Handling, Doings
  <2> HIDE DEF x
  <2>3. frames' \in [Handler -> Handling] /\ \A g \in Handler : Aside(g)
    BY <1>3, <2>1, <2>2
  <2>4. /\ forum' \in Seq(ForumTopic) /\ DOMAIN forum' = DOMAIN forum
        /\ \A u \in DOMAIN forum : forum'[u].session = forum[u].session
    <3>1. CASE forum' = forum
      BY <3>1, <1>1
    <3>2. CASE t \in DOMAIN forum /\ forum' = [forum EXCEPT ![t] = m]
      <4>1. forum[t] \in ForumTopic /\ frames[f].title \in Names
        BY <1>1, <3>2, Typed DEF Handling
      <4>2. m \in ForumTopic /\ m.session = forum[t].session
        BY <4>1 DEF ForumTopic
      <4> HIDE DEF m
      <4>. QED BY <1>1, <3>2, <4>2, Replaced
    <3>3. CASE t \notin DOMAIN forum /\ forum' = [forum EXCEPT ![t] = m]
      <4> HIDE DEF m, t
      <4>1. DOMAIN forum = 1 .. Len(forum) /\ forum = [u \in DOMAIN forum |-> forum[u]]
        BY <1>1, Elements
      <4>2. [forum EXCEPT ![t] = m] = forum
        BY <3>3, <4>1
      <4>. QED BY <1>1, <3>3, <4>2
    <3>. QED BY <2>1, <3>1, <3>2, <3>3
  <2>. QED BY <1>1, <1>2, <2>1, <2>3, <2>4, AsideKeeps
<1>6. CASE Applies(f) /\ UNCHANGED forum
  <2> DEFINE s == SessionOf(frames[f])
             n == IF topics[s].name # frames[f].title /\ topics[s].topic # 0 THEN frames[f].title ELSE topics[s].name
  <2>1. /\ frames' = [frames EXCEPT ![f] = Idle] /\ saves' = saves \cup {topics'}
        /\ topics' = [topics EXCEPT ![s].name = n]
    BY <1>6 DEF Applies
  <2>2. s \in Member /\ frames[f].title \in Names
    BY <1>1, Typed DEF SessionOf, Handling
  <2>3. topics' \in Registry /\ \A u \in Member : topics'[u].topic = topics[u].topic
    BY <1>1, <2>1, <2>2 DEF Registry
  <2>4. frames' \in [Handler -> Handling] /\ \A g \in Handler : Aside(g)
    BY <1>3, <1>4, <2>1
  <2>. QED BY <1>1, <1>2, <1>6, <2>1, <2>3, <2>4, AsideKeeps
<1>7. CASE NameFails(f)
  <2>1. frames' = [frames EXCEPT ![f] = Idle] /\ UNCHANGED <<forum, topics, saves>>
    BY <1>7 DEF NameFails, diskVars
  <2>2. frames' \in [Handler -> Handling] /\ \A g \in Handler : Aside(g)
    BY <1>3, <1>4, <2>1
  <2>. QED BY <1>1, <1>2, <2>1, <2>2, AsideKeeps
<1>. QED BY <1>5, <1>6, <1>7 DEF NameKnown, NameRefused

LEMMA QuietKeeps ==
  ASSUME TopicInv, UNCHANGED forumSide, UNCHANGED forgotten,
         \A r \in saves' \cup {topicsFile'} : r \in saves \cup {topicsFile},
         \/ \E s \in Member : SocketOpens(s)
         \/ \E c \in DOMAIN conns : SocketCloses(c)
         \/ UNCHANGED conns
  PROVE  TopicInv'
<1>1. /\ TopicTypes /\ frames \in [Handler -> Handling] /\ forum \in Seq(ForumTopic) /\ topics \in Registry
      /\ conns \in Seq(Connection) /\ UNCHANGED <<forum, topics, inflight, frames>>
  BY DEF TopicInv, TopicTypes, forumSide
<1>2. ConnsStand
  <2>1. ASSUME NEW s \in Member, SocketOpens(s) PROVE ConnsStand
    <3> DEFINE e == [session |-> s, identity |-> Short, failed |-> FALSE, open |-> TRUE]
    <3>1. e \in Connection
      BY DEF Connection, Names
    <3>2. conns' = Append(conns, e)
      BY <2>1 DEF SocketOpens
    <3> HIDE DEF e
    <3>. QED BY <1>1, <3>1, <3>2, OneMore DEF ConnsStand
  <2>2. ASSUME NEW c \in DOMAIN conns, SocketCloses(c) PROVE ConnsStand
    BY <1>1, <2>2, ConnectionStands DEF SocketCloses
  <2>3. UNCHANGED conns => ConnsStand
    BY <1>1 DEF ConnsStand
  <2>. QED BY <2>1, <2>2, <2>3
<1>3. \A g \in Handler : Aside(g)
  BY <1>1 DEF Aside
<1>. QED BY <1>1, <1>2, <1>3, AsideKeeps

\* A daemon that starts again finds the topics of the registry on disk; the others count
\* as lost.
LEMMA AgainKeeps ==
  ASSUME TopicInv, DaemonAgain
  PROVE  TopicInv'
<1>1. /\ topics' = topicsFile /\ inflight' = [s \in Member |-> 0] /\ saves' = {} /\ UNCHANGED <<forum, topicsFile>>
      /\ frames' = [f \in Handler |-> Idle] /\ forgotten' = DOMAIN forum \ {topicsFile[s].topic : s \in Member}
      /\ conns' = [c \in DOMAIN conns |-> [conns[c] EXCEPT !.open = FALSE]]
  BY DEF DaemonAgain
<1>2. Idle \in Handling /\ Idle.at = "idle" /\ Idle.topic = 0
  BY DEF Idle, Handling, Doings, Names
<1>3. TopicTypes'
  <2>1. Len(conns) \in Nat /\ DOMAIN conns = 1 .. Len(conns) /\ \A c \in DOMAIN conns : conns[c] \in Connection
    <3>1. conns \in Seq(Connection)
      BY DEF TopicInv, TopicTypes
    <3>. QED BY <3>1, Elements
  <2>2. \A c \in DOMAIN conns : [conns[c] EXCEPT !.open = FALSE] \in Connection
    BY <2>1 DEF Connection
  <2>3. conns' \in [1 .. Len(conns) -> Connection]
    BY <1>1, <2>1, <2>2
  <2>4. conns' \in Seq(Connection)
    BY <2>1, <2>3
  <2>. QED BY <1>1, <1>2, <2>4 DEF TopicTypes, TopicInv
<1>4. CallsFit'
  BY <1>1, <1>2 DEF CallsFit
<1>5. Points(topicsFile) /\ \A s \in Member : topicsFile[s].topic # 0 =>
        topicsFile[s].topic \in DOMAIN forum /\ forum[topicsFile[s].topic].session = s
  BY DEF TopicInv, Points
<1>6. Findable'
  <2>1. \A t \in DOMAIN forum : t # 0
    BY Typed DEF TopicInv
  <2>. QED BY <1>1, <1>5, <2>1 DEF Findable
<1>7. Points(topics)' /\ Points(topicsFile)' /\ \A r \in saves' : Points(r)'
  BY <1>1, <1>5 DEF Points
<1>. QED BY <1>3, <1>4, <1>6, <1>7 DEF TopicInv

LEMMA TopicStep == TopicInv /\ [TopicsNext]_topicVars => TopicInv'
<1>1. SUFFICES ASSUME TopicInv, [TopicsNext]_topicVars PROVE TopicInv'
  OBVIOUS
<1>2. ASSUME NEW f \in Handler, NEW c \in DOMAIN conns, NEW title \in Title \cup {Short}, FrameArrives(f, c, title)
      PROVE  TopicInv'
  BY <1>1, <1>2, ArrivalKeeps DEF Names
<1>3. ASSUME NEW f \in Handler,
             \/ ChatKnown(f) \/ ChatUnknown(f) \/ TopicMade(f) \/ TopicKnown(f) \/ TopicFails(f)
             \/ NameGiven(f) \/ NameKnown(f) \/ NameRefused(f) \/ NameFails(f)
      PROVE  TopicInv'
  BY <1>1, <1>3, ChatKeeps, MadeKeeps, AnswerKeeps, RenameKeeps
<1>4. ASSUME NEW registry \in saves, SaveLands(registry) \/ SaveIsLost(registry) PROVE TopicInv'
  <2>1. /\ UNCHANGED <<forumSide, forgotten, conns>>
        /\ \A r \in saves' \cup {topicsFile'} : r \in saves \cup {topicsFile}
    BY <1>4 DEF SaveLands, SaveIsLost
  <2>. QED BY <1>1, <2>1, QuietKeeps
<1>5. ASSUME NEW s \in Member, SocketOpens(s) PROVE TopicInv'
  <2>1. UNCHANGED <<forumSide, forgotten, saves, topicsFile>>
    BY <1>5 DEF SocketOpens, diskVars
  <2>. QED BY <1>1, <1>5, <2>1, QuietKeeps
<1>6. ASSUME NEW c \in DOMAIN conns, SocketCloses(c) PROVE TopicInv'
  <2>1. UNCHANGED <<forumSide, forgotten, saves, topicsFile>>
    BY <1>6 DEF SocketCloses, diskVars
  <2>. QED BY <1>1, <1>6, <2>1, QuietKeeps
<1>7. CASE DaemonAgain
  BY <1>1, <1>7, AgainKeeps
<1>8. CASE UNCHANGED topicVars
  <2>1. UNCHANGED <<forumSide, forgotten, saves, topicsFile, conns>>
    BY <1>8 DEF topicVars, diskVars
  <2>. QED BY <1>1, <2>1, QuietKeeps
<1>. QED BY <1>1, <1>2, <1>3, <1>4, <1>5, <1>6, <1>7, <1>8 DEF TopicsNext

\* However many frames first use a session together, and however its socket and the daemon
\* come and go, a session has no two topics that are not lost (getOrCreateTopic).
THEOREM OneTopicEach == TopicsSpec => []OneTopicPerSession
<1>1. TopicInv => OneTopicPerSession
  <2>1. SUFFICES ASSUME TopicInv, NEW t \in DOMAIN forum \ forgotten, NEW u \in DOMAIN forum \ forgotten,
                        forum[t].session = forum[u].session
                 PROVE  t = u
    BY DEF OneTopicPerSession
  <2>2. /\ topics[forum[t].session].topic = t
           \/ (inflight[forum[t].session] # 0 /\ frames[inflight[forum[t].session]].topic = t)
        /\ topics[forum[u].session].topic = u
           \/ (inflight[forum[u].session] # 0 /\ frames[inflight[forum[u].session]].topic = u)
    BY <2>1 DEF TopicInv, Findable
  <2>3. forum[t].session \in Member /\ t # 0 /\ u # 0
    BY <2>1, Typed DEF TopicInv
  <2>4. inflight[forum[t].session] # 0 => topics[forum[t].session].topic = 0
    BY <2>1, <2>3 DEF TopicInv, CallsFit
  <2>. QED BY <2>1, <2>2, <2>3, <2>4
<1>. QED BY <1>1, TopicsStart, TopicStep, PTL DEF TopicsSpec

---------------------------------------------------------------------------
(* Prompts from the chat                                                   *)

Generations == 0 .. MaxChanges
Known == -1 .. MaxChanges
UpFrame ==
  [type : {"discord_control"}, on : BOOLEAN, generation : Generations]
    \cup [type : {"ack"}, prompt : Prompt, ok : BOOLEAN]
    \cup [type : {"remote_final"}, prompt : Prompt, ok : BOOLEAN, generation : Known]
DownFrame ==
  [type : {"remote_request"}, prompt : Prompt, generation : Known]
    \cup [type : {"remote_cancel"}, prompt : Prompt]

SessionTypes ==
  /\ granted \in BOOLEAN /\ generation \in Generations
  /\ down \in [Link -> Seq(DownFrame)] /\ up \in [Link -> Seq(UpFrame)]
  /\ controllers \in [Link -> Prompt \cup {0}] /\ resolving \subseteq Prompt
  /\ under \in [Prompt -> Known] /\ revoked \subseteq Prompt
  /\ pending \in Prompt \cup {0} /\ exclusive \in Prompt \cup {0} /\ mixed \in BOOLEAN

DaemonTypes ==
  /\ link \in 0 .. opened /\ opened \in 0 .. MaxLinks /\ sockets \subseteq 1 .. opened
  /\ view \in [on : BOOLEAN, generation : Known]
  /\ prompted \in 0 .. Prompts /\ line \in Seq(1 .. prompted)
  /\ step \in {"wait", "stage", "sent", "acked", "answer"}
  /\ origin \in [Prompt -> [link : 0 .. opened, generation : Known]]
  /\ answered \in Known

\* Where a prompt is: not yet sent to the session, in a request under way, in the session,
\* or through.
Sent == step \notin {"wait", "stage"}
Unsent == {p \in Prompt : p > prompted \/ \E i \in DOMAIN line : line[i] = p /\ (i > 1 \/ ~Sent)}
RequestAt(c, i, p) ==
  i \in DOMAIN down[c] /\ down[c][i].type = "remote_request" /\ down[c][i].prompt = p
Asked == {p \in Prompt : \E c \in Link : \E i \in DOMAIN down[c] : RequestAt(c, i, p)}
Live == resolving \cup ({pending, exclusive} \ {0})
Done == Prompt \ (Unsent \cup Asked \cup Live)

\* The prompts queue in the order they were posted, and each has one place at a time.
LineInv ==
  /\ \A i, j \in DOMAIN line : i < j => line[i] < line[j]
  /\ line = <<>> => step = "wait"
OneRequest ==
  \A c, d \in Link : \A i \in DOMAIN down[c], j \in DOMAIN down[d] : \A p \in Prompt :
    RequestAt(c, i, p) /\ RequestAt(d, j, p) => c = d /\ i = j
PlaceInv ==
  Unsent \cap Asked = {} /\ Unsent \cap Live = {} /\ Asked \cap Live = {} /\ OneRequest
StageInv ==
  /\ pending \notin resolving /\ exclusive \notin resolving /\ (pending # 0 => pending # exclusive)
  /\ repl \in {"prompt", "busy", "injected", "turn"}
  /\ repl \in {"prompt", "busy"} <=> exclusive = 0

\* A prompt is asked for on its own socket and under its own generation.
RequestsFit ==
  \A c \in Link : \A i \in DOMAIN down[c] : down[c][i].type = "remote_request" =>
    /\ down[c][i].generation = origin[down[c][i].prompt].generation
    /\ origin[down[c][i].prompt].link = c
GrantInv ==
  /\ view.generation <= generation
  /\ \A p \in 1 .. prompted : origin[p].generation <= generation /\ origin[p].link # 0
  /\ RequestsFit
  /\ \A p \in Live : under[p] = origin[p].generation

\* What the session says of a prompt: that it is over, and if all went well, undisturbed.
Fits(m) ==
  /\ m.type = "discord_control" => m.generation <= generation
  /\ m.type = "remote_final" =>
       m.prompt \in Done /\ (m.ok => m.prompt \notin spoiled /\ m.generation # -1)
  /\ m.type = "ack" => m.ok \/ m.prompt \in Done

\* A prompt whose grant or turn was interfered with is over, was sent under an older grant,
\* or is the one whose turn the loop knows to be mixed.
Accounted(p) == p \in Done \/ origin[p].generation < generation \/ (p = exclusive /\ mixed)
SpoiledInv ==
  /\ \A p \in spoiled : p \in 1 .. prompted /\ Accounted(p)
  /\ \A c \in Link : \A m \in ToSet(up[c]) : Fits(m)
  /\ step = "answer" => Head(line) \in Done \ spoiled
  /\ published \subseteq Done \ (ToSet(line) \cup spoiled)

\* A prompt that still goes on holds its socket, and one that was given up is either on a
\* socket that closes or will find its cancel.
CancelFrame(p) == [type |-> "remote_cancel", prompt |-> p]
Awaited == step \in {"sent", "acked"}
RequestsHeld ==
  \A c \in Link : \A i \in DOMAIN down[c] : down[c][i].type = "remote_request" =>
    \/ Awaited /\ Head(line) = down[c][i].prompt
    \/ link # c
    \/ \E j \in DOMAIN down[c] : j > i /\ down[c][j] = CancelFrame(down[c][i].prompt)
Held(p) == origin[p].link \in sockets /\ controllers[origin[p].link] = p
Stopping(p) ==
  \/ Awaited /\ Head(line) = p
  \/ link # origin[p].link
  \/ CancelFrame(p) \in ToSet(down[origin[p].link])
HeldInv ==
  /\ \A p \in Live \ revoked : Held(p) /\ Stopping(p)
  /\ link = 0 => ~view.on
  /\ Awaited => link # 0 /\ origin[Head(line)].link = link
  /\ RequestsHeld

RemoteInv ==
  /\ SessionTypes /\ DaemonTypes /\ LineInv /\ PlaceInv /\ StageInv /\ GrantInv /\ SpoiledInv
  /\ HeldInv

\* What is used of a wire: a frame at its end, and the first one taken.
LEMMA Longer ==
  ASSUME NEW S, NEW q \in Seq(S), NEW e \in S
  PROVE  Append(q, e) \in Seq(S) /\ ToSet(Append(q, e)) = ToSet(q) \cup {e}
BY OneMore DEF ToSet

LEMMA Shorter ==
  ASSUME NEW S, NEW q \in Seq(S), q # <<>>
  PROVE  /\ Tail(q) \in Seq(S) /\ Head(q) = q[1] /\ 1 \in DOMAIN q /\ q[1] \in S
         /\ \A i \in DOMAIN Tail(q) : /\ i \in Nat \ {0} /\ i + 1 \in DOMAIN q /\ Tail(q)[i] = q[i + 1]
         /\ \A i \in DOMAIN q : i > 1 => i - 1 \in DOMAIN Tail(q) /\ Tail(q)[i - 1] = q[i]
         /\ Head(q) \in ToSet(q) /\ ToSet(Tail(q)) \subseteq ToSet(q)
         /\ ToSet(q) = ToSet(Tail(q)) \cup {Head(q)}
<1>1. Len(q) \in Nat /\ Len(q) > 0 /\ DOMAIN q = 1 .. Len(q) /\ \A i \in DOMAIN q : q[i] \in S
  OBVIOUS
<1>2. Tail(q) \in Seq(S) /\ Head(q) = q[1] /\ Len(Tail(q)) = Len(q) - 1 /\ DOMAIN Tail(q) = 1 .. Len(q) - 1
  BY <1>1
<1>3. \A i \in 1 .. Len(q) - 1 : Tail(q)[i] = q[i + 1]
  BY <1>1
<1>4. \A i \in DOMAIN q : i > 1 => i - 1 \in DOMAIN Tail(q) /\ Tail(q)[i - 1] = q[i]
  BY <1>1, <1>2, <1>3
<1>5. \A i \in DOMAIN Tail(q) : i \in Nat \ {0} /\ i + 1 \in DOMAIN q /\ Tail(q)[i] = q[i + 1]
  BY <1>1, <1>2, <1>3
<1>6. ToSet(q) = ToSet(Tail(q)) \cup {Head(q)}
  <2>1. \A i \in DOMAIN q : i = 1 \/ q[i] \in ToSet(Tail(q))
    <3>1. \A i \in DOMAIN q : i = 1 \/ i > 1
      BY <1>1
    <3>. QED BY <3>1, <1>4 DEF ToSet
  <2>2. \A x \in ToSet(Tail(q)) \cup {Head(q)} : x \in ToSet(q)
    BY <1>1, <1>2, <1>5 DEF ToSet
  <2>. QED BY <1>2, <2>1, <2>2 DEF ToSet
<1>. QED BY <1>1, <1>2, <1>4, <1>5, <1>6

\* A request that is under way is of one of the prompts, on one of the wires.
LEMMA Frames ==
  ASSUME SessionTypes
  PROVE  /\ \A c \in Link : down[c] \in Seq(DownFrame) /\ up[c] \in Seq(UpFrame)
         /\ \A c \in Link : \A i \in DOMAIN down[c] :
              /\ i \in Nat \ {0} /\ down[c][i] \in DownFrame /\ down[c][i].prompt \in Prompt
              /\ down[c][i].type = "remote_request" => down[c][i].prompt \in Asked
         /\ \A c \in Link : \A m \in ToSet(up[c]) :
              /\ m \in UpFrame /\ m.type \in {"discord_control", "ack", "remote_final"}
              /\ m.type # "discord_control" => m.prompt \in Prompt
         /\ 0 \notin Prompt /\ 0 \notin Link
<1>1. \A c \in Link : down[c] \in Seq(DownFrame) /\ up[c] \in Seq(UpFrame)
  BY DEF SessionTypes
<1>2. \A c \in Link : \A i \in DOMAIN down[c] : i \in Nat \ {0} /\ down[c][i] \in DownFrame
  BY <1>1, Elements
<1>3. \A c \in Link : \A i \in DOMAIN down[c] : down[c][i].prompt \in Prompt
  BY <1>2 DEF DownFrame
<1>4. \A c \in Link : \A m \in ToSet(up[c]) : m \in UpFrame
  BY <1>1, Elements DEF ToSet
<1>5. \A m \in UpFrame : /\ m.type \in {"discord_control", "ack", "remote_final"}
                         /\ m.type # "discord_control" => m.prompt \in Prompt
  BY DEF UpFrame
<1>6. 0 \notin Prompt /\ 0 \notin Link
  BY DEF Prompt, Link
<1>. QED BY <1>1, <1>2, <1>3, <1>4, <1>5, <1>6 DEF Asked, RequestAt

\* A step that moves prompts only forward, says only what is so and spoils only what is under
\* way keeps the invariant, as far as it keeps the parts that are local to one side.
LEMMA StepAssembles ==
  ASSUME RemoteInv, SessionTypes', DaemonTypes', LineInv', StageInv', GrantInv', HeldInv', OneRequest',
         Unsent' \subseteq Unsent, Asked' \subseteq Asked \cup Unsent, Asked' \cap Unsent' = {},
         Live' \subseteq Live \cup Asked, Asked' \cap Live' = {},
         prompted <= prompted', generation <= generation',
         \A p \in 1 .. prompted : origin'[p] = origin[p],
         exclusive \in spoiled /\ mixed => exclusive \in Done' \/ (exclusive' = exclusive /\ mixed'),
         spoiled \subseteq spoiled',
         \A p \in spoiled' \ spoiled :
           /\ p \in 1 .. prompted /\ (origin[p].generation < generation' \/ (p = exclusive' /\ mixed'))
           /\ p \notin published /\ ~(step = "answer" /\ Head(line) = p)
           /\ \A c \in Link : \A m \in ToSet(up[c]) : ~(m.type = "remote_final" /\ m.ok /\ m.prompt = p),
         \A c \in Link : \A m \in ToSet(up'[c]) : m \in ToSet(up[c]) \/ Fits(m)',
         step' = "answer" => \/ step = "answer" /\ line' = line
                             \/ Head(line') \in Done \ spoiled',
         \A p \in published' : p \notin ToSet(line') /\ (p \in published \/ p \in Done \ spoiled')
  PROVE  RemoteInv'
<1>0. SpoiledInv
  BY DEF RemoteInv
<1>1. Done \subseteq Done'
  BY DEF Done
<1>2. PlaceInv'
  BY DEF PlaceInv, RemoteInv
<1>3. \A p \in spoiled' : p \in 1 .. prompted' /\ Accounted(p)'
  <2>1. ASSUME NEW p \in spoiled PROVE p \in 1 .. prompted /\ Accounted(p)'
    <3>1. p \in 1 .. prompted /\ Accounted(p)
      BY <1>0 DEF SpoiledInv
    <3>2. origin[p].generation < generation => origin[p].generation < generation'
      <4>1. p \in Prompt /\ generation \in Int /\ generation' \in Int
        BY <3>1, RemoteBounds DEF RemoteInv, SessionTypes, DaemonTypes, Generations, Prompt
      <4>2. origin[p].generation \in Int
        BY <4>1, RemoteBounds DEF RemoteInv, DaemonTypes, Known
      <4>. QED BY <4>1, <4>2
    <3>. QED BY <1>1, <3>1, <3>2 DEF Accounted
  <2>2. prompted \in Nat /\ prompted' \in Nat
    BY RemoteBounds DEF RemoteInv, DaemonTypes
  <2>. QED BY <2>1, <2>2 DEF Accounted
<1>4. ASSUME NEW c \in Link, NEW m \in ToSet(up'[c]) PROVE Fits(m)'
  <2>1. CASE m \in ToSet(up[c])
    <3>1. Fits(m)
      BY <1>0, <2>1 DEF SpoiledInv
    <3>2. m.type = "discord_control" => m.generation <= generation'
      <4>1. m \in UpFrame /\ generation \in Int /\ generation' \in Int
        BY <2>1, Frames, RemoteBounds DEF RemoteInv, SessionTypes, Generations
      <4>2. m.type = "discord_control" => m.generation \in Int
        BY <4>1, RemoteBounds DEF UpFrame, Generations
      <4>. QED BY <3>1, <4>1, <4>2 DEF Fits
    <3>3. m.type = "remote_final" /\ m.ok => m.prompt \notin spoiled'
      BY <2>1, <3>1 DEF Fits
    <3>. QED BY <1>1, <3>1, <3>2, <3>3 DEF Fits
  <2>. QED BY <2>1
<1>5. step' = "answer" => Head(line') \in Done' \ spoiled'
  BY <1>0, <1>1 DEF SpoiledInv
<1>6. published' \subseteq Done' \ (ToSet(line') \cup spoiled')
  BY <1>0, <1>1 DEF SpoiledInv
<1>7. SpoiledInv'
  BY <1>3, <1>4, <1>5, <1>6 DEF SpoiledInv
<1>. QED BY <1>2, <1>7 DEF RemoteInv

\* Frames leave a wire from its front.
LEMMA WireDrops ==
  ASSUME RemoteInv, SessionTypes', UNCHANGED daemonSide, NEW shift \in [Link -> Nat],
         \A c \in Link : \A i \in DOMAIN down'[c] :
           i + shift[c] \in DOMAIN down[c] /\ down'[c][i] = down[c][i + shift[c]],
         \A c \in Link : \A i \in DOMAIN down'[c], k \in DOMAIN down[c] :
           k > i + shift[c] => k - shift[c] \in DOMAIN down'[c]
  PROVE  Asked' \subseteq Asked /\ OneRequest' /\ RequestsFit' /\ RequestsHeld'
<1>1. SessionTypes /\ OneRequest /\ RequestsFit /\ RequestsHeld
  BY DEF RemoteInv, PlaceInv, GrantInv, HeldInv
<1>2. \A c \in Link : \A i \in DOMAIN down'[c] : i \in Nat \ {0}
  BY Frames, Elements DEF SessionTypes
<1>3. \A c \in Link : \A i \in DOMAIN down'[c] : \A p : RequestAt(c, i, p)' => RequestAt(c, i + shift[c], p)
  BY DEF RequestAt
<1>4. Asked' \subseteq Asked
  BY <1>3 DEF Asked
<1>5. OneRequest'
  <2>1. ASSUME NEW c \in Link, NEW d \in Link, NEW i \in DOMAIN down'[c], NEW j \in DOMAIN down'[d],
               NEW p \in Prompt, RequestAt(c, i, p)', RequestAt(d, j, p)'
        PROVE  c = d /\ i = j
    <3>1. RequestAt(c, i + shift[c], p) /\ RequestAt(d, j + shift[d], p)
      BY <1>3, <2>1
    <3>2. c = d /\ i + shift[c] = j + shift[d]
      BY <1>1, <3>1 DEF OneRequest, RequestAt
    <3>3. i \in Nat /\ j \in Nat /\ shift[c] \in Nat
      BY <1>2
    <3>. QED BY <3>2, <3>3
  <2>. QED BY <2>1 DEF OneRequest
<1>6. RequestsFit'
  <2>1. origin' = origin
    BY DEF daemonSide
  <2>. QED BY <1>1, <2>1 DEF RequestsFit
<1>7. RequestsHeld'
  <2>1. step' = step /\ line' = line /\ link' = link
    BY DEF daemonSide
  <2>2. ASSUME NEW c \in Link, NEW i \in DOMAIN down'[c], down'[c][i].type = "remote_request"
        PROVE  \/ Awaited /\ Head(line) = down'[c][i].prompt
               \/ link # c
               \/ \E j \in DOMAIN down'[c] : j > i /\ down'[c][j] = CancelFrame(down'[c][i].prompt)
    <3>1. \/ Awaited /\ Head(line) = down'[c][i].prompt
          \/ link # c
          \/ \E k \in DOMAIN down[c] : k > i + shift[c] /\ down[c][k] = CancelFrame(down'[c][i].prompt)
      BY <1>1, <2>2 DEF RequestsHeld
    <3>2. ASSUME NEW k \in DOMAIN down[c], k > i + shift[c]
          PROVE  k - shift[c] \in DOMAIN down'[c] /\ k - shift[c] > i /\ down'[c][k - shift[c]] = down[c][k]
      <4>1. k \in Nat /\ i \in Nat /\ shift[c] \in Nat
        BY <1>1, <1>2, Frames
      <4>2. k - shift[c] \in DOMAIN down'[c]
        BY <3>2
      <4>3. down'[c][k - shift[c]] = down[c][(k - shift[c]) + shift[c]]
        BY <4>2
      <4>. QED BY <3>2, <4>1, <4>2, <4>3
    <3>. QED BY <3>1, <3>2
  <2>. QED BY <2>1, <2>2 DEF RequestsHeld, Awaited, CancelFrame
<1>. QED BY <1>4, <1>5, <1>6, <1>7

\* What a step of the session has to keep.
LEMMA SessionAssembles ==
  ASSUME RemoteInv, SessionTypes', StageInv', UNCHANGED <<daemonSide, published>>, sockets' \subseteq sockets,
         Asked' \subseteq Asked, OneRequest', RequestsFit', RequestsHeld',
         Live' \subseteq Live \cup Asked, Asked' \cap Live' = {}, generation <= generation',
         \A p \in Live' : under'[p] = origin[p].generation,
         \A p \in Live' \ revoked' : Held(p)' /\ Stopping(p)',
         exclusive \in spoiled /\ mixed => exclusive \in Done' \/ (exclusive' = exclusive /\ mixed'),
         spoiled \subseteq spoiled',
         \A p \in spoiled' \ spoiled :
           /\ p \in 1 .. prompted /\ (origin[p].generation < generation' \/ (p = exclusive' /\ mixed'))
           /\ p \notin published /\ ~(step = "answer" /\ Head(line) = p)
           /\ \A c \in Link : \A m \in ToSet(up[c]) : ~(m.type = "remote_final" /\ m.ok /\ m.prompt = p),
         \A c \in Link : \A m \in ToSet(up'[c]) : m \in ToSet(up[c]) \/ Fits(m)'
  PROVE  RemoteInv'
<1>1. UNCHANGED <<link, opened, view, prompted, line, step, origin, answered, published>>
  BY DEF daemonSide
<1>2. DaemonTypes'
  BY <1>1 DEF RemoteInv, DaemonTypes
<1>3. LineInv' /\ Unsent' = Unsent
  BY <1>1 DEF RemoteInv, LineInv, Unsent, Sent
<1>4. Unsent \cap Asked = {} /\ published \subseteq Done \ (ToSet(line) \cup spoiled)
  BY DEF RemoteInv, PlaceInv, SpoiledInv
<1>5. GrantInv'
  <2>1. generation \in Int /\ generation' \in Int /\ view.generation \in Int /\ prompted \in 0 .. Prompts
    BY RemoteBounds DEF RemoteInv, SessionTypes, DaemonTypes, Generations, Known
  <2>2. view.generation <= generation /\ \A p \in 1 .. prompted : origin[p].generation <= generation /\ origin[p].link # 0
    BY DEF RemoteInv, GrantInv
  <2>3. \A p \in 1 .. prompted : origin[p].generation \in Int
    BY <2>1, RemoteBounds DEF RemoteInv, DaemonTypes, Known, Prompt
  <2>4. view.generation <= generation' /\ \A p \in 1 .. prompted : origin[p].generation <= generation'
    BY <2>1, <2>2, <2>3
  <2>. QED BY <1>1, <2>2, <2>4 DEF GrantInv
<1>6. HeldInv'
  <2>1. (link = 0 => ~view.on) /\ (Awaited => link # 0 /\ origin[Head(line)].link = link)
    BY DEF RemoteInv, HeldInv
  <2>. QED BY <1>1, <2>1 DEF HeldInv, Awaited
<1>7. prompted <= prompted'
  BY <1>1, RemoteBounds DEF RemoteInv, DaemonTypes
<1>8. \A p \in published' : p \notin ToSet(line') /\ (p \in published \/ p \in Done \ spoiled')
  BY <1>1, <1>4
<1>. QED BY <1>1, <1>2, <1>3, <1>4, <1>5, <1>6, <1>7, <1>8, StepAssembles

\* A frame is put on a wire, up or down.
Put(w, c, e) == [w EXCEPT ![c] = Append(@, e)]

LEMMA SaysOne ==
  ASSUME NEW w \in [Link -> Seq(UpFrame)], NEW c \in Link, NEW e \in UpFrame
  PROVE  /\ Put(w, c, e) \in [Link -> Seq(UpFrame)] /\ Put(w, c, e)[c] = Append(w[c], e)
         /\ \A d \in Link : d # c => Put(w, c, e)[d] = w[d]
         /\ \A d \in Link : \A x : x \in ToSet(Put(w, c, e)[d]) <=> x \in ToSet(w[d]) \/ (d = c /\ x = e)
<1>1. w[c] \in Seq(UpFrame)
  OBVIOUS
<1>2. Append(w[c], e) \in Seq(UpFrame) /\ ToSet(Append(w[c], e)) = ToSet(w[c]) \cup {e}
  BY <1>1, Longer
<1>. QED BY <1>2 DEF Put

LEMMA AsksOne ==
  ASSUME NEW w \in [Link -> Seq(DownFrame)], NEW c \in Link, NEW e \in DownFrame
  PROVE  /\ Put(w, c, e) \in [Link -> Seq(DownFrame)] /\ Put(w, c, e)[c] = Append(w[c], e)
         /\ \A d \in Link : d # c => Put(w, c, e)[d] = w[d]
         /\ \A d \in Link : \A x : x \in ToSet(Put(w, c, e)[d]) <=> x \in ToSet(w[d]) \/ (d = c /\ x = e)
<1>1. w[c] \in Seq(DownFrame)
  OBVIOUS
<1>2. Append(w[c], e) \in Seq(DownFrame) /\ ToSet(Append(w[c], e)) = ToSet(w[c]) \cup {e}
  BY <1>1, Longer
<1>. QED BY <1>2 DEF Put

\* A prompt in the session has been posted, on a socket of its own.
LEMMA LivePosted ==
  ASSUME RemoteInv
  PROVE  /\ \A p \in Live : p \in 1 .. prompted /\ p \in Prompt /\ origin[p].link \in Link /\ p # 0
         /\ sockets \subseteq Link
<1>1. prompted \in 0 .. Prompts /\ opened \in 0 .. MaxLinks /\ Prompts \in Nat /\ MaxLinks \in Nat
  BY RemoteBounds DEF RemoteInv, DaemonTypes
<1>2. sockets \subseteq Link
  BY <1>1 DEF RemoteInv, DaemonTypes, Link
<1>3. \A p \in Live : p \in Prompt
  BY DEF RemoteInv, SessionTypes, Live
<1>4. \A p \in Live : p \notin Unsent
  BY DEF RemoteInv, PlaceInv
<1>5. \A p \in Live : ~(p > prompted)
  BY <1>3, <1>4 DEF Unsent
<1>6. \A p \in Live : p \in 1 .. prompted
  BY <1>1, <1>3, <1>5 DEF Prompt
<1>7. \A p \in Live : origin[p].link \in 0 .. opened /\ origin[p].link # 0
  BY <1>3, <1>6 DEF RemoteInv, DaemonTypes, GrantInv
<1>. QED BY <1>1, <1>2, <1>3, <1>6, <1>7 DEF Link, Prompt

\* What the end of a prompt says, where its socket is still there.
LEMMA ToldSays ==
  ASSUME RemoteInv, NEW w \in [Link -> Seq(UpFrame)], NEW p \in Prompt, NEW text \in BOOLEAN
  PROVE  /\ Told(p, text, w) \in [Link -> Seq(UpFrame)]
         /\ \A c \in Link : \A m \in ToSet(Told(p, text, w)[c]) :
              \/ m \in ToSet(w[c])
              \/ /\ m.type = "remote_final" /\ m.prompt = p /\ m.generation = under[p]
                 /\ m.ok => text /\ p \notin revoked /\ under[p] = generation
<1>1. PICK good \in BOOLEAN : good = (text /\ granted /\ p \notin revoked /\ under[p] = generation)
  BY DEF RemoteInv, SessionTypes
<1>2. PICK f : f = Final(p, good, under[p])
  OBVIOUS
<1>3. PICK d : d = origin[p].link
  OBVIOUS
<1>4. Told(p, text, w) = IF d \in sockets THEN Put(w, d, f) ELSE w
  BY <1>1, <1>2, <1>3 DEF Told, Put
<1>5. f \in UpFrame /\ f.type = "remote_final" /\ f.prompt = p /\ f.generation = under[p] /\ f.ok = good
  <2>1. under[p] \in Known
    BY DEF RemoteInv, SessionTypes
  <2>. QED BY <1>2, <2>1 DEF Final, UpFrame
<1>6. f.ok => text /\ p \notin revoked /\ under[p] = generation
  BY <1>1, <1>5
<1>7. CASE d \in sockets
  <2>1. d \in Link
    BY <1>7, LivePosted
  <2>2. Told(p, text, w) = Put(w, d, f)
    BY <1>4, <1>7
  <2>3. f \in UpFrame
    BY <1>5
  <2>4. /\ Put(w, d, f) \in [Link -> Seq(UpFrame)]
        /\ \A c \in Link : \A x : x \in ToSet(Put(w, d, f)[c]) <=> x \in ToSet(w[c]) \/ (c = d /\ x = f)
    BY <2>1, <2>3, SaysOne
  <2>5. ASSUME NEW c \in Link, NEW m \in ToSet(Told(p, text, w)[c]), m \notin ToSet(w[c])
        PROVE  /\ m.type = "remote_final" /\ m.prompt = p /\ m.generation = under[p]
               /\ m.ok => text /\ p \notin revoked /\ under[p] = generation
    <3>1. m = f
      BY <2>2, <2>4, <2>5
    <3>. QED BY <1>5, <1>6, <3>1, Zenon
  <2>. QED BY <2>2, <2>4, <2>5
<1>8. CASE d \notin sockets
  BY <1>4, <1>8
<1>. QED BY <1>7, <1>8

\* The first frame of a wire is taken.
LEMMA TakesDrops ==
  ASSUME RemoteInv, SessionTypes', UNCHANGED daemonSide, NEW c \in Link, NEW type, Takes(c, type)
  PROVE  /\ Asked' \subseteq Asked /\ OneRequest' /\ RequestsFit' /\ RequestsHeld'
         /\ 1 \in DOMAIN down[c] /\ Frame(c) = down[c][1] /\ Frame(c) \in DownFrame /\ Frame(c).type = type
         /\ c \in sockets /\ Frame(c).prompt \in Prompt
         /\ \A d \in Link : \A m \in ToSet(down[d]) : m \in ToSet(down'[d]) \/ (d = c /\ m = Frame(c))
         /\ type = "remote_request" => Frame(c).prompt \in Asked \ Asked'
<1>1. /\ down \in [Link -> Seq(DownFrame)] /\ down[c] \in Seq(DownFrame) /\ down[c] # <<>> /\ c \in sockets
      /\ down' = [down EXCEPT ![c] = Tail(down[c])] /\ Frame(c) = Head(down[c]) /\ Frame(c).type = type
  BY DEF RemoteInv, SessionTypes, Takes, Frame
<1>2. /\ Tail(down[c]) \in Seq(DownFrame) /\ Head(down[c]) = down[c][1] /\ 1 \in DOMAIN down[c]
      /\ down[c][1] \in DownFrame
      /\ \A i \in DOMAIN Tail(down[c]) : i \in Nat \ {0} /\ i + 1 \in DOMAIN down[c] /\ Tail(down[c])[i] = down[c][i + 1]
      /\ \A i \in DOMAIN down[c] : i > 1 => i - 1 \in DOMAIN Tail(down[c]) /\ Tail(down[c])[i - 1] = down[c][i]
      /\ ToSet(down[c]) = ToSet(Tail(down[c])) \cup {Head(down[c])}
  BY <1>1, Shorter
<1>3. down'[c] = Tail(down[c]) /\ \A d \in Link \ {c} : down'[d] = down[d]
  BY <1>1
<1> DEFINE shift == [d \in Link |-> IF d = c THEN 1 ELSE 0]
<1>4. shift \in [Link -> Nat] /\ shift[c] = 1 /\ \A d \in Link \ {c} : shift[d] = 0
  OBVIOUS
<1> HIDE DEF shift
<1>5. \A d \in Link : \A i \in DOMAIN down[d] : i \in Nat \ {0}
  BY Frames DEF RemoteInv
<1>6. \A d \in Link : \A i \in DOMAIN down'[d] :
        i + shift[d] \in DOMAIN down[d] /\ down'[d][i] = down[d][i + shift[d]]
  <2>1. ASSUME NEW d \in Link \ {c}, NEW i \in DOMAIN down'[d]
        PROVE  i + shift[d] \in DOMAIN down[d] /\ down'[d][i] = down[d][i + shift[d]]
    <3>1. i \in DOMAIN down[d] /\ i + 0 = i
      BY <1>3, <1>5, <2>1
    <3>. QED BY <1>3, <1>4, <3>1
  <2>2. ASSUME NEW i \in DOMAIN down'[c]
        PROVE  i + shift[c] \in DOMAIN down[c] /\ down'[c][i] = down[c][i + shift[c]]
    BY <1>2, <1>3, <1>4
  <2>. QED BY <2>1, <2>2
<1>7. \A d \in Link : \A i \in DOMAIN down'[d], k \in DOMAIN down[d] :
        k > i + shift[d] => k - shift[d] \in DOMAIN down'[d]
  <2>1. ASSUME NEW d \in Link \ {c}, NEW k \in DOMAIN down[d] PROVE k - shift[d] \in DOMAIN down'[d]
    <3>1. k - 0 = k
      BY <1>5, <2>1
    <3>. QED BY <1>3, <1>4, <3>1
  <2>2. ASSUME NEW i \in DOMAIN down'[c], NEW k \in DOMAIN down[c], k > i + 1 PROVE k - 1 \in DOMAIN down'[c]
    <3>1. k > 1
      BY <1>2, <1>3, <1>5, <2>2
    <3>. QED BY <1>2, <1>3, <3>1
  <2>. QED BY <1>4, <2>1, <2>2
<1>8. Asked' \subseteq Asked /\ OneRequest' /\ RequestsFit' /\ RequestsHeld'
  BY <1>4, <1>6, <1>7, WireDrops
<1>9. Frame(c).prompt \in Prompt
  BY <1>1, <1>2, Frames DEF RemoteInv
<1>10. ASSUME type = "remote_request" PROVE Frame(c).prompt \in Asked \ Asked'
  <2>1. PICK q \in Prompt : q = Frame(c).prompt
    BY <1>9
  <2>2. RequestAt(c, 1, q)
    BY <1>1, <1>2, <1>10, <2>1 DEF RequestAt
  <2>3. ASSUME NEW d \in Link, NEW i \in DOMAIN down'[d], RequestAt(d, i, q)' PROVE FALSE
    <3>1. RequestAt(d, i + shift[d], q)
      BY <1>6, <2>3 DEF RequestAt
    <3>2. d = c /\ i + shift[d] = 1
      <4>1. i + shift[d] \in DOMAIN down[d] /\ OneRequest
        BY <1>6 DEF RemoteInv, PlaceInv
      <4>. QED BY <1>2, <2>2, <3>1, <4>1 DEF OneRequest
    <3>3. i \in Nat \ {0}
      BY <1>2, <1>3, <3>2
    <3>. QED BY <1>4, <3>2, <3>3
  <2>4. q \in Asked /\ q \notin Asked'
    BY <1>2, <2>2, <2>3 DEF Asked
  <2>. QED BY <2>1, <2>4
<1>. QED BY <1>1, <1>2, <1>3, <1>8, <1>9, <1>10

\* The session takes a request under the grant it was sent under, or refuses it.
LEMMA TakesPromptKeeps ==
  ASSUME RemoteInv, NEW c \in Link, TakesPrompt(c)
  PROVE  RemoteInv'
<1>1. /\ SessionTypes /\ StageInv /\ sockets \subseteq Link /\ 0 \notin Prompt
      /\ up \in [Link -> Seq(UpFrame)] /\ \A p \in Live : p \in Prompt
      /\ \A d \in Link : \A m \in ToSet(up[d]) : Fits(m)
  BY LivePosted, Frames DEF RemoteInv, SessionTypes, SpoiledInv
<1>2. /\ Takes(c, "remote_request")
      /\ UNCHANGED <<granted, generation, sockets, revoked, pending, exclusive, repl, mixed, daemonSide,
                     spoiled, published>>
  BY DEF TakesPrompt, grantVars, replVars
<1>3. SessionTypes'
  <2>1. down[c] \in Seq(DownFrame) /\ down[c] # <<>> /\ down' = [down EXCEPT ![c] = Tail(down[c])]
        /\ Frame(c) = Head(down[c])
    BY <1>1, <1>2 DEF SessionTypes, Takes, Frame
  <2>2. Tail(down[c]) \in Seq(DownFrame) /\ Frame(c) \in DownFrame
    BY <2>1, Shorter
  <2>3. down' \in [Link -> Seq(DownFrame)] /\ Frame(c).prompt \in Prompt
    BY <1>1, <2>1, <2>2 DEF SessionTypes, DownFrame
  <2>4. controllers' \in [Link -> Prompt \cup {0}] /\ resolving' \subseteq Prompt /\ under' \in [Prompt -> Known]
    <3>1. generation \in Known
      BY <1>1, RemoteBounds DEF SessionTypes, Generations, Known
    <3>2. PICK q \in Prompt : q = Frame(c).prompt
      BY <2>3
    <3>3. \/ /\ controllers' = [controllers EXCEPT ![c] = q] /\ resolving' = resolving \cup {q}
             /\ under' = [under EXCEPT ![q] = generation]
          \/ UNCHANGED <<controllers, resolving, under>>
      BY <3>2 DEF TakesPrompt
    <3>4. controllers \in [Link -> Prompt \cup {0}] /\ resolving \subseteq Prompt /\ under \in [Prompt -> Known]
      BY <1>1 DEF SessionTypes
    <3>. QED BY <3>1, <3>3, <3>4
  <2>5. up' \in [Link -> Seq(UpFrame)]
    <3>1. up' = up \/ up' = Put(up, c, Ack(Frame(c).prompt, FALSE))
      BY DEF TakesPrompt, Put
    <3>2. Ack(Frame(c).prompt, FALSE) \in UpFrame
      BY <2>3 DEF Ack, UpFrame
    <3>3. Put(up, c, Ack(Frame(c).prompt, FALSE)) \in [Link -> Seq(UpFrame)]
      BY <1>1, <3>2, SaysOne
    <3>. QED BY <1>1, <3>1, <3>3
  <2>. QED BY <1>1, <1>2, <2>3, <2>4, <2>5 DEF SessionTypes
<1>4. PICK p : p = Frame(c).prompt
  OBVIOUS
<1>5. /\ Asked' \subseteq Asked /\ OneRequest' /\ RequestsFit' /\ RequestsHeld'
      /\ 1 \in DOMAIN down[c] /\ Frame(c) = down[c][1] /\ Frame(c).type = "remote_request"
      /\ c \in sockets /\ p \in Prompt /\ p \in Asked /\ p \notin Asked'
      /\ \A d \in Link : \A m \in ToSet(down[d]) : m \in ToSet(down'[d]) \/ (d = c /\ m = Frame(c))
  BY <1>2, <1>3, <1>4, TakesDrops
<1>6. p \notin Unsent /\ p \notin Live
  BY <1>5 DEF RemoteInv, PlaceInv
<1>7. \A q \in Live \ revoked : Held(q) /\ Stopping(q)
  BY DEF RemoteInv, HeldInv
<1>8. \A q : Stopping(q) /\ origin[q].link \in Link => Stopping(q)'
  <2>1. UNCHANGED <<step, line, link, origin>>
    BY <1>2 DEF daemonSide
  <2>2. \A q : CancelFrame(q) # Frame(c)
    BY <1>5 DEF CancelFrame
  <2>3. \A q : CancelFrame(q)' = CancelFrame(q)
    BY DEF CancelFrame
  <2>. QED BY <1>5, <2>1, <2>2, <2>3 DEF Stopping, Awaited
<1>9. CASE Grants(Frame(c)) /\ controllers[c] = 0
  <2>1. /\ controllers' = [controllers EXCEPT ![c] = p] /\ resolving' = resolving \cup {p}
        /\ under' = [under EXCEPT ![p] = generation] /\ UNCHANGED up
    BY <1>4, <1>9 DEF TakesPrompt
  <2>2. StageInv'
    <3>1. p # pending /\ p # exclusive
      BY <1>1, <1>5, <1>6 DEF Live
    <3>2. pending' = pending /\ exclusive' = exclusive /\ repl' = repl
      BY <1>2
    <3>. QED BY <1>1, <2>1, <3>1, <3>2 DEF StageInv
  <2>3. Live' = Live \cup {p}
    BY <1>2, <2>1 DEF Live
  <2>4. Frame(c).generation = generation /\ origin[p].generation = Frame(c).generation /\ origin[p].link = c
    BY <1>4, <1>5, <1>9 DEF Grants, RemoteInv, GrantInv, RequestsFit
  <2>5. \A q \in Live' : under'[q] = origin[q].generation
    <3>1. \A q \in Live : under[q] = origin[q].generation
      BY DEF RemoteInv, GrantInv
    <3>2. under'[p] = generation /\ \A q \in Prompt \ {p} : under'[q] = under[q]
      BY <1>1, <1>5, <2>1 DEF SessionTypes
    <3>. QED BY <1>1, <1>6, <2>3, <2>4, <3>1, <3>2
  <2>6. ASSUME NEW q \in Live' \ revoked' PROVE Held(q)' /\ Stopping(q)'
    <3>0. UNCHANGED <<origin, step, line, link, sockets>> /\ controllers'[c] = p
          /\ \A d \in Link \ {c} : controllers'[d] = controllers[d]
      BY <1>1, <1>2, <2>1 DEF daemonSide, SessionTypes
    <3>1. CASE q = p
      <4>1. Held(p)'
        BY <1>5, <2>4, <3>0 DEF Held
      <4>2. \/ Awaited /\ Head(line) = p
            \/ link # c
            \/ \E j \in DOMAIN down[c] : j > 1 /\ down[c][j] = CancelFrame(p)
        BY <1>4, <1>5 DEF RemoteInv, HeldInv, RequestsHeld
      <4>3. Stopping(p)
        BY <2>4, <4>2 DEF Stopping, ToSet
      <4>. QED BY <1>8, <2>4, <3>1, <4>1, <4>3
    <3>2. CASE q # p
      <4>1. q \in Live \ revoked
        BY <1>2, <2>3, <2>6, <3>2
      <4>2. Held(q) /\ Stopping(q) /\ q # 0 /\ origin[q].link \in Link
        BY <1>7, <4>1, LivePosted
      <4>3. origin[q].link # c
        BY <1>9, <4>2 DEF Held
      <4>. QED BY <1>8, <3>0, <4>2, <4>3 DEF Held
    <3>. QED BY <3>1, <3>2
  <2>7. generation <= generation'
    BY <1>1, <1>2, RemoteBounds DEF SessionTypes, Generations
  <2>8. Asked' \cap Live' = {}
    BY <1>5, <2>3 DEF RemoteInv, PlaceInv
  <2>. QED BY <1>2, <1>3, <1>5, <2>1, <2>2, <2>3, <2>5, <2>6, <2>7, <2>8, SessionAssembles
<1>10. CASE ~(Grants(Frame(c)) /\ controllers[c] = 0)
  <2>1. up' = Put(up, c, Ack(p, FALSE)) /\ UNCHANGED <<controllers, resolving, under>>
    BY <1>4, <1>10 DEF TakesPrompt, Put
  <2>2. StageInv' /\ Live' = Live
    BY <1>1, <1>2, <2>1 DEF StageInv, Live
  <2>3. p \in Done'
    <3>1. Unsent' = Unsent
      BY <1>2 DEF Unsent, Sent, daemonSide
    <3>. QED BY <1>5, <1>6, <2>2, <3>1 DEF Done
  <2>4. \A d \in Link : \A m \in ToSet(up'[d]) : m \in ToSet(up[d]) \/ Fits(m)'
    <3>1. Ack(p, FALSE) \in UpFrame
      BY <1>5 DEF Ack, UpFrame
    <3>2. \A d \in Link : \A m : m \in ToSet(Put(up, c, Ack(p, FALSE))[d]) <=>
                                 m \in ToSet(up[d]) \/ (d = c /\ m = Ack(p, FALSE))
      BY <1>1, <3>1, SaysOne
    <3>3. \A m : m = Ack(p, FALSE) => Fits(m)'
      BY <2>3 DEF Ack, Fits
    <3>. QED BY <2>1, <3>2, <3>3
  <2>5. \A q \in Live' : under'[q] = origin[q].generation
    BY <2>1, <2>2 DEF RemoteInv, GrantInv
  <2>6. \A q \in Live' \ revoked' : Held(q)' /\ Stopping(q)'
    <3>1. UNCHANGED <<origin, sockets, controllers, revoked>>
      BY <1>2, <2>1 DEF daemonSide
    <3>. QED BY <1>7, <1>8, <2>2, <3>1, LivePosted DEF Held
  <2>7. generation <= generation'
    BY <1>1, <1>2, RemoteBounds DEF SessionTypes, Generations
  <2>8. Asked' \cap Live' = {}
    BY <1>5, <2>2 DEF RemoteInv, PlaceInv
  <2>. QED BY <1>2, <1>3, <1>5, <2>1, <2>2, <2>4, <2>5, <2>6, <2>7, <2>8, SessionAssembles
<1>. QED BY <1>9, <1>10

\* What the session knows of its prompts.
LEMMA Basics ==
  ASSUME RemoteInv
  PROVE  /\ SessionTypes /\ StageInv /\ sockets \subseteq Link /\ 0 \notin Prompt
         /\ up \in [Link -> Seq(UpFrame)] /\ down \in [Link -> Seq(DownFrame)]
         /\ \A d \in Link : \A m \in ToSet(up[d]) : Fits(m)
         /\ \A q \in Live : /\ q \in Prompt /\ q # 0 /\ origin[q].link \in Link
                            /\ q \notin Asked /\ q \notin Unsent /\ under[q] = origin[q].generation
         /\ \A q \in Live \ revoked : Held(q) /\ Stopping(q)
         /\ generation \in Int /\ generation <= generation
         /\ pending \in Live \cup {0} /\ exclusive \in Live \cup {0}
<1>1. generation \in Int
  BY RemoteBounds DEF RemoteInv, SessionTypes, Generations
<1>2. pending \in Live \cup {0} /\ exclusive \in Live \cup {0}
  BY DEF Live
<1>3. up \in [Link -> Seq(UpFrame)] /\ down \in [Link -> Seq(DownFrame)] /\ 0 \notin Prompt
  BY Frames DEF RemoteInv, SessionTypes
<1>. QED BY <1>1, <1>2, <1>3, LivePosted DEF RemoteInv, SpoiledInv, PlaceInv, GrantInv, HeldInv

\* Nothing is sent to the session and nothing taken.
LEMMA WiresStand ==
  ASSUME RemoteInv, UNCHANGED <<daemonSide, down>>
  PROVE  /\ Asked' = Asked /\ Unsent' = Unsent /\ OneRequest' /\ RequestsFit' /\ RequestsHeld'
         /\ \A q : Stopping(q)' <=> Stopping(q)
<1>1. UNCHANGED <<down, link, prompted, line, step, origin>>
  BY DEF daemonSide
<1>2. OneRequest /\ RequestsFit /\ RequestsHeld
  BY DEF RemoteInv, PlaceInv, GrantInv, HeldInv
<1>3. Asked' = Asked
  BY <1>1 DEF Asked, RequestAt
<1>4. Unsent' = Unsent
  BY <1>1 DEF Unsent, Sent
<1>5. OneRequest'
  BY <1>1, <1>2 DEF OneRequest, RequestAt
<1>6. RequestsFit'
  BY <1>1, <1>2 DEF RequestsFit
<1>7. RequestsHeld'
  BY <1>1, <1>2 DEF RequestsHeld, Awaited, CancelFrame
<1>8. \A q : Stopping(q)' <=> Stopping(q)
  BY <1>1 DEF Stopping, Awaited, CancelFrame
<1>. QED BY <1>3, <1>4, <1>5, <1>6, <1>7, <1>8

\* A prompt leaves the session, and its socket may hear of it.
LEMMA Ends ==
  ASSUME RemoteInv, UNCHANGED <<daemonSide, generation>>, Asked' \subseteq Asked,
         NEW p \in Live, p \notin Live', NEW text \in BOOLEAN, NEW w \in [Link -> Seq(UpFrame)],
         text /\ under[p] = generation => p \notin spoiled', spoiled' = spoiled
  PROVE  /\ p \in Done'
         /\ Told(p, text, w) \in [Link -> Seq(UpFrame)]
         /\ \A c \in Link : \A m \in ToSet(Told(p, text, w)[c]) : m \in ToSet(w[c]) \/ Fits(m)'
<1>1. Unsent' = Unsent
  BY DEF Unsent, Sent, daemonSide
<1>2. p \in Prompt /\ p \in Done'
  BY <1>1, Basics DEF Done
<1>3. /\ Told(p, text, w) \in [Link -> Seq(UpFrame)]
      /\ \A c \in Link : \A m \in ToSet(Told(p, text, w)[c]) :
           \/ m \in ToSet(w[c])
           \/ /\ m.type = "remote_final" /\ m.prompt = p /\ m.generation = under[p]
              /\ m.ok => text /\ p \notin revoked /\ under[p] = generation
  BY <1>2, ToldSays
<1>4. generation # -1
  BY RemoteBounds DEF RemoteInv, SessionTypes, Generations
<1>5. ASSUME NEW m, m.type = "remote_final", m.prompt = p, m.generation = under[p],
             m.ok => text /\ p \notin revoked /\ under[p] = generation
      PROVE  Fits(m)'
  BY <1>2, <1>4, <1>5 DEF Fits
<1>. QED BY <1>2, <1>3, <1>5

\* The session is told that a prompt was given up.
LEMMA TakesCancelKeeps ==
  ASSUME RemoteInv, NEW c \in Link, TakesCancel(c)
  PROVE  RemoteInv'
<1>1. /\ Takes(c, "remote_cancel")
      /\ UNCHANGED <<granted, generation, sockets, resolving, under, exclusive, repl, mixed, daemonSide,
                     spoiled, published>>
  BY DEF TakesCancel, grantVars
<1>2. PICK p : p = Frame(c).prompt
  OBVIOUS
<1>3. p \in Prompt /\ c \in sockets
  BY <1>1, <1>2, Shorter, Basics DEF Takes, Frame, DownFrame
<1>4. \/ UNCHANGED <<controllers, revoked, pending, up>> /\ controllers[c] # p
      \/ /\ controllers[c] = p /\ revoked' = revoked \cup {p}
         /\ IF pending = p THEN pending' = 0 /\ up' = Told(p, FALSE, up) /\ controllers' = Freed(p)
                           ELSE UNCHANGED <<pending, up, controllers>>
  BY <1>2 DEF TakesCancel, Aborts
<1>5. Live' = (IF pending' = pending THEN Live ELSE Live \ {p}) /\ (pending' = pending \/ p = pending)
  <2>1. pending' = pending \/ (pending' = 0 /\ p = pending)
    BY <1>4
  <2>2. p # 0 /\ (p = pending => p # exclusive /\ p \notin resolving)
    BY <1>3, Basics DEF StageInv
  <2>. QED BY <1>1, <2>1, <2>2 DEF Live
<1>6. down' \in [Link -> Seq(DownFrame)]
  <2>1. down[c] \in Seq(DownFrame) /\ down[c] # <<>> /\ down' = [down EXCEPT ![c] = Tail(down[c])]
    BY <1>1, Basics DEF Takes
  <2>. QED BY <2>1, Shorter, Basics
<1>7. Told(p, FALSE, up) \in [Link -> Seq(UpFrame)] /\ Freed(p) \in [Link -> Prompt \cup {0}]
  <2>1. Freed(p) \in [Link -> Prompt \cup {0}]
    BY Basics DEF SessionTypes, Freed
  <2>. QED BY <1>3, <2>1, ToldSays, Basics
<1>8. SessionTypes'
  BY <1>1, <1>3, <1>4, <1>6, <1>7, Basics DEF SessionTypes
<1>9. /\ Asked' \subseteq Asked /\ OneRequest' /\ RequestsFit' /\ RequestsHeld'
      /\ Frame(c).type = "remote_cancel"
      /\ \A d \in Link : \A m \in ToSet(down[d]) : m \in ToSet(down'[d]) \/ (d = c /\ m = Frame(c))
  BY <1>1, <1>8, TakesDrops
<1>10. ASSUME NEW q \in Live' \ revoked' PROVE Held(q)' /\ Stopping(q)'
  <2>1. q \in Live \ revoked /\ q # 0 /\ origin[q].link \in Link /\ Held(q) /\ Stopping(q)
    BY <1>4, <1>5, <1>10, Basics
  <2>2. PICK d \in Link : d = origin[q].link
    BY <2>1
  <2>3. q # p \/ d # c
    BY <1>4, <1>10, <2>1, <2>2 DEF Held
  <2>4. UNCHANGED <<origin, step, line, link, sockets>>
    BY <1>1 DEF daemonSide
  <2>5. controllers'[d] = q
    BY <1>4, <1>10, <2>1, <2>2 DEF Held, Freed
  <2>6. Stopping(q)'
    <3>1. CancelFrame(q) \in ToSet(down[d]) => CancelFrame(q) \in ToSet(down'[d])
      <4>1. d = c => CancelFrame(q) # Frame(c)
        BY <1>2, <2>3 DEF CancelFrame
      <4>. QED BY <1>9, <4>1
    <3>. QED BY <2>1, <2>2, <2>4, <3>1 DEF Stopping, Awaited, CancelFrame
  <2>. QED BY <2>1, <2>2, <2>4, <2>5, <2>6 DEF Held
<1>11. \A d \in Link : \A m \in ToSet(up'[d]) : m \in ToSet(up[d]) \/ Fits(m)'
  <2>1. CASE up' = up
    BY <2>1
  <2>2. CASE up' # up
    <3>1. up' = Told(p, FALSE, up) /\ pending = p /\ pending' = 0
      BY <1>4, <2>2
    <3>2. p \in Live /\ p \notin Live'
      BY <1>3, <1>5, <3>1, Basics
    <3>. QED BY <1>1, <1>9, <3>1, <3>2, Ends, Basics
  <2>. QED BY <2>1, <2>2
<1>12. StageInv'
  <2>1. pending' = pending \/ pending' = 0
    BY <1>4
  <2>2. StageInv /\ 0 \notin resolving
    BY Basics DEF SessionTypes
  <2>. QED BY <1>1, <2>1, <2>2 DEF StageInv
<1>13. Asked' \cap Live' = {} /\ Live' \subseteq Live
  BY <1>5, <1>9, Basics
<1>14. \A q \in Live' : under'[q] = origin[q].generation
  BY <1>1, <1>13, Basics
<1>. QED BY <1>1, <1>8, <1>9, <1>10, <1>11, <1>12, <1>13, <1>14, SessionAssembles, Basics

\* A socket closes with its prompt.
LEMMA SessionClosesKeeps ==
  ASSUME RemoteInv, NEW c \in Link, SessionCloses(c)
  PROVE  RemoteInv'
<1>1. /\ UNCHANGED <<granted, generation, resolving, under, exclusive, repl, mixed, daemonSide, spoiled,
                     published, up>>
      /\ c \in sockets /\ sockets' = sockets \ {c} /\ down' = [down EXCEPT ![c] = <<>>]
      /\ controllers' = [controllers EXCEPT ![c] = 0] /\ revoked' = revoked \cup ({controllers[c]} \ {0})
      /\ pending' = IF pending # 0 /\ pending = controllers[c] THEN 0 ELSE pending
  BY DEF SessionCloses, Loses, grantVars
<1>2. SessionTypes'
  <2>1. down' \in [Link -> Seq(DownFrame)]
    <3>1. <<>> \in Seq(DownFrame)
      OBVIOUS
    <3>. QED BY <1>1, <3>1, Basics
  <2>. QED BY <1>1, <2>1, Basics DEF SessionTypes
<1>3. Live' \subseteq Live
  BY <1>1 DEF Live
<1>4. /\ down'[c] = <<>> /\ \A d \in Link \ {c} : down'[d] = down[d]
      /\ \A d \in Link : \A i \in DOMAIN down'[d] : d # c /\ i \in Nat
  <2>1. down'[c] = <<>> /\ \A d \in Link \ {c} : down'[d] = down[d]
    BY <1>1, Basics
  <2>. QED BY <2>1, Frames, Basics
<1>5. Asked' \subseteq Asked /\ OneRequest' /\ RequestsFit' /\ RequestsHeld'
  <2> DEFINE none == [d \in Link |-> 0]
  <2>1. none \in [Link -> Nat] /\ \A d \in Link : none[d] = 0
    OBVIOUS
  <2> HIDE DEF none
  <2>2. \A d \in Link : \A i \in DOMAIN down'[d] : i + none[d] = i
    BY <1>4, <2>1
  <2>3. \A d \in Link : \A i \in DOMAIN down'[d] :
          i + none[d] \in DOMAIN down[d] /\ down'[d][i] = down[d][i + none[d]]
    BY <1>4, <2>2
  <2>4. \A d \in Link : \A i \in DOMAIN down'[d], k \in DOMAIN down[d] :
          k > i + none[d] => k - none[d] \in DOMAIN down'[d]
    <3>1. \A d \in Link : \A k \in DOMAIN down[d] : k - none[d] = k
      BY <2>1, Frames, Basics
    <3>. QED BY <1>4, <3>1
  <2>. QED BY <1>1, <1>2, <2>1, <2>3, <2>4, WireDrops
<1>6. ASSUME NEW q \in Live' \ revoked' PROVE Held(q)' /\ Stopping(q)'
  <2>1. q \in Live \ revoked /\ q # 0 /\ origin[q].link \in Link /\ Held(q) /\ Stopping(q)
    BY <1>1, <1>3, <1>6, Basics
  <2>2. PICK d \in Link : d = origin[q].link
    BY <2>1
  <2>3. d # c
    BY <1>1, <1>6, <2>1, <2>2 DEF Held
  <2>4. UNCHANGED <<origin, step, line, link>> /\ d \in sockets' /\ controllers'[d] = q
    BY <1>1, <2>1, <2>2, <2>3 DEF daemonSide, Held
  <2>. QED BY <1>4, <2>1, <2>2, <2>3, <2>4 DEF Held, Stopping, Awaited, CancelFrame
<1>7. StageInv'
  <2>1. pending' = pending \/ pending' = 0
    BY <1>1
  <2>2. StageInv /\ 0 \notin resolving
    BY Basics DEF SessionTypes
  <2>. QED BY <1>1, <2>1, <2>2 DEF StageInv
<1>8. \A q \in Live' : under'[q] = origin[q].generation /\ q \notin Asked'
  BY <1>1, <1>3, <1>5, Basics
<1>. QED BY <1>1, <1>2, <1>3, <1>5, <1>6, <1>7, <1>8, SessionAssembles, Basics

\* The stage of a prompt is found and the loop takes it in, or it is refused.
LEMMA ResolvesKeeps ==
  ASSUME RemoteInv, NEW p \in Prompt, NEW found \in BOOLEAN, NEW clear \in BOOLEAN, Resolves(p, found, clear)
  PROVE  RemoteInv'
<1>1. PICK ok \in BOOLEAN : ok = (found /\ granted /\ under[p] = generation /\ p \notin revoked /\ pending = 0)
  BY Basics DEF SessionTypes
<1>2. PICK c : c = origin[p].link
  OBVIOUS
<1>3. /\ p \in resolving /\ resolving' = resolving \ {p}
      /\ controllers' = IF ok THEN controllers ELSE Freed(p)
      /\ up' = IF c \in sockets THEN Put(up, c, Ack(p, ok)) ELSE up
      /\ IF ok /\ repl = "prompt" THEN AsksInput(p, clear)
         ELSE pending' = (IF ok THEN p ELSE pending) /\ UNCHANGED <<exclusive, repl, mixed>>
      /\ UNCHANGED <<granted, generation, sockets, down, under, revoked, daemonSide, spoiled, published>>
  BY <1>1, <1>2 DEF Resolves, Put, grantVars
<1>4. p \in Live /\ p # 0 /\ c \in Link /\ p # pending /\ p # exclusive /\ 0 \notin resolving
  <2>1. p \in Live
    BY <1>3 DEF Live
  <2>. QED BY <1>2, <1>3, <2>1, Basics DEF StageInv, SessionTypes
<1>5. /\ \/ ok /\ repl = "prompt" /\ pending = 0 /\ exclusive = 0 /\ exclusive' = p /\ pending' = 0 /\ repl' = "injected"
         \/ ok /\ pending = 0 /\ pending' = p /\ exclusive' = exclusive /\ repl' = repl
         \/ ~ok /\ pending' = pending /\ exclusive' = exclusive /\ repl' = repl
      /\ exclusive = 0 \/ (exclusive' = exclusive /\ mixed' = mixed)
      /\ mixed' \in BOOLEAN
  <2>1. repl = "prompt" => exclusive = 0
    BY Basics DEF StageInv
  <2>2. mixed \in BOOLEAN
    BY Basics DEF SessionTypes
  <2>3. ok => pending = 0
    BY <1>1
  <2>4. CASE ok /\ repl = "prompt"
    BY <1>3, <1>4, <2>1, <2>2, <2>3, <2>4 DEF AsksInput
  <2>5. CASE ~(ok /\ repl = "prompt")
    BY <1>3, <2>2, <2>3, <2>5
  <2>. QED BY <2>4, <2>5
<1>6. Live' = IF ok THEN Live ELSE Live \ {p}
  BY <1>3, <1>4, <1>5 DEF Live
<1>7. Ack(p, ok) \in UpFrame
  BY DEF Ack, UpFrame
<1>8. SessionTypes'
  <2>1. controllers' \in [Link -> Prompt \cup {0}]
    BY <1>3, Basics DEF SessionTypes, Freed
  <2>2. up' \in [Link -> Seq(UpFrame)]
    <3>1. Put(up, c, Ack(p, ok)) \in [Link -> Seq(UpFrame)]
      BY <1>4, <1>7, SaysOne, Basics
    <3>. QED BY <1>3, <3>1, Basics
  <2>3. pending' \in Prompt \cup {0} /\ exclusive' \in Prompt \cup {0}
    BY <1>5, Basics DEF SessionTypes
  <2>. QED BY <1>3, <1>5, <2>1, <2>2, <2>3, Basics DEF SessionTypes
<1>9. StageInv'
  BY <1>3, <1>4, <1>5, Basics DEF StageInv
<1>10. /\ Asked' = Asked /\ Unsent' = Unsent /\ OneRequest' /\ RequestsFit' /\ RequestsHeld'
       /\ \A q : Stopping(q)' <=> Stopping(q)
  BY <1>3, WiresStand
<1>11. ASSUME NEW q \in Live' \ revoked' PROVE Held(q)' /\ Stopping(q)'
  <2>1. q \in Live \ revoked /\ Held(q) /\ Stopping(q) /\ (q = p => ok)
    BY <1>3, <1>4, <1>6, <1>11, Basics
  <2>2. UNCHANGED <<origin, sockets>> /\ origin[q].link \in Link
    BY <1>3, <2>1, Basics DEF daemonSide
  <2>3. controllers'[origin[q].link] = controllers[origin[q].link]
    BY <1>3, <2>1, <2>2 DEF Freed, Held
  <2>. QED BY <1>10, <2>1, <2>2, <2>3 DEF Held
<1>12. \A d \in Link : \A m \in ToSet(up'[d]) : m \in ToSet(up[d]) \/ Fits(m)'
  <2>1. \A d \in Link : \A m : m \in ToSet(Put(up, c, Ack(p, ok))[d]) <=>
                               m \in ToSet(up[d]) \/ (d = c /\ m = Ack(p, ok))
    BY <1>4, <1>7, SaysOne, Basics
  <2>2. ok \/ p \in Done'
    BY <1>4, <1>6, <1>10, Basics DEF Done
  <2>3. \A m : m = Ack(p, ok) => Fits(m)'
    BY <2>2 DEF Ack, Fits
  <2>. QED BY <1>3, <2>1, <2>3
<1>13. \A q \in Live' : under'[q] = origin[q].generation /\ q \notin Asked'
  BY <1>3, <1>4, <1>6, <1>10, Basics
<1>14. exclusive \in spoiled /\ mixed => exclusive \in Done' \/ (exclusive' = exclusive /\ mixed')
  <2>1. 0 \notin spoiled
    BY DEF RemoteInv, SpoiledInv
  <2>. QED BY <1>5, <2>1
<1>15. Live' \subseteq Live
  BY <1>6
<1>. QED BY <1>3, <1>8, <1>9, <1>10, <1>11, <1>12, <1>13, <1>14, <1>15, SessionAssembles, Basics

\* The grant changes: nobody who was let in under the old one goes on.
LEMMA ChangesKeeps ==
  ASSUME RemoteInv, Changes
  PROVE  RemoteInv'
<1> DEFINE revoking == {controllers[c] : c \in sockets} \ {0}
<1>1. PICK heard : heard = [c \in Link |-> IF c \in sockets THEN Append(up[c], Control(granted', generation')) ELSE up[c]]
  OBVIOUS
<1>2. PICK R : R = revoking
  OBVIOUS
<1> HIDE DEF revoking
<1>3. /\ generation < MaxChanges /\ granted' = ~granted /\ generation' = generation + 1
      /\ IF granted THEN Aborts(R, heard) /\ controllers' = [c \in Link |-> 0]
         ELSE up' = heard /\ UNCHANGED <<controllers, revoked, pending>>
      /\ spoiled' = spoiled \cup InHand
      /\ UNCHANGED <<sockets, down, resolving, under, exclusive, repl, mixed, daemonSide, published>>
  BY <1>1, <1>2 DEF Changes, revoking
<1>4. generation' \in Generations /\ granted' \in BOOLEAN /\ generation < generation' /\ MaxChanges \in Nat
  BY <1>3, RemoteBounds, Basics DEF SessionTypes, Generations
<1>5. PICK e : e = Control(granted', generation')
  OBVIOUS
<1>6. e \in UpFrame /\ e.type = "discord_control" /\ e.generation = generation'
  BY <1>4, <1>5 DEF Control, UpFrame
<1>7. /\ heard \in [Link -> Seq(UpFrame)]
      /\ \A c \in Link : \A m \in ToSet(heard[c]) : m \in ToSet(up[c]) \/ m = e
  <2>1. \A c \in Link : up[c] \in Seq(UpFrame)
    BY Basics
  <2>2. \A c \in Link : Append(up[c], e) \in Seq(UpFrame) /\ ToSet(Append(up[c], e)) = ToSet(up[c]) \cup {e}
    BY <1>6, <2>1, Longer
  <2>. QED BY <1>1, <1>5, <2>1, <2>2
<1>8. R \subseteq Prompt /\ \A c \in sockets : controllers[c] # 0 => controllers[c] \in R
  BY <1>2, Basics DEF revoking, SessionTypes
<1>9. /\ revoked' \subseteq Prompt /\ revoked \subseteq revoked'
      /\ \/ pending' = pending /\ up' = heard
         \/ pending \in Prompt /\ pending' = 0 /\ up' = Told(pending, FALSE, heard)
  BY <1>3, <1>8, Basics DEF Aborts, SessionTypes
<1>10. controllers' \in [Link -> Prompt \cup {0}] /\ (~granted => controllers' = controllers)
  BY <1>3, Basics DEF SessionTypes
<1>11. ASSUME NEW q \in Prompt
       PROVE  /\ Told(q, FALSE, heard) \in [Link -> Seq(UpFrame)]
              /\ \A d \in Link : \A m \in ToSet(Told(q, FALSE, heard)[d]) :
                   m \in ToSet(heard[d]) \/ (m.type = "remote_final" /\ m.prompt = q /\ ~m.ok)
  <2>1. heard \in [Link -> Seq(UpFrame)]
    BY <1>7
  <2>2. /\ Told(q, FALSE, heard) \in [Link -> Seq(UpFrame)]
        /\ \A c \in Link : \A m \in ToSet(Told(q, FALSE, heard)[c]) :
              \/ m \in ToSet(heard[c])
              \/ /\ m.type = "remote_final" /\ m.prompt = q /\ m.generation = under[q]
                 /\ m.ok => FALSE /\ q \notin revoked /\ under[q] = generation
    BY <2>1, ToldSays
  <2>. QED BY <2>2
<1>21. up' \in [Link -> Seq(UpFrame)]
  <2>1. CASE up' = heard
    BY <1>7, <2>1
  <2>2. CASE pending \in Prompt /\ up' = Told(pending, FALSE, heard)
    <3>1. Told(pending, FALSE, heard) \in [Link -> Seq(UpFrame)]
      BY <1>11, <2>2
    <3>. QED BY <2>2, <3>1
  <2>. QED BY <1>9, <2>1, <2>2
<1>12. SessionTypes'
  BY <1>3, <1>4, <1>9, <1>10, <1>21, Basics DEF SessionTypes
<1>13. StageInv'
  <2>1. 0 \notin resolving
    BY Basics DEF SessionTypes
  <2>. QED BY <1>3, <1>9, <2>1, Basics DEF StageInv
<1>14. /\ Asked' = Asked /\ Unsent' = Unsent /\ OneRequest' /\ RequestsFit' /\ RequestsHeld'
       /\ \A q : Stopping(q)' <=> Stopping(q)
  BY <1>3, WiresStand
<1>15. Live' = (IF pending' = pending THEN Live ELSE Live \ {pending})
  <2>1. pending' = pending \/ (pending' = 0 /\ pending # 0 /\ pending # exclusive /\ pending \notin resolving)
    BY <1>9, Basics DEF StageInv
  <2>. QED BY <1>3, <2>1 DEF Live
<1>16. ASSUME NEW q \in Live' \ revoked' PROVE Held(q)' /\ Stopping(q)'
  <2>1. q \in Live \ revoked /\ q # 0 /\ Held(q) /\ Stopping(q)
    BY <1>9, <1>15, <1>16, Basics
  <2>2. UNCHANGED <<origin, sockets>>
    BY <1>3 DEF daemonSide
  <2>3. ~granted
    <3>1. granted => revoked' = revoked \cup R
      BY <1>3 DEF Aborts
    <3>2. q \in R
      BY <1>8, <2>1 DEF Held
    <3>. QED BY <1>16, <3>1, <3>2
  <2>4. controllers' = controllers
    BY <1>3, <2>3
  <2>. QED BY <1>14, <2>1, <2>2, <2>4 DEF Held
<1>17. \A q \in Live' : under'[q] = origin[q].generation /\ q \notin Asked'
  BY <1>3, <1>14, <1>15, Basics
<1>18. \A d \in Link : \A m \in ToSet(up'[d]) : m \in ToSet(up[d]) \/ Fits(m)'
  <2>1. Fits(e)'
    BY <1>4, <1>6 DEF Fits, Generations
  <2>2. \A d \in Link : \A m \in ToSet(heard[d]) : m \in ToSet(up[d]) \/ Fits(m)'
    BY <1>7, <2>1
  <2>3. CASE up' = heard
    BY <2>2, <2>3
  <2>4. CASE pending \in Prompt /\ pending' = 0 /\ up' = Told(pending, FALSE, heard)
    <3>1. pending \in Live /\ pending \notin Live' /\ pending \in Done'
      <4>1. pending \in Live /\ pending # 0
        BY <2>4, Basics
      <4>2. pending \notin Live'
        BY <1>15, <2>4, <4>1
      <4>. QED BY <1>14, <4>1, <4>2, Basics DEF Done
    <3>2. \A d \in Link : \A m \in ToSet(Told(pending, FALSE, heard)[d]) :
            m \in ToSet(heard[d]) \/ (m.type = "remote_final" /\ m.prompt = pending /\ ~m.ok)
      BY <1>11, <2>4
    <3>3. \A m : m.type = "remote_final" /\ m.prompt = pending /\ ~m.ok => Fits(m)'
      BY <3>1 DEF Fits
    <3>. QED BY <2>2, <2>4, <3>2, <3>3
  <2>. QED BY <1>9, <2>3, <2>4
<1>19. ASSUME NEW p \in InHand
       PROVE  /\ p \in 1 .. prompted /\ origin[p].generation < generation'
              /\ p \notin published /\ ~(step = "answer" /\ Head(line) = p)
              /\ \A c \in Link : \A m \in ToSet(up[c]) : ~(m.type = "remote_final" /\ m.ok /\ m.prompt = p)
  <2>1. line \in Seq(1 .. prompted) /\ prompted \in 0 .. Prompts
    BY DEF RemoteInv, DaemonTypes
  <2>2. p \in ToSet(line) /\ line # <<>>
    BY <2>1, <1>19 DEF InHand, ToSet
  <2>3. p \in 1 .. prompted
    <3>1. \A i \in DOMAIN line : line[i] \in 1 .. prompted
      BY <2>1, Elements
    <3>. QED BY <2>2, <3>1 DEF ToSet
  <2>4. origin[p].generation < generation'
    <3>1. p \in Prompt
      BY <2>1, <2>3, RemoteBounds DEF Prompt
    <3>2. origin[p].generation \in Int /\ origin[p].generation <= generation
      BY <2>3, <3>1, RemoteBounds DEF RemoteInv, DaemonTypes, GrantInv, Known
    <3>. QED BY <1>3, <3>2, Basics
  <2>5. p \notin published
    BY <2>2 DEF RemoteInv, SpoiledInv
  <2>6. ~(step = "answer" /\ Head(line) = p)
    <3>1. Head(line) = line[1]
      BY <2>1, <2>2, Shorter
    <3>. QED BY <1>19, <3>1 DEF InHand
  <2>7. ASSUME NEW c \in Link, NEW m \in ToSet(up[c]), m.type = "remote_final", m.ok, m.prompt = p
        PROVE  FALSE
    <3>1. m \in UpFrame /\ Fits(m)
      BY <2>7, Frames, Basics
    <3>2. m.generation # -1 /\ m \in [type : {"remote_final"}, prompt : Prompt, ok : BOOLEAN, generation : Known]
      BY <2>7, <3>1 DEF Fits, UpFrame
    <3>3. m.generation \in 0 .. MaxChanges /\ p \in Prompt /\ m.ok = TRUE
      BY <1>4, <2>7, <3>2 DEF Known
    <3>4. m = Final(p, TRUE, m.generation)
      BY <2>7, <3>2, <3>3 DEF Final
    <3>. QED BY <1>19, <2>7, <3>3, <3>4 DEF InHand
  <2>. QED BY <2>3, <2>4, <2>5, <2>6, <2>7
<1>20. Live' \subseteq Live /\ generation <= generation'
  BY <1>3, <1>15, Basics
<1>. QED BY <1>3, <1>12, <1>13, <1>14, <1>16, <1>17, <1>18, <1>19, <1>20, SessionAssembles

\* What a step of the prompt loop has to keep.
LEMMA LoopAssembles ==
  ASSUME RemoteInv, LoopFrame, StageInv', mixed' \in BOOLEAN, up' \in [Link -> Seq(UpFrame)],
         pending' \in Prompt \cup {0}, exclusive' \in Prompt \cup {0}, Live' \subseteq Live,
         controllers' = controllers \/ (controllers' = Freed(exclusive) /\ exclusive \notin Live'),
         exclusive \in spoiled /\ mixed => exclusive \in Done' \/ (exclusive' = exclusive /\ mixed'),
         spoiled \subseteq spoiled',
         \A p \in spoiled' \ spoiled :
           /\ p \in 1 .. prompted /\ p = exclusive' /\ mixed' /\ p \notin published
           /\ ~(step = "answer" /\ Head(line) = p)
           /\ \A c \in Link : \A m \in ToSet(up[c]) : ~(m.type = "remote_final" /\ m.ok /\ m.prompt = p),
         \A c \in Link : \A m \in ToSet(up'[c]) : m \in ToSet(up[c]) \/ Fits(m)'
  PROVE  RemoteInv'
<1>1. UNCHANGED <<granted, generation, sockets, down, resolving, under, revoked, daemonSide, published>>
  BY DEF LoopFrame, grantVars
<1>2. SessionTypes'
  <2>1. controllers' \in [Link -> Prompt \cup {0}]
    BY Basics DEF SessionTypes, Freed
  <2>. QED BY <1>1, <2>1, Basics DEF SessionTypes
<1>3. /\ Asked' = Asked /\ Unsent' = Unsent /\ OneRequest' /\ RequestsFit' /\ RequestsHeld'
      /\ \A q : Stopping(q)' <=> Stopping(q)
  BY <1>1, WiresStand
<1>4. ASSUME NEW q \in Live' \ revoked' PROVE Held(q)' /\ Stopping(q)'
  <2>1. q \in Live \ revoked /\ Held(q) /\ Stopping(q) /\ origin[q].link \in Link
    BY <1>1, <1>4, Basics
  <2>2. UNCHANGED <<origin, sockets>>
    BY <1>1 DEF daemonSide
  <2>3. controllers'[origin[q].link] = controllers[origin[q].link]
    BY <1>4, <2>1 DEF Freed, Held
  <2>. QED BY <1>3, <2>1, <2>2, <2>3 DEF Held
<1>5. \A q \in Live' : under'[q] = origin[q].generation /\ q \notin Asked'
  BY <1>1, <1>3, Basics
<1>6. generation <= generation'
  BY <1>1, Basics
<1>. QED BY <1>1, <1>2, <1>3, <1>4, <1>5, <1>6, SessionAssembles

\* The loop's prompt is over.
LEMMA LeavesKeeps ==
  ASSUME RemoteInv, LoopFrame, UNCHANGED spoiled, repl \in {"injected", "turn"},
         NEW text \in BOOLEAN, text => ~mixed, Leaves(text), StageInv', mixed' \in BOOLEAN,
         pending' \in Prompt \cup {0}, exclusive' \in Prompt \cup {0}, Live' = Live \ {exclusive}
  PROVE  RemoteInv'
<1>1. UNCHANGED <<granted, generation, sockets, down, resolving, under, revoked, daemonSide, published>>
  BY DEF LoopFrame, grantVars
<1>2. PICK p : p = exclusive
  OBVIOUS
<1>3. p \in Live /\ p \notin Live' /\ p \in Prompt
  <2>1. p # 0
    BY <1>2, Basics DEF StageInv
  <2>. QED BY <1>2, <2>1, Basics
<1>4. up' = Told(p, text, up) /\ controllers' = Freed(p)
  BY <1>2 DEF Leaves
<1>5. Asked' = Asked
  BY <1>1, WiresStand
<1>6. text /\ under[p] = generation => p \notin spoiled'
  <2>1. p \in spoiled => Accounted(p)
    BY DEF RemoteInv, SpoiledInv
  <2>2. p \notin Done /\ under[p] = origin[p].generation
    BY <1>3, Basics DEF Done
  <2>3. ~(generation < generation)
    BY Basics
  <2>. QED BY <1>2, <2>1, <2>2, <2>3 DEF Accounted
<1>7. /\ p \in Done' /\ Told(p, text, up) \in [Link -> Seq(UpFrame)]
      /\ \A c \in Link : \A m \in ToSet(Told(p, text, up)[c]) : m \in ToSet(up[c]) \/ Fits(m)'
  <2>1. up \in [Link -> Seq(UpFrame)] /\ Asked' \subseteq Asked /\ UNCHANGED <<daemonSide, generation>>
    BY <1>1, <1>5, Basics
  <2>. QED BY <1>3, <1>6, <2>1, Ends
<1>8. up' \in [Link -> Seq(UpFrame)] /\ \A c \in Link : \A m \in ToSet(up'[c]) : m \in ToSet(up[c]) \/ Fits(m)'
  BY <1>4, <1>7
<1>. QED BY <1>2, <1>3, <1>4, <1>7, <1>8, LoopAssembles

\* The loop asks for input again, and takes in the prompt that waits if there is one.
LEMMA Asking ==
  ASSUME RemoteInv, LoopFrame, NEW clear \in BOOLEAN, AsksInput(pending, clear)
  PROVE  /\ StageInv' /\ mixed' \in BOOLEAN /\ pending' \in Prompt \cup {0} /\ exclusive' \in Prompt \cup {0}
         /\ Live' = Live \ {exclusive}
<1>1. resolving' = resolving /\ 0 \notin resolving /\ mixed \in BOOLEAN /\ pending \in Prompt \cup {0}
  BY Basics DEF LoopFrame, SessionTypes
<1>2. pending \notin resolving /\ exclusive \notin resolving /\ (pending # 0 => pending # exclusive)
  BY Basics DEF StageInv
<1>3. \/ pending # 0 /\ repl' = "injected" /\ exclusive' = pending /\ pending' = 0 /\ mixed' = FALSE
      \/ repl' = "prompt" /\ exclusive' = 0 /\ pending' = pending /\ mixed' = mixed
  BY DEF AsksInput
<1>4. StageInv'
  BY <1>1, <1>2, <1>3 DEF StageInv
<1>5. Live' = Live \ {exclusive}
  BY <1>1, <1>2, <1>3 DEF Live
<1>. QED BY <1>1, <1>3, <1>4, <1>5

LEMMA StartsTurnKeeps ==
  ASSUME RemoteInv, NEW clear \in BOOLEAN, StartsTurn(clear)
  PROVE  RemoteInv'
<1>1. repl = "injected" /\ LoopFrame /\ UNCHANGED spoiled
  BY DEF StartsTurn
<1>2. CASE Leaves(FALSE) /\ AsksInput(pending, clear)
  BY <1>1, <1>2, Asking, LeavesKeeps
<1>3. CASE repl' = "turn" /\ UNCHANGED <<pending, exclusive, mixed, controllers, up>>
  <2>1. StageInv' /\ Live' = Live
    BY <1>1, <1>3, Basics DEF StageInv, Live, LoopFrame
  <2>2. mixed \in BOOLEAN /\ pending \in Prompt \cup {0} /\ exclusive \in Prompt \cup {0}
    BY Basics DEF SessionTypes
  <2>. QED BY <1>1, <1>3, <2>1, <2>2, Basics, LoopAssembles
<1>. QED BY <1>2, <1>3 DEF StartsTurn

LEMMA EndsTurnKeeps ==
  ASSUME RemoteInv, NEW done \in BOOLEAN, NEW clear \in BOOLEAN, EndsTurn(done, clear)
  PROVE  RemoteInv'
<1>1. repl = "turn" /\ LoopFrame /\ UNCHANGED spoiled /\ AsksInput(pending, clear)
  BY DEF EndsTurn
<1>2. PICK text \in BOOLEAN : text = (done /\ ~mixed)
  OBVIOUS
<1>3. Leaves(text)
  BY <1>2 DEF EndsTurn
<1>. QED BY <1>1, <1>2, <1>3, Asking, LeavesKeeps

LEMMA LosesRaceKeeps ==
  ASSUME RemoteInv, LosesRace
  PROVE  RemoteInv'
<1>1. repl = "injected" /\ LoopFrame /\ Leaves(FALSE) /\ repl' = "busy" /\ exclusive' = 0
      /\ UNCHANGED <<pending, mixed, spoiled>>
  BY DEF LosesRace
<1>2. resolving' = resolving /\ 0 \notin resolving /\ mixed \in BOOLEAN /\ pending \in Prompt \cup {0}
  BY <1>1, Basics DEF LoopFrame, SessionTypes
<1>3. pending \notin resolving /\ exclusive \notin resolving /\ (pending # 0 => pending # exclusive)
  BY Basics DEF StageInv
<1>4. StageInv' /\ Live' = Live \ {exclusive}
  BY <1>1, <1>2, <1>3 DEF StageInv, Live
<1>. QED BY <1>1, <1>2, <1>4, LeavesKeeps

LEMMA MixesKeeps ==
  ASSUME RemoteInv, Mixes
  PROVE  RemoteInv'
<1>1. /\ repl \in {"injected", "turn"} /\ mixed' = TRUE /\ spoiled' = spoiled \cup {exclusive}
      /\ LoopFrame /\ UNCHANGED <<controllers, up, pending, exclusive, repl>>
  BY DEF Mixes
<1>2. StageInv' /\ Live' = Live
  BY <1>1, Basics DEF StageInv, Live, LoopFrame
<1>3. exclusive \in Live /\ exclusive \in 1 .. prompted /\ exclusive \in Prompt
  <2>1. exclusive # 0
    BY <1>1, Basics DEF StageInv
  <2>. QED BY <2>1, Basics, LivePosted
<1>4. exclusive \notin Done
  BY <1>3 DEF Done
<1>5. exclusive \notin published /\ ~(step = "answer" /\ Head(line) = exclusive)
  BY <1>4 DEF RemoteInv, SpoiledInv
<1>6. \A c \in Link : \A m \in ToSet(up[c]) : ~(m.type = "remote_final" /\ m.ok /\ m.prompt = exclusive)
  BY <1>4, Basics DEF Fits
<1>7. pending \in Prompt \cup {0}
  BY Basics DEF SessionTypes
<1>. QED BY <1>1, <1>2, <1>3, <1>5, <1>6, <1>7, Basics, LoopAssembles

LEMMA LocalTurnKeeps ==
  ASSUME RemoteInv, NEW clear \in BOOLEAN, LocalTurn(clear)
  PROVE  RemoteInv'
<1>1. LoopFrame /\ UNCHANGED <<controllers, up, spoiled>>
  BY DEF LocalTurn
<1>2. repl \in {"prompt", "busy"} /\ exclusive = 0 /\ exclusive \notin spoiled
  <2>1. repl \in {"prompt", "busy"}
    BY DEF LocalTurn
  <2>2. 0 \notin spoiled
    BY DEF RemoteInv, SpoiledInv
  <2>. QED BY <2>1, <2>2, Basics DEF StageInv
<1>3. mixed \in BOOLEAN /\ pending \in Prompt \cup {0} /\ exclusive \in Prompt \cup {0}
  BY Basics DEF SessionTypes
<1>4. CASE repl' = "busy" /\ UNCHANGED <<pending, exclusive, mixed>>
  <2>1. StageInv' /\ Live' = Live
    BY <1>1, <1>2, <1>4, Basics DEF StageInv, Live, LoopFrame
  <2>. QED BY <1>1, <1>2, <1>3, <1>4, <2>1, Basics, LoopAssembles
<1>5. CASE AsksInput(pending, clear)
  BY <1>1, <1>2, <1>5, Asking, Basics, LoopAssembles
<1>. QED BY <1>4, <1>5 DEF LocalTurn

\* What a step of the daemon has to keep.
LEMMA DaemonAssembles ==
  ASSUME RemoteInv, Frozen, down' \in [Link -> Seq(DownFrame)], up' \in [Link -> Seq(UpFrame)],
         DaemonTypes', LineInv', OneRequest', RequestsFit', RequestsHeld', sockets \subseteq sockets',
         view'.generation <= generation,
         Unsent' \subseteq Unsent, Asked' \subseteq Asked \cup Unsent, Asked' \cap Unsent' = {},
         prompted <= prompted', \A p \in 1 .. prompted : origin'[p] = origin[p],
         \A p \in 1 .. prompted' : origin'[p].generation <= generation /\ origin'[p].link # 0,
         \A q \in Live \ revoked : Stopping(q)',
         link' = 0 => ~view'.on,
         Awaited' => link' # 0 /\ origin'[Head(line')].link = link',
         \A c \in Link : \A m \in ToSet(up'[c]) : m \in ToSet(up[c]) \/ Fits(m)',
         step' = "answer" => \/ step = "answer" /\ line' = line
                             \/ Head(line') \in Done \ spoiled,
         \A p \in published' : p \notin ToSet(line') /\ (p \in published \/ p \in Done \ spoiled)
  PROVE  RemoteInv'
<1>1. UNCHANGED <<granted, generation, controllers, resolving, under, revoked, pending, exclusive, repl, mixed,
                  spoiled>>
  BY DEF Frozen, grantVars, endpointVars, replVars
<1>2. Live' = Live
  BY <1>1 DEF Live
<1>3. SessionTypes' /\ StageInv'
  BY <1>1, Basics DEF SessionTypes, StageInv
<1>4. \A q \in Live : q \in 1 .. prompted /\ origin'[q] = origin[q]
  BY LivePosted
<1>5. GrantInv'
  BY <1>1, <1>2, <1>4, Basics DEF GrantInv
<1>6. HeldInv'
  <2>1. ASSUME NEW q \in Live' \ revoked' PROVE Held(q)' /\ Stopping(q)'
    <3>1. Held(q) /\ Stopping(q)' /\ origin'[q] = origin[q]
      BY <1>1, <1>2, <1>4, <2>1, Basics
    <3>. QED BY <1>1, <3>1 DEF Held
  <2>. QED BY <2>1 DEF HeldInv
<1>7. Asked' \cap Live' = {} /\ Live' \subseteq Live \cup Asked
  BY <1>2, Basics
<1>. QED BY <1>1, <1>3, <1>5, <1>6, <1>7, Basics, StepAssembles

\* Nothing is sent on a wire: the requests under way are those of prompts posted before.
LEMMA RequestsStand ==
  ASSUME RemoteInv, UNCHANGED down, \A p \in 1 .. prompted : origin'[p] = origin[p]
  PROVE  Asked' = Asked /\ OneRequest' /\ RequestsFit'
<1>1. OneRequest /\ RequestsFit /\ prompted \in 0 .. Prompts /\ Prompts \in Nat
  BY RemoteBounds DEF RemoteInv, PlaceInv, GrantInv, DaemonTypes
<1>2. Asked' = Asked
  BY DEF Asked, RequestAt
<1>3. OneRequest'
  BY <1>1 DEF OneRequest, RequestAt
<1>4. \A p \in Asked : p \in 1 .. prompted
  <2>1. \A p \in Asked : p \in Prompt /\ p \notin Unsent
    BY DEF RemoteInv, PlaceInv, Asked
  <2>. QED BY <1>1, <2>1 DEF Unsent, Prompt
<1>5. RequestsFit'
  <2>1. \A c \in Link : \A i \in DOMAIN down[c] : down[c][i].type = "remote_request" => down[c][i].prompt \in 1 .. prompted
    BY <1>4, Frames, Basics
  <2>. QED BY <1>1, <2>1 DEF RequestsFit
<1>. QED BY <1>2, <1>3, <1>5

\* The line and its first prompt.
LEMMA LineHead ==
  ASSUME RemoteInv, line # <<>>
  PROVE  /\ line \in Seq(1 .. prompted) /\ 1 \in DOMAIN line /\ Head(line) = line[1]
         /\ Head(line) \in 1 .. prompted /\ Head(line) \in Prompt
         /\ prompted \in 0 .. Prompts /\ Prompts \in Nat
         /\ \A i \in DOMAIN line : i \in Nat \ {0} /\ line[i] \in 1 .. prompted /\ (i > 1 => line[1] < line[i])
<1>1. line \in Seq(1 .. prompted) /\ prompted \in 0 .. Prompts /\ Prompts \in Nat
  BY RemoteBounds DEF RemoteInv, DaemonTypes
<1>2. 1 \in DOMAIN line /\ Head(line) = line[1] /\ line[1] \in 1 .. prompted
  BY <1>1, Shorter
<1>3. \A i \in DOMAIN line : i \in Nat \ {0} /\ line[i] \in 1 .. prompted
  BY <1>1, Elements
<1>4. \A i \in DOMAIN line : i > 1 => line[1] < line[i]
  BY <1>2, <1>3 DEF RemoteInv, LineInv
<1>. QED BY <1>1, <1>2, <1>3, <1>4 DEF Prompt

\* The first prompt of the line is through.
LEMMA Advances ==
  ASSUME RemoteInv, line # <<>>, LineMoves, UNCHANGED prompted
  PROVE  /\ line' \in Seq(1 .. prompted') /\ LineInv' /\ Unsent' \subseteq Unsent
         /\ ToSet(line') \subseteq ToSet(line) /\ Head(line) \notin ToSet(line')
         /\ ~Awaited' /\ step' = "wait"
<1>1. line' = Tail(line) /\ step' = "wait" /\ prompted' = prompted
  BY DEF LineMoves
<1>2. /\ Tail(line) \in Seq(1 .. prompted)
      /\ \A i \in DOMAIN Tail(line) : i \in Nat \ {0} /\ i + 1 \in DOMAIN line /\ Tail(line)[i] = line[i + 1]
      /\ ToSet(Tail(line)) \subseteq ToSet(line)
  BY LineHead, Shorter
<1>3. \A i, j \in DOMAIN Tail(line) : i < j => Tail(line)[i] < Tail(line)[j]
  <2>1. \A i, j \in DOMAIN line : i < j => line[i] < line[j]
    BY DEF RemoteInv, LineInv
  <2>2. ASSUME NEW i \in DOMAIN Tail(line), NEW j \in DOMAIN Tail(line), i < j
        PROVE  Tail(line)[i] < Tail(line)[j]
    <3>1. i + 1 < j + 1
      BY <1>2, <2>2
    <3>. QED BY <1>2, <2>1, <3>1
  <2>. QED BY <2>2
<1>4. LineInv'
  BY <1>1, <1>3 DEF LineInv
<1>5. Unsent' \subseteq Unsent
  <2>1. ASSUME NEW p \in Prompt, NEW i \in DOMAIN Tail(line), Tail(line)[i] = p PROVE p \in Unsent
    <3>1. i + 1 \in DOMAIN line /\ line[i + 1] = p /\ i + 1 > 1
      BY <1>2, <2>1
    <3>. QED BY <3>1 DEF Unsent
  <2>2. \A p \in Prompt : p > prompted => p \in Unsent
    BY DEF Unsent
  <2>. QED BY <1>1, <2>1, <2>2 DEF Unsent
<1>6. Head(line) \notin ToSet(line')
  <2>1. ASSUME NEW i \in DOMAIN Tail(line), Tail(line)[i] = Head(line) PROVE FALSE
    <3>1. i + 1 \in DOMAIN line /\ line[i + 1] = line[1] /\ i + 1 > 1
      BY <1>2, <2>1, LineHead
    <3>2. line[1] < line[i + 1] /\ line[1] \in Int
      BY <3>1, LineHead
    <3>. QED BY <3>1, <3>2
  <2>. QED BY <1>1, <2>1 DEF ToSet
<1>. QED BY <1>1, <1>2, <1>4, <1>5, <1>6 DEF Awaited

\* What the daemon knows.
LEMMA DaemonBasics ==
  ASSUME RemoteInv
  PROVE  /\ DaemonTypes /\ LineInv /\ opened \in 0 .. MaxLinks /\ MaxLinks \in Nat /\ link \in 0 .. opened
         /\ prompted \in 0 .. Prompts /\ Prompts \in Nat /\ prompted <= prompted
         /\ view.generation <= generation
         /\ \A p \in 1 .. prompted : origin[p].generation <= generation /\ origin[p].link # 0
         /\ (link = 0 => ~view.on) /\ (Awaited => link # 0 /\ origin[Head(line)].link = link)
         /\ Asked \cap Unsent = {} /\ RequestsFit /\ RequestsHeld
         /\ \A p \in published : p \notin ToSet(line) /\ p \in Done
         /\ (step = "answer" => Head(line) \in Done \ spoiled)
         /\ (link # 0 => link \in Link)
<1>1. DaemonTypes /\ MaxLinks \in Nat /\ Prompts \in Nat
  BY RemoteBounds DEF RemoteInv
<1>2. /\ opened \in 0 .. MaxLinks /\ link \in 0 .. opened /\ prompted \in 0 .. Prompts /\ prompted <= prompted
      /\ (link # 0 => link \in Link)
  BY <1>1 DEF DaemonTypes, Link
<1>3. \A p \in published : p \notin ToSet(line) /\ p \in Done
  BY DEF RemoteInv, SpoiledInv
<1>. QED BY <1>1, <1>2, <1>3 DEF RemoteInv, GrantInv, HeldInv, PlaceInv, SpoiledInv

LEMMA Wider ==
  ASSUME NEW S, NEW T, S \subseteq T, NEW q \in Seq(S)
  PROVE  q \in Seq(T)
<1>1. Len(q) \in Nat /\ DOMAIN q = 1 .. Len(q) /\ \A i \in DOMAIN q : q[i] \in T
  BY Elements
<1>2. q \in [1 .. Len(q) -> T]
  <2>1. q = [i \in 1 .. Len(q) |-> q[i]]
    BY <1>1
  <2>. QED BY <1>1, <2>1
<1>. QED BY <1>1, <1>2

LEMMA OpensLinkKeeps ==
  ASSUME RemoteInv, OpensLink
  PROVE  RemoteInv'
<1>1. /\ link = 0 /\ opened < MaxLinks /\ opened' = opened + 1 /\ link' = opened + 1 /\ view' = Unseen
      /\ sockets' = sockets \cup {link'} /\ up' = [up EXCEPT ![link'] = <<Control(granted, generation)>>]
      /\ Frozen /\ UNCHANGED <<down, prompted, line, step, origin, answered, published>>
  BY DEF OpensLink
<1>2. link' \in Link /\ link' # 0
  BY <1>1, DaemonBasics DEF Link
<1>3. PICK e : e = Control(granted, generation)
  OBVIOUS
<1>4. e \in UpFrame /\ \A d \in Link : \A m : m = e => Fits(m)'
  <2>1. e \in UpFrame /\ e.type = "discord_control" /\ e.generation = generation
    BY <1>3, Basics DEF Control, UpFrame, SessionTypes
  <2>2. generation' = generation
    BY <1>1 DEF Frozen, grantVars
  <2>. QED BY <2>1, <2>2, Basics DEF Fits
<1>5. up' \in [Link -> Seq(UpFrame)] /\ \A d \in Link : \A m \in ToSet(up'[d]) : m \in ToSet(up[d]) \/ m = e
  <2>1. <<e>> \in Seq(UpFrame) /\ ToSet(<<e>>) = {e}
    BY <1>4 DEF ToSet
  <2>2. up' = [up EXCEPT ![link'] = <<e>>]
    BY <1>1, <1>3
  <2>. QED BY <1>2, <2>1, <2>2, Basics
<1>6. DaemonTypes'
  <2>1. opened' \in 0 .. MaxLinks /\ link' \in 0 .. opened' /\ sockets' \subseteq 1 .. opened'
    BY <1>1, DaemonBasics DEF DaemonTypes
  <2>2. view' \in [on : BOOLEAN, generation : Known]
    BY <1>1, RemoteBounds DEF Unseen, Known
  <2>3. origin' \in [Prompt -> [link : 0 .. opened', generation : Known]]
    <3>1. \A n \in 0 .. opened : n \in 0 .. opened'
      BY <1>1, DaemonBasics
    <3>2. [link : 0 .. opened, generation : Known] \subseteq [link : 0 .. opened', generation : Known]
      BY <3>1
    <3>3. origin \in [Prompt -> [link : 0 .. opened, generation : Known]]
      BY DaemonBasics DEF DaemonTypes
    <3>. QED BY <1>1, <3>2, <3>3
  <2>. QED BY <1>1, <2>1, <2>2, <2>3, DaemonBasics DEF DaemonTypes
<1>7. LineInv' /\ Unsent' = Unsent
  BY <1>1, DaemonBasics DEF LineInv, Unsent, Sent
<1>8. Asked' = Asked /\ OneRequest' /\ RequestsFit'
  BY <1>1, RequestsStand
<1>9. \A p \in Prompt : origin[p].link # link'
  BY <1>1, DaemonBasics DEF DaemonTypes
<1>10. RequestsHeld'
  <2>1. \A c \in Link : \A i \in DOMAIN down[c] : down[c][i].type = "remote_request" => link' # c
    <3>1. \A c \in Link : \A i \in DOMAIN down[c] : down[c][i].prompt \in Prompt
      BY Frames, Basics
    <3>2. \A c \in Link : \A i \in DOMAIN down[c] : down[c][i].type = "remote_request" =>
            origin[down[c][i].prompt].link = c
      BY DaemonBasics DEF RequestsFit
    <3>. QED BY <1>9, <3>1, <3>2
  <2>. QED BY <1>1, <2>1 DEF RequestsHeld
<1>11. \A q \in Live \ revoked : Stopping(q)'
  <2>1. \A q \in Live : origin'[q].link # link'
    BY <1>1, <1>9, Basics
  <2>. QED BY <2>1 DEF Stopping
<1>12. ~Awaited' /\ view'.generation <= generation
  <2>1. ~Awaited' /\ view'.generation = -1
    BY <1>1, DaemonBasics DEF Awaited, Unseen
  <2>2. generation \in Int /\ -1 <= generation
    BY RemoteBounds, Basics DEF SessionTypes, Generations
  <2>. QED BY <2>1, <2>2
<1>13. \A p \in published' : p \notin ToSet(line') /\ p \in published
  BY <1>1, DaemonBasics
<1>14. \A c \in Link : \A m \in ToSet(up'[c]) : m \in ToSet(up[c]) \/ Fits(m)'
  BY <1>4, <1>5
<1>15. /\ sockets \subseteq sockets' /\ down' \in [Link -> Seq(DownFrame)] /\ prompted <= prompted'
       /\ \A p \in 1 .. prompted : origin'[p] = origin[p]
       /\ \A p \in 1 .. prompted' : origin'[p].generation <= generation /\ origin'[p].link # 0
       /\ Asked' \cap Unsent' = {}
  BY <1>1, <1>7, <1>8, Basics, DaemonBasics
<1>. QED BY <1>1, <1>2, <1>5, <1>6, <1>7, <1>8, <1>10, <1>11, <1>12, <1>13, <1>14, <1>15, DaemonAssembles

LEMMA PostsPromptKeeps ==
  ASSUME RemoteInv, PostsPrompt
  PROVE  RemoteInv'
<1>1. PICK n : n = prompted + 1
  OBVIOUS
<1>2. /\ prompted < Prompts /\ link # 0 /\ prompted' = n /\ line' = Append(line, n)
      /\ origin' = [origin EXCEPT ![n] = [link |-> link, generation |-> view.generation]]
      /\ Frozen /\ UNCHANGED <<sockets, down, up, link, opened, view, step, answered, published>>
  BY <1>1 DEF PostsPrompt, wires
<1>3. /\ n \in Prompt /\ n \in 1 .. n /\ prompted < n /\ prompted <= n /\ line \in Seq(1 .. prompted)
      /\ 1 .. prompted \subseteq 1 .. n /\ n \in 0 .. Prompts
  BY <1>1, <1>2, DaemonBasics DEF Prompt, DaemonTypes
<1>4. /\ line' \in Seq(1 .. n) /\ Len(line) \in Nat /\ DOMAIN line = 1 .. Len(line)
      /\ DOMAIN line' = 1 .. Len(line) + 1 /\ \A i \in 1 .. Len(line) : line'[i] = line[i] /\ line[i] \in 1 .. prompted
      /\ line'[Len(line) + 1] = n
  <2>1. line \in Seq(1 .. n) /\ n \in 1 .. n
    BY <1>3, Wider
  <2>2. Len(line) \in Nat /\ DOMAIN line = 1 .. Len(line) /\ \A i \in 1 .. Len(line) : line[i] \in 1 .. prompted
    BY <1>3, Elements
  <2>3. Append(line, n) \in Seq(1 .. n) /\ DOMAIN Append(line, n) = DOMAIN line \cup {Len(line) + 1}
        /\ (\A i \in DOMAIN line : Append(line, n)[i] = line[i]) /\ Append(line, n)[Len(line) + 1] = n
    BY <2>1, OneMore
  <2>4. 1 .. Len(line) + 1 = (1 .. Len(line)) \cup {Len(line) + 1}
    BY <2>2
  <2>. QED BY <1>2, <2>2, <2>3, <2>4
<1>5. ASSUME NEW i \in DOMAIN line'
      PROVE  \/ i \in DOMAIN line /\ line'[i] = line[i]
             \/ i = Len(line) + 1 /\ line'[i] = n
  BY <1>4
<1>6. LineInv'
  <2>1. \A i, j \in DOMAIN line : i < j => line[i] < line[j]
    BY DaemonBasics DEF LineInv
  <2>2. ASSUME NEW i \in DOMAIN line', NEW j \in DOMAIN line', i < j PROVE line'[i] < line'[j]
    <3>1. i \in DOMAIN line /\ line'[i] = line[i] /\ line[i] < n
      <4>1. i \in 1 .. Len(line)
        BY <1>4, <2>2
      <4>2. line[i] \in 1 .. prompted
        BY <1>4, <4>1
      <4>. QED BY <1>3, <1>4, <4>1, <4>2, DaemonBasics
    <3>. QED BY <1>5, <2>1, <2>2, <3>1
  <2>3. line' # <<>>
    BY <1>4
  <2>. QED BY <2>2, <2>3 DEF LineInv
<1>7. Unsent' \subseteq Unsent
  <2>1. ASSUME NEW p \in Prompt, p > prompted' PROVE p \in Unsent
    BY <1>2, <1>3, <2>1, DaemonBasics DEF Unsent, Prompt
  <2>2. ASSUME NEW p \in Prompt, NEW i \in DOMAIN line', line'[i] = p, i > 1 \/ ~Sent' PROVE p \in Unsent
    <3>1. CASE i \in DOMAIN line /\ line'[i] = line[i]
      BY <1>2, <2>2, <3>1 DEF Unsent, Sent
    <3>2. CASE line'[i] = n
      BY <1>3, <2>2, <3>2, DaemonBasics DEF Unsent
    <3>. QED BY <1>5, <3>1, <3>2
  <2>. QED BY <2>1, <2>2 DEF Unsent
<1>8. [link |-> link, generation |-> view.generation] \in [link : 0 .. opened, generation : Known]
  BY DaemonBasics DEF DaemonTypes
<1>9. /\ origin' \in [Prompt -> [link : 0 .. opened, generation : Known]]
      /\ origin'[n] = [link |-> link, generation |-> view.generation]
      /\ \A p \in Prompt \ {n} : origin'[p] = origin[p]
  BY <1>2, <1>3, <1>8, DaemonBasics DEF DaemonTypes
<1>10. \A p \in 1 .. prompted : p \in Prompt /\ p # n /\ origin'[p] = origin[p]
  <2>1. \A p \in 1 .. prompted : p \in Prompt /\ p # n
    BY <1>1, DaemonBasics DEF Prompt
  <2>. QED BY <1>9, <2>1
<1>11. DaemonTypes'
  BY <1>2, <1>3, <1>4, <1>9, DaemonBasics DEF DaemonTypes
<1>12. Asked' = Asked /\ OneRequest' /\ RequestsFit'
  BY <1>2, <1>10, RequestsStand
<1>13. Awaited => line # <<>> /\ Head(line') = Head(line) /\ Head(line) \in 1 .. prompted
  <2>1. Awaited => line # <<>>
    BY DaemonBasics DEF LineInv, Awaited
  <2>2. line # <<>> => Head(line') = Head(line) /\ Head(line) \in 1 .. prompted
    <3>1. Head(line') = line'[1]
      BY <1>2
    <3>. QED BY <1>4, <3>1, LineHead
  <2>. QED BY <2>1, <2>2
<1>14. step = "answer" => Head(line') = Head(line)
  <2>1. step = "answer" => line # <<>>
    BY DaemonBasics DEF LineInv
  <2>2. Head(line') = line'[1]
    BY <1>2
  <2>. QED BY <1>4, <2>1, <2>2, LineHead
<1>15. Awaited' <=> Awaited
  BY <1>2 DEF Awaited
<1>16. RequestsHeld'
  BY <1>2, <1>13, <1>15, DaemonBasics DEF RequestsHeld, CancelFrame
<1>17. \A q \in Live \ revoked : Stopping(q)'
  <2>1. \A q \in Live : origin'[q] = origin[q]
    BY <1>10, LivePosted
  <2>. QED BY <1>2, <1>13, <1>15, <2>1, Basics DEF Stopping, CancelFrame
<1>18. \A p \in 1 .. prompted' : origin'[p].generation <= generation /\ origin'[p].link # 0
  <2>1. \A p \in 1 .. n : p \in 1 .. prompted \/ p = n
    BY <1>1, DaemonBasics
  <2>. QED BY <1>2, <1>9, <1>10, <2>1, DaemonBasics
<1>19. \A p \in published' : p \notin ToSet(line') /\ p \in published
  <2>1. ASSUME NEW p \in published, p \in ToSet(line') PROVE FALSE
    <3>1. p \in Done /\ p \notin ToSet(line)
      BY <2>1, DaemonBasics
    <3>2. p # n
      BY <1>3, <3>1, DaemonBasics DEF Done, Unsent
    <3>. QED BY <1>5, <2>1, <3>1, <3>2 DEF ToSet
  <2>. QED BY <1>2, <2>1
<1>20. Awaited' => link' # 0 /\ origin'[Head(line')].link = link'
  BY <1>2, <1>10, <1>13, <1>15, DaemonBasics
<1>21. step' = "answer" => Head(line') \in Done \ spoiled
  BY <1>2, <1>14, DaemonBasics
<1>22. /\ sockets \subseteq sockets' /\ down' \in [Link -> Seq(DownFrame)] /\ up' \in [Link -> Seq(UpFrame)]
       /\ prompted <= prompted' /\ view'.generation <= generation /\ (link' = 0 => ~view'.on)
       /\ Asked' \cap Unsent' = {} /\ \A c \in Link : \A m \in ToSet(up'[c]) : m \in ToSet(up[c])
  BY <1>2, <1>3, <1>7, <1>12, Basics, DaemonBasics
<1>. QED BY <1>2, <1>6, <1>7, <1>10, <1>11, <1>12, <1>16, <1>17, <1>18, <1>19, <1>20, <1>21, <1>22, DaemonAssembles

\* A step that sends nothing to the session: the line moves on, or the first prompt stays.
LEMMA MovesOn ==
  ASSUME RemoteInv, Frozen, line # <<>>, LineMoves, UNCHANGED <<sockets, down, opened, prompted, origin>>,
         up' \in [Link -> Seq(UpFrame)], \A c \in Link : \A m \in ToSet(up'[c]) : m \in ToSet(up[c]),
         link' \in {link, 0}, view' \in [on : BOOLEAN, generation : Known], view'.generation <= generation,
         link' = 0 => ~view'.on, answered' \in Known,
         Awaited => Head(line) \in Done \/ link' = 0,
         \A p \in published' : p \in published \/ (p = Head(line) /\ step = "answer")
  PROVE  RemoteInv'
<1>1. /\ line' \in Seq(1 .. prompted') /\ LineInv' /\ Unsent' \subseteq Unsent
      /\ ToSet(line') \subseteq ToSet(line) /\ Head(line) \notin ToSet(line') /\ ~Awaited' /\ step' = "wait"
  BY Advances
<1>2. DaemonTypes'
  <2>1. link' \in 0 .. opened'
    BY DaemonBasics
  <2>. QED BY <1>1, <2>1, DaemonBasics DEF DaemonTypes
<1>3. Asked' = Asked /\ OneRequest' /\ RequestsFit'
  BY RequestsStand
<1>4. \A p : Awaited /\ Head(line) = p => p \in Done \/ link' = 0
  OBVIOUS
<1>5. RequestsHeld'
  <2>1. ASSUME NEW c \in Link, NEW i \in DOMAIN down[c], down[c][i].type = "remote_request"
        PROVE  \/ link' # c
               \/ \E j \in DOMAIN down[c] : j > i /\ down[c][j] = CancelFrame(down[c][i].prompt)
    <3>1. down[c][i].prompt \notin Done /\ c # 0
      BY <2>1, Frames, Basics DEF Done
    <3>2. \/ Awaited /\ Head(line) = down[c][i].prompt
          \/ link # c
          \/ \E j \in DOMAIN down[c] : j > i /\ down[c][j] = CancelFrame(down[c][i].prompt)
      BY <2>1, DaemonBasics DEF RequestsHeld
    <3>. QED BY <3>1, <3>2
  <2>. QED BY <2>1 DEF RequestsHeld, CancelFrame
<1>6. ASSUME NEW q \in Live \ revoked PROVE Stopping(q)'
  <2>1. Stopping(q) /\ q \notin Done /\ origin[q].link # 0
    <3>1. Stopping(q) /\ q \in Live /\ origin[q].link \in Link
      BY Basics
    <3>. QED BY <3>1, Frames, Basics DEF Done
  <2>. QED BY <1>4, <2>1 DEF Stopping, CancelFrame
<1>7. \A p \in published' : p \notin ToSet(line') /\ (p \in published \/ p \in Done \ spoiled)
  BY <1>1, DaemonBasics
<1>8. /\ sockets \subseteq sockets' /\ down' \in [Link -> Seq(DownFrame)] /\ prompted <= prompted'
      /\ Asked' \subseteq Asked \cup Unsent /\ Asked' \cap Unsent' = {}
      /\ \A p \in 1 .. prompted : origin'[p] = origin[p]
      /\ \A p \in 1 .. prompted' : origin'[p].generation <= generation /\ origin'[p].link # 0
  BY <1>1, <1>3, Basics, DaemonBasics
<1>9. \A c \in Link : \A m \in ToSet(up'[c]) : m \in ToSet(up[c]) \/ Fits(m)'
  OBVIOUS
<1>10. step' # "answer"
  BY <1>1
<1>. QED BY <1>1, <1>2, <1>3, <1>5, <1>6, <1>7, <1>8, <1>9, <1>10, DaemonAssembles

LEMMA StandsStill ==
  ASSUME RemoteInv, Frozen, UNCHANGED <<sockets, down, opened, prompted, origin, line, published>>,
         up' \in [Link -> Seq(UpFrame)], \A c \in Link : \A m \in ToSet(up'[c]) : m \in ToSet(up[c]),
         link' \in {link, 0}, view' \in [on : BOOLEAN, generation : Known], view'.generation <= generation,
         link' = 0 => ~view'.on, answered' \in Known,
         step' \in {"wait", "stage", "sent", "acked", "answer"}, line = <<>> => step' = "wait", Sent => Sent',
         Awaited' => Awaited /\ link' = link,
         Awaited => Awaited' \/ Head(line) \in Done \/ link' = 0,
         step' = "answer" => step = "answer" \/ Head(line) \in Done \ spoiled
  PROVE  RemoteInv'
<1>1. DaemonTypes'
  <2>1. link' \in 0 .. opened'
    BY DaemonBasics
  <2>. QED BY <2>1, DaemonBasics DEF DaemonTypes
<1>2. LineInv' /\ Unsent' \subseteq Unsent
  BY DaemonBasics DEF LineInv, Unsent
<1>3. Asked' = Asked /\ OneRequest' /\ RequestsFit'
  BY RequestsStand
<1>4. \A p : Awaited /\ Head(line) = p => p \in Done \/ link' = 0 \/ (Awaited' /\ Head(line') = p)
  OBVIOUS
<1>5. RequestsHeld'
  <2>1. ASSUME NEW c \in Link, NEW i \in DOMAIN down[c], down[c][i].type = "remote_request"
        PROVE  \/ Awaited' /\ Head(line') = down[c][i].prompt
               \/ link' # c
               \/ \E j \in DOMAIN down[c] : j > i /\ down[c][j] = CancelFrame(down[c][i].prompt)
    <3>1. down[c][i].prompt \notin Done /\ c # 0
      BY <2>1, Frames, Basics DEF Done
    <3>2. \/ Awaited /\ Head(line) = down[c][i].prompt
          \/ link # c
          \/ \E j \in DOMAIN down[c] : j > i /\ down[c][j] = CancelFrame(down[c][i].prompt)
      BY <2>1, DaemonBasics DEF RequestsHeld
    <3>. QED BY <1>4, <3>1, <3>2
  <2>2. down' = down /\ line' = line
    OBVIOUS
  <2>3. ASSUME NEW c \in Link, NEW i \in DOMAIN down'[c], down'[c][i].type = "remote_request"
        PROVE  \/ Awaited' /\ Head(line') = down'[c][i].prompt
               \/ link' # c
               \/ \E j \in DOMAIN down'[c] : j > i /\ down'[c][j] = CancelFrame(down'[c][i].prompt)
    BY <2>1, <2>2, <2>3
  <2>. QED BY <2>3 DEF RequestsHeld, CancelFrame
<1>6. ASSUME NEW q \in Live \ revoked PROVE Stopping(q)'
  <2>1. Stopping(q) /\ q \notin Done /\ origin[q].link # 0
    <3>1. Stopping(q) /\ q \in Live /\ origin[q].link \in Link
      BY Basics
    <3>. QED BY <3>1, Frames, Basics DEF Done
  <2>. QED BY <1>4, <2>1 DEF Stopping, CancelFrame
<1>7. \A p \in published' : p \notin ToSet(line') /\ (p \in published \/ p \in Done \ spoiled)
  BY DaemonBasics
<1>8. /\ sockets \subseteq sockets' /\ down' \in [Link -> Seq(DownFrame)] /\ prompted <= prompted'
      /\ Asked' \subseteq Asked \cup Unsent /\ Asked' \cap Unsent' = {}
      /\ \A p \in 1 .. prompted : origin'[p] = origin[p]
      /\ \A p \in 1 .. prompted' : origin'[p].generation <= generation /\ origin'[p].link # 0
  BY <1>2, <1>3, Basics, DaemonBasics
<1>9. Awaited' => link' # 0 /\ origin'[Head(line')].link = link'
  BY DaemonBasics
<1>10. step' = "answer" => Head(line') \in Done \ spoiled
  BY DaemonBasics
<1>11. \A c \in Link : \A m \in ToSet(up'[c]) : m \in ToSet(up[c]) \/ Fits(m)'
  OBVIOUS
<1>. QED BY <1>1, <1>2, <1>3, <1>5, <1>6, <1>7, <1>8, <1>9, <1>10, <1>11, DaemonAssembles

LEMMA PublishesKeeps ==
  ASSUME RemoteInv, Publishes
  PROVE  RemoteInv'
<1>1. /\ line # <<>> /\ step = "answer" /\ LineMoves
      /\ \A p \in published' : p \in published \/ p = Head(line)
      /\ Frozen /\ UNCHANGED <<sockets, down, up, link, opened, view, prompted, origin, answered>>
  BY DEF Publishes, wires
<1>2. ~Awaited
  BY <1>1 DEF Awaited
<1>3. view \in [on : BOOLEAN, generation : Known] /\ answered \in Known
  BY DaemonBasics DEF DaemonTypes
<1>. QED BY <1>1, <1>2, <1>3, Basics, DaemonBasics, MovesOn

LEMMA DaemonClosesKeeps ==
  ASSUME RemoteInv, DaemonCloses
  PROVE  RemoteInv'
<1>1. /\ link # 0 /\ link' = 0 /\ view' = Unseen /\ up' = [up EXCEPT ![link] = <<>>]
      /\ IF Awaited THEN LineMoves ELSE UNCHANGED <<line, step>>
      /\ Frozen /\ UNCHANGED <<sockets, down, opened, prompted, origin, answered, published>>
  BY DEF DaemonCloses, Awaited
<1>2. up' \in [Link -> Seq(UpFrame)] /\ \A c \in Link : \A m \in ToSet(up'[c]) : m \in ToSet(up[c])
  <2>1. <<>> \in Seq(UpFrame) /\ ToSet(<<>>) = {}
    BY DEF ToSet
  <2>2. link \in Link
    BY <1>1, DaemonBasics
  <2>3. \A c \in Link : up'[c] = up[c] \/ up'[c] = <<>>
    BY <1>1, Basics
  <2>4. up' \in [Link -> Seq(UpFrame)]
    BY <1>1, <2>1, <2>2, Basics
  <2>5. ASSUME NEW c \in Link, NEW m \in ToSet(up'[c]) PROVE m \in ToSet(up[c])
    <3>1. CASE up'[c] = up[c]
      BY <2>5, <3>1
    <3>2. CASE up'[c] = <<>>
      <4>1. m \in ToSet(<<>>)
        BY <2>5, <3>2
      <4>. QED BY <2>1, <4>1
    <3>. QED BY <2>3, <3>1, <3>2
  <2>. QED BY <2>4, <2>5
<1>3. view' \in [on : BOOLEAN, generation : Known] /\ view'.generation <= generation /\ ~view'.on
  <2>1. generation \in Int /\ -1 <= generation /\ -1 \in Known
    BY RemoteBounds, Basics DEF SessionTypes, Generations, Known
  <2>. QED BY <1>1, <2>1 DEF Unseen
<1>4. answered \in Known /\ step \in {"wait", "stage", "sent", "acked", "answer"}
  BY DaemonBasics DEF DaemonTypes
<1>5. CASE Awaited
  <2>1. line # <<>> /\ LineMoves
    BY <1>1, <1>5, DaemonBasics DEF LineInv, Awaited
  <2>. QED BY <1>1, <1>2, <1>3, <1>4, <2>1, MovesOn
<1>6. CASE ~Awaited
  <2>1. UNCHANGED <<line, step>> /\ ~Awaited' /\ (Sent => Sent') /\ (line = <<>> => step' = "wait")
    BY <1>1, <1>6, DaemonBasics DEF Awaited, Sent, LineInv
  <2>. QED BY <1>1, <1>2, <1>3, <1>4, <1>6, <2>1, StandsStill
<1>. QED BY <1>5, <1>6

LEMMA HearsSessionKeeps ==
  ASSUME RemoteInv, HearsSession
  PROVE  RemoteInv'
<1>1. PICK frame : frame = Head(up[link])
  OBVIOUS
<1>2. PICK own \in BOOLEAN : own = (line # <<>> /\ frame.type # "discord_control" /\ frame.prompt = Head(line))
  OBVIOUS
<1>3. /\ link # 0 /\ up[link] # <<>> /\ up' = [up EXCEPT ![link] = Tail(@)]
      /\ view' = IF frame.type = "discord_control" THEN [on |-> frame.on, generation |-> frame.generation] ELSE view
      /\ IF own /\ frame.type = "ack" /\ step = "sent"
         THEN IF frame.ok THEN step' = "acked" /\ UNCHANGED <<line, answered>>
                          ELSE LineMoves /\ UNCHANGED answered
         ELSE IF own /\ frame.type = "remote_final" /\ step = "acked"
         THEN IF frame.ok THEN step' = "answer" /\ answered' = frame.generation /\ UNCHANGED line
                          ELSE LineMoves /\ UNCHANGED answered
         ELSE UNCHANGED <<line, step, answered>>
      /\ Frozen /\ UNCHANGED <<sockets, down, link, opened, prompted, origin, published>>
  BY <1>1, <1>2 DEF HearsSession
<1>4. link \in Link /\ up[link] \in Seq(UpFrame)
  BY <1>3, Basics, DaemonBasics
<1>5. frame \in ToSet(up[link]) /\ Tail(up[link]) \in Seq(UpFrame) /\ ToSet(Tail(up[link])) \subseteq ToSet(up[link])
  BY <1>1, <1>3, <1>4, Shorter
<1>6. frame \in UpFrame /\ Fits(frame)
  BY <1>4, <1>5, Frames, Basics
<1>7. up' \in [Link -> Seq(UpFrame)] /\ \A c \in Link : \A m \in ToSet(up'[c]) : m \in ToSet(up[c])
  <2>1. up' = [up EXCEPT ![link] = Tail(up[link])]
    BY <1>3
  <2>. QED BY <1>4, <1>5, <2>1, Basics
<1>8. view' \in [on : BOOLEAN, generation : Known] /\ view'.generation <= generation
  <2>1. frame.type = "discord_control" => frame.on \in BOOLEAN /\ frame.generation \in Known /\ frame.generation <= generation
    BY <1>6, RemoteBounds DEF UpFrame, Fits, Generations, Known
  <2>2. view \in [on : BOOLEAN, generation : Known] /\ view.generation <= generation
    BY DaemonBasics DEF DaemonTypes
  <2>3. CASE frame.type = "discord_control"
    <3>1. view' = [on |-> frame.on, generation |-> frame.generation]
      BY <1>3, <2>3
    <3>. QED BY <2>1, <2>3, <3>1
  <2>4. CASE frame.type # "discord_control"
    BY <1>3, <2>2, <2>4
  <2>. QED BY <2>3, <2>4
<1>9. answered \in Known /\ step \in {"wait", "stage", "sent", "acked", "answer"}
  BY DaemonBasics DEF DaemonTypes
<1>10. CASE own /\ frame.type = "ack" /\ step = "sent"
  <2>1. line # <<>>
    BY <1>2, <1>10
  <2>2. CASE frame.ok
    <3>1. step' = "acked" /\ UNCHANGED <<line, answered>>
      BY <1>3, <1>10, <2>2
    <3>2. Sent /\ Sent' /\ Awaited /\ Awaited'
      BY <1>10, <3>1 DEF Sent, Awaited
    <3>3. ~(step' = "answer") /\ step' \in {"wait", "stage", "sent", "acked", "answer"}
      BY <3>1
    <3>. QED BY <1>3, <1>7, <1>8, <1>9, <2>1, <3>1, <3>2, <3>3, StandsStill
  <2>3. CASE ~frame.ok
    <3>1. LineMoves /\ UNCHANGED answered
      BY <1>3, <1>10, <2>3
    <3>2. Head(line) \in Done
      BY <1>2, <1>6, <1>10, <2>3 DEF Fits
    <3>. QED BY <1>3, <1>7, <1>8, <1>9, <2>1, <3>1, <3>2, MovesOn
  <2>. QED BY <2>2, <2>3
<1>11. CASE own /\ frame.type = "remote_final" /\ step = "acked"
  <2>1. line # <<>> /\ Head(line) \in Done
    BY <1>2, <1>6, <1>11 DEF Fits
  <2>2. CASE frame.ok
    <3>1. step' = "answer" /\ answered' = frame.generation /\ UNCHANGED line
      BY <1>3, <1>11, <2>2
    <3>2. Head(line) \notin spoiled
      BY <1>2, <1>6, <1>11, <2>2 DEF Fits
    <3>3. answered' \in Known
      BY <1>6, <1>11, <3>1 DEF UpFrame
    <3>4. Sent' /\ ~Awaited' /\ step' \in {"wait", "stage", "sent", "acked", "answer"}
      BY <3>1 DEF Sent, Awaited
    <3>. QED BY <1>3, <1>7, <1>8, <2>1, <3>1, <3>2, <3>3, <3>4, StandsStill
  <2>3. CASE ~frame.ok
    <3>1. LineMoves /\ UNCHANGED answered
      BY <1>3, <1>11, <2>3
    <3>. QED BY <1>3, <1>7, <1>8, <1>9, <2>1, <3>1, MovesOn
  <2>. QED BY <2>2, <2>3
<1>12. CASE UNCHANGED <<line, step, answered>>
  <2>1. (Awaited' <=> Awaited) /\ (Sent => Sent') /\ (line = <<>> => step' = "wait")
    BY <1>12, DaemonBasics DEF Awaited, Sent, LineInv
  <2>. QED BY <1>3, <1>7, <1>8, <1>9, <1>12, <2>1, StandsStill
<1>. QED BY <1>3, <1>10, <1>11, <1>12

LEMMA GivesUpKeeps ==
  ASSUME RemoteInv, GivesUp
  PROVE  RemoteInv'
<1>1. PICK h : h = Head(line)
  OBVIOUS
<1>2. PICK e : e = CancelFrame(h)
  OBVIOUS
<1>3. /\ line # <<>> /\ Awaited /\ LineMoves /\ down' = Put(down, link, e)
      /\ Frozen /\ UNCHANGED <<sockets, up, link, opened, view, prompted, origin, answered, published>>
  BY <1>1, <1>2 DEF GivesUp, Awaited, Put, CancelFrame
<1>4. link # 0 /\ link \in Link /\ origin[h].link = link /\ h \in Prompt
  BY <1>1, <1>3, DaemonBasics, LineHead
<1>5. e \in DownFrame /\ e.type # "remote_request"
  BY <1>2, <1>4 DEF CancelFrame, DownFrame
<1>6. /\ down' \in [Link -> Seq(DownFrame)] /\ down'[link] = Append(down[link], e)
      /\ \A d \in Link : d # link => down'[d] = down[d]
      /\ \A d \in Link : \A x : x \in ToSet(down'[d]) <=> x \in ToSet(down[d]) \/ (d = link /\ x = e)
  <2>1. /\ Put(down, link, e) \in [Link -> Seq(DownFrame)] /\ Put(down, link, e)[link] = Append(down[link], e)
        /\ \A d \in Link : d # link => Put(down, link, e)[d] = down[d]
        /\ \A d \in Link : \A x : x \in ToSet(Put(down, link, e)[d]) <=> x \in ToSet(down[d]) \/ (d = link /\ x = e)
    <3>1. down \in [Link -> Seq(DownFrame)] /\ link \in Link /\ e \in DownFrame
      BY <1>4, <1>5, Basics
    <3>. QED BY <3>1, AsksOne
  <2>. QED BY <1>3, <2>1, Zenon
<1>7. ASSUME NEW c \in Link
      PROVE  /\ Len(down[link]) \in Nat /\ DOMAIN down[c] \subseteq DOMAIN down'[c]
             /\ \A i \in DOMAIN down[c] : down'[c][i] = down[c][i] /\ (c = link => i < Len(down[link]) + 1)
             /\ \A i \in DOMAIN down'[c] : i \in DOMAIN down[c] \/ (c = link /\ i = Len(down[link]) + 1)
             /\ Len(down[link]) + 1 \in DOMAIN down'[link] /\ down'[link][Len(down[link]) + 1] = e
  <2>1. down[link] \in Seq(DownFrame)
    BY <1>4, Basics
  <2>2. Len(down[link]) \in Nat /\ DOMAIN down[link] = 1 .. Len(down[link])
    BY <2>1
  <2>3. /\ DOMAIN down'[link] = DOMAIN down[link] \cup {Len(down[link]) + 1}
        /\ \A i \in DOMAIN down[link] : down'[link][i] = down[link][i]
        /\ down'[link][Len(down[link]) + 1] = e
    BY <1>5, <1>6, <2>1, OneMore
  <2>4. \A i \in DOMAIN down[link] : i < Len(down[link]) + 1
    BY <2>2
  <2>. QED BY <1>6, <2>2, <2>3, <2>4
<1>8. \A c \in Link : \A i \in DOMAIN down'[c] : down'[c][i].type = "remote_request" =>
        i \in DOMAIN down[c] /\ down'[c][i] = down[c][i]
  BY <1>5, <1>7
<1>9. /\ line' \in Seq(1 .. prompted') /\ LineInv' /\ Unsent' \subseteq Unsent
      /\ ToSet(line') \subseteq ToSet(line) /\ ~Awaited' /\ step' = "wait"
  BY <1>3, Advances
<1>10. DaemonTypes'
  BY <1>3, <1>9, DaemonBasics DEF DaemonTypes
<1>11. \A c \in Link : \A i \in DOMAIN down'[c] : \A p : RequestAt(c, i, p)' => RequestAt(c, i, p)
  BY <1>8 DEF RequestAt
<1>12. Asked' \subseteq Asked
  <2>1. \A c \in Link : \A i \in DOMAIN down'[c] : \A p : RequestAt(c, i, p)' => i \in DOMAIN down[c]
    BY <1>11 DEF RequestAt
  <2>. QED BY <1>11, <2>1 DEF Asked
<1>13. OneRequest'
  <2>1. OneRequest
    BY DEF RemoteInv, PlaceInv
  <2>2. \A c \in Link : \A i \in DOMAIN down'[c] : \A p : RequestAt(c, i, p)' => i \in DOMAIN down[c]
    BY <1>11 DEF RequestAt
  <2>. QED BY <1>11, <2>1, <2>2 DEF OneRequest
<1>14. RequestsFit'
  BY <1>3, <1>8, DaemonBasics DEF RequestsFit
<1>15. RequestsHeld'
  <2>1. ASSUME NEW c \in Link, NEW i \in DOMAIN down'[c], down'[c][i].type = "remote_request"
        PROVE  \/ link' # c
               \/ \E j \in DOMAIN down'[c] : j > i /\ down'[c][j] = CancelFrame(down'[c][i].prompt)
    <3>1. i \in DOMAIN down[c] /\ down'[c][i] = down[c][i]
      BY <1>8, <2>1
    <3>2. \/ h = down[c][i].prompt
          \/ link # c
          \/ \E j \in DOMAIN down[c] : j > i /\ down[c][j] = CancelFrame(down[c][i].prompt)
      BY <1>1, <2>1, <3>1, DaemonBasics DEF RequestsHeld
    <3>3. CASE h = down[c][i].prompt
      <4>1. c = link
        BY <1>4, <2>1, <3>1, <3>3, DaemonBasics DEF RequestsFit
      <4>2. Len(down[link]) + 1 \in DOMAIN down'[c] /\ Len(down[link]) + 1 > i /\ i \in Nat
        BY <1>7, <3>1, <4>1, Frames, Basics
      <4>. QED BY <1>2, <1>7, <3>1, <3>3, <4>1, <4>2
    <3>4. CASE \E j \in DOMAIN down[c] : j > i /\ down[c][j] = CancelFrame(down[c][i].prompt)
      BY <1>7, <3>1, <3>4
    <3>. QED BY <1>3, <3>2, <3>3, <3>4
  <2>. QED BY <2>1 DEF RequestsHeld, CancelFrame
<1>16. ASSUME NEW q \in Live \ revoked PROVE Stopping(q)'
  <2>1. Stopping(q) /\ origin[q].link \in Link
    BY Basics
  <2>2. PICK d \in Link : d = origin[q].link
    BY <2>1
  <2>3. link # d \/ CancelFrame(q) \in ToSet(down'[d])
    BY <1>1, <1>2, <1>4, <1>6, <2>1, <2>2 DEF Stopping
  <2>. QED BY <1>3, <2>2, <2>3 DEF Stopping, CancelFrame
<1>17. /\ sockets \subseteq sockets' /\ prompted <= prompted' /\ up' \in [Link -> Seq(UpFrame)]
       /\ view'.generation <= generation /\ (link' = 0 => ~view'.on)
       /\ Asked' \subseteq Asked \cup Unsent /\ Asked' \cap Unsent' = {}
       /\ \A p \in 1 .. prompted : origin'[p] = origin[p]
       /\ \A p \in 1 .. prompted' : origin'[p].generation <= generation /\ origin'[p].link # 0
       /\ \A c \in Link : \A m \in ToSet(up'[c]) : m \in ToSet(up[c])
       /\ \A p \in published' : p \notin ToSet(line') /\ p \in published
  BY <1>3, <1>9, <1>12, Basics, DaemonBasics
<1>18. step' # "answer"
  BY <1>9
<1>. QED BY <1>3, <1>6, <1>9, <1>10, <1>13, <1>14, <1>15, <1>16, <1>17, <1>18, DaemonAssembles

\* The first prompt is sent to the session.
LEMMA SendsKeeps ==
  ASSUME RemoteInv, Frozen, line # <<>>, step = "stage", Current, step' = "sent",
         down' = Put(down, link, [type |-> "remote_request", prompt |-> Head(line), generation |-> view.generation]),
         UNCHANGED <<sockets, up, link, opened, view, prompted, line, origin, answered, published>>
  PROVE  RemoteInv'
<1>1. PICK h : h = Head(line)
  OBVIOUS
<1>2. PICK e : e = [type |-> "remote_request", prompt |-> h, generation |-> view.generation]
  OBVIOUS
<1>3. down' = Put(down, link, e)
  BY <1>1, <1>2
<1>4. origin[h] = [link |-> link, generation |-> view.generation] /\ link # 0 /\ link \in Link /\ h \in Prompt
  BY <1>1, DaemonBasics, LineHead DEF Current
<1>5. e \in DownFrame /\ e.type = "remote_request" /\ e.prompt = h /\ e.generation = view.generation
  <2>1. view.generation \in Known
    BY DaemonBasics DEF DaemonTypes
  <2>. QED BY <1>2, <1>4, <2>1 DEF DownFrame
<1>6. /\ Put(down, link, e) \in [Link -> Seq(DownFrame)] /\ Put(down, link, e)[link] = Append(down[link], e)
      /\ \A d \in Link : d # link => Put(down, link, e)[d] = down[d]
      /\ \A d \in Link : \A x : x \in ToSet(Put(down, link, e)[d]) <=> x \in ToSet(down[d]) \/ (d = link /\ x = e)
  <2>1. down \in [Link -> Seq(DownFrame)] /\ link \in Link /\ e \in DownFrame
    BY <1>4, <1>5, Basics
  <2>. QED BY <2>1, AsksOne
<1>7. /\ down' \in [Link -> Seq(DownFrame)] /\ down'[link] = Append(down[link], e)
      /\ \A d \in Link : d # link => down'[d] = down[d]
      /\ \A d \in Link : \A x : x \in ToSet(down[d]) => x \in ToSet(down'[d])
  BY <1>3, <1>6, Zenon
<1>8. PICK n : n = Len(down[link]) + 1
  OBVIOUS
<1>9. ASSUME NEW c \in Link
      PROVE  /\ \A i \in DOMAIN down[c] : i \in DOMAIN down'[c] /\ down'[c][i] = down[c][i]
             /\ \A i \in DOMAIN down'[c] : \/ i \in DOMAIN down[c] /\ down'[c][i] = down[c][i]
                                           \/ c = link /\ i = n /\ down'[c][i] = e
  <2>1. down[link] \in Seq(DownFrame)
    BY <1>4, Basics
  <2>2. /\ DOMAIN down'[link] = DOMAIN down[link] \cup {n}
        /\ \A i \in DOMAIN down[link] : down'[link][i] = down[link][i]
        /\ down'[link][n] = e
    <3>1. /\ DOMAIN Append(down[link], e) = DOMAIN down[link] \cup {Len(down[link]) + 1}
          /\ \A i \in DOMAIN down[link] : Append(down[link], e)[i] = down[link][i]
          /\ Append(down[link], e)[Len(down[link]) + 1] = e
      BY <1>5, <2>1, OneMore
    <3>. QED BY <1>7, <1>8, <3>1
  <2>. QED BY <1>7, <2>2
<1>10. h \in Unsent
  <2>1. ~Sent /\ 1 \in DOMAIN line /\ line[1] = h
    BY <1>1, LineHead DEF Sent
  <2>. QED BY <1>4, <2>1 DEF Unsent
<1>11. h \notin Asked
  BY <1>10, DaemonBasics
<1>12. ASSUME NEW c \in Link, NEW i \in DOMAIN down'[c], NEW p, RequestAt(c, i, p)'
       PROVE  \/ i \in DOMAIN down[c] /\ RequestAt(c, i, p)
              \/ c = link /\ i = n /\ p = h
  BY <1>5, <1>9, <1>12 DEF RequestAt
<1>13. Asked' \subseteq Asked \cup {h}
  <2>1. ASSUME NEW p \in Prompt, NEW c \in Link, NEW i \in DOMAIN down'[c], RequestAt(c, i, p)'
        PROVE  p \in Asked \cup {h}
    BY <1>12, <2>1 DEF Asked
  <2>. QED BY <2>1 DEF Asked
<1>14. OneRequest'
  <2>1. ASSUME NEW c \in Link, NEW d \in Link, NEW i \in DOMAIN down'[c], NEW j \in DOMAIN down'[d],
               NEW p \in Prompt, RequestAt(c, i, p)', RequestAt(d, j, p)'
        PROVE  c = d /\ i = j
    <3>1. \/ i \in DOMAIN down[c] /\ RequestAt(c, i, p) /\ p \in Asked
          \/ c = link /\ i = n /\ p = h
      BY <1>12, <2>1 DEF Asked
    <3>2. \/ j \in DOMAIN down[d] /\ RequestAt(d, j, p) /\ p \in Asked
          \/ d = link /\ j = n /\ p = h
      BY <1>12, <2>1 DEF Asked
    <3>3. OneRequest
      BY DEF RemoteInv, PlaceInv
    <3>. QED BY <1>11, <3>1, <3>2, <3>3 DEF OneRequest
  <2>. QED BY <2>1 DEF OneRequest
<1>15. RequestsFit'
  <2>1. ASSUME NEW c \in Link, NEW i \in DOMAIN down'[c], down'[c][i].type = "remote_request"
        PROVE  /\ down'[c][i].generation = origin[down'[c][i].prompt].generation
               /\ origin[down'[c][i].prompt].link = c
    <3>1. CASE i \in DOMAIN down[c] /\ down'[c][i] = down[c][i]
      BY <2>1, <3>1, DaemonBasics DEF RequestsFit
    <3>2. CASE c = link /\ down'[c][i] = e
      BY <1>4, <1>5, <3>2
    <3>. QED BY <1>9, <2>1, <3>1, <3>2
  <2>. QED BY <2>1 DEF RequestsFit
<1>16. ~Awaited /\ Awaited'
  BY DEF Awaited
<1>17. RequestsHeld'
  <2>1. ASSUME NEW c \in Link, NEW i \in DOMAIN down'[c], down'[c][i].type = "remote_request"
        PROVE  \/ Awaited' /\ h = down'[c][i].prompt
               \/ link # c
               \/ \E j \in DOMAIN down'[c] : j > i /\ down'[c][j] = CancelFrame(down'[c][i].prompt)
    <3>1. CASE i \in DOMAIN down[c] /\ down'[c][i] = down[c][i]
      <4>1. \/ link # c
            \/ \E j \in DOMAIN down[c] : j > i /\ down[c][j] = CancelFrame(down[c][i].prompt)
        BY <1>16, <2>1, <3>1, DaemonBasics DEF RequestsHeld
      <4>. QED BY <1>9, <3>1, <4>1
    <3>2. CASE down'[c][i] = e
      BY <1>5, <1>16, <3>2
    <3>. QED BY <1>9, <2>1, <3>1, <3>2
  <2>. QED BY <1>1, <2>1 DEF RequestsHeld, CancelFrame
<1>18. Unsent' \subseteq Unsent \ {h}
  <2>1. Unsent' \subseteq Unsent
    BY DEF Unsent, Sent
  <2>2. h \notin Unsent'
    <3>1. ~(h > prompted)
      BY <1>1, LineHead
    <3>2. \A i \in DOMAIN line : i > 1 => line[i] # h
      BY <1>1, LineHead
    <3>. QED BY <3>1, <3>2 DEF Unsent, Sent
  <2>. QED BY <2>1, <2>2
<1>19. DaemonTypes' /\ LineInv'
  BY DaemonBasics DEF DaemonTypes, LineInv
<1>20. ASSUME NEW q \in Live \ revoked PROVE Stopping(q)'
  <2>1. Stopping(q) /\ origin[q].link \in Link
    BY Basics
  <2>. QED BY <1>7, <1>16, <2>1 DEF Stopping, CancelFrame
<1>21. /\ sockets \subseteq sockets' /\ prompted <= prompted' /\ up' \in [Link -> Seq(UpFrame)]
       /\ view'.generation <= generation /\ (link' = 0 => ~view'.on)
       /\ Asked' \subseteq Asked \cup Unsent /\ Asked' \cap Unsent' = {} /\ Unsent' \subseteq Unsent
       /\ \A p \in 1 .. prompted : origin'[p] = origin[p]
       /\ \A p \in 1 .. prompted' : origin'[p].generation <= generation /\ origin'[p].link # 0
       /\ \A c \in Link : \A m \in ToSet(up'[c]) : m \in ToSet(up[c])
       /\ \A p \in published' : p \notin ToSet(line') /\ p \in published
  BY <1>10, <1>13, <1>18, Basics, DaemonBasics
<1>22. link' # 0 /\ origin'[Head(line')].link = link'
  BY <1>1, <1>4
<1>23. step' # "answer"
  OBVIOUS
<1>. QED BY <1>7, <1>14, <1>15, <1>17, <1>19, <1>20, <1>21, <1>22, <1>23, DaemonAssembles

LEMMA PreparesKeeps ==
  ASSUME RemoteInv, Prepares
  PROVE  RemoteInv'
<1>1. /\ line # <<>> /\ step \in {"wait", "stage"}
      /\ Frozen /\ UNCHANGED <<sockets, up, link, opened, view, prompted, origin, answered, published>>
  BY DEF Prepares
<1>2. /\ ~Awaited /\ ~Sent /\ view \in [on : BOOLEAN, generation : Known] /\ answered \in Known
      /\ view.generation <= generation /\ (link = 0 => ~view.on)
      /\ up \in [Link -> Seq(UpFrame)]
  BY <1>1, Basics, DaemonBasics DEF Awaited, Sent, DaemonTypes
<1>3. CASE LineMoves /\ UNCHANGED down
  BY <1>1, <1>2, <1>3, MovesOn
<1>4. CASE UNCHANGED line /\ step' = "stage" /\ UNCHANGED down
  <2>1. ~Awaited'
    BY <1>4 DEF Awaited
  <2>. QED BY <1>1, <1>2, <1>4, <2>1, StandsStill
<1>5. CASE /\ Current /\ UNCHANGED line /\ step = "stage" /\ step' = "sent"
           /\ down' = [down EXCEPT ![link] =
                Append(@, [type |-> "remote_request", prompt |-> Head(line), generation |-> view.generation])]
  <2>1. down' = Put(down, link, [type |-> "remote_request", prompt |-> Head(line), generation |-> view.generation])
    BY <1>5 DEF Put
  <2>. QED BY <1>1, <1>5, <2>1, SendsKeeps
<1>. QED BY <1>1, <1>3, <1>4, <1>5 DEF Prepares

LEMMA RemoteStart == RemoteInit => RemoteInv
<1>1. SUFFICES ASSUME RemoteInit PROVE RemoteInv
  OBVIOUS
<1>2. /\ granted = FALSE /\ generation = 0
      /\ sockets = {} /\ down = [c \in Link |-> <<>>] /\ up = [c \in Link |-> <<>>]
      /\ controllers = [c \in Link |-> 0] /\ resolving = {}
      /\ under = [p \in Prompt |-> -1] /\ revoked = {}
      /\ pending = 0 /\ exclusive = 0 /\ repl = "prompt" /\ mixed = FALSE
      /\ link = 0 /\ opened = 0 /\ view = Unseen /\ prompted = 0 /\ line = <<>> /\ step = "wait"
      /\ origin = [p \in Prompt |-> [link |-> 0, generation |-> -1]] /\ answered = -1
      /\ spoiled = {} /\ published = {}
  BY <1>1 DEF RemoteInit
<1>3. MaxChanges \in Nat /\ MaxLinks \in Nat /\ Prompts \in Nat /\ -1 \in Known /\ 0 \in Generations
  BY RemoteBounds DEF Known, Generations
<1>4. SessionTypes
  <2>1. <<>> \in Seq(DownFrame) /\ <<>> \in Seq(UpFrame)
    OBVIOUS
  <2>2. down \in [Link -> Seq(DownFrame)] /\ up \in [Link -> Seq(UpFrame)]
    BY <1>2, <2>1
  <2>. QED BY <1>2, <1>3, <2>2 DEF SessionTypes
<1>5. DaemonTypes
  <2>1. line \in Seq(1 .. prompted)
    BY <1>2
  <2>2. origin \in [Prompt -> [link : 0 .. opened, generation : Known]]
    BY <1>2, <1>3
  <2>. QED BY <1>2, <1>3, <2>1, <2>2 DEF DaemonTypes, Unseen
<1>6. DOMAIN line = {} /\ ToSet(line) = {} /\ \A c \in Link : DOMAIN down[c] = {} /\ ToSet(up[c]) = {}
  BY <1>2 DEF ToSet
<1>7. Asked = {} /\ Live = {}
  BY <1>2, <1>6 DEF Asked, Live
<1>8. LineInv /\ StageInv
  BY <1>2, <1>6 DEF LineInv, StageInv
<1>9. PlaceInv
  BY <1>6, <1>7 DEF PlaceInv, OneRequest
<1>10. GrantInv
  <2>1. view.generation = -1 /\ -1 <= 0
    BY <1>2 DEF Unseen
  <2>2. 1 .. prompted = {}
    BY <1>2
  <2>. QED BY <1>2, <1>6, <1>7, <2>1, <2>2 DEF GrantInv, RequestsFit
<1>11. SpoiledInv
  BY <1>2, <1>6 DEF SpoiledInv
<1>12. HeldInv
  BY <1>2, <1>6, <1>7 DEF HeldInv, Awaited, RequestsHeld, Unseen
<1>. QED BY <1>4, <1>5, <1>8, <1>9, <1>10, <1>11, <1>12 DEF RemoteInv

LEMMA RemoteStep == RemoteInv /\ [RemoteNext]_remoteVars => RemoteInv'
<1>1. SUFFICES ASSUME RemoteInv, [RemoteNext]_remoteVars PROVE RemoteInv'
  OBVIOUS
<1>2. CASE UNCHANGED remoteVars
  <2>1. UNCHANGED <<granted, generation, sockets, down, up, controllers, resolving, under, revoked, pending,
                    exclusive, repl, mixed, link, opened, view, prompted, line, step, origin, answered,
                    spoiled, published>>
    BY <1>2 DEF remoteVars, grantVars, wires, endpointVars, replVars, daemonSide
  <2>2. /\ Frozen /\ Sent' = Sent /\ Awaited' = Awaited /\ link' \in {link, 0}
        /\ UNCHANGED <<sockets, down, opened, prompted, origin, line, published>>
    BY <2>1 DEF Frozen, grantVars, endpointVars, replVars, Sent, Awaited
  <2>3. /\ view' \in [on : BOOLEAN, generation : Known] /\ view'.generation <= generation /\ answered' \in Known
        /\ step' \in {"wait", "stage", "sent", "acked", "answer"} /\ (line = <<>> => step' = "wait")
        /\ up' \in [Link -> Seq(UpFrame)] /\ \A c \in Link : \A m \in ToSet(up'[c]) : m \in ToSet(up[c])
        /\ (link' = 0 => ~view'.on)
    <3>1. /\ view \in [on : BOOLEAN, generation : Known] /\ view.generation <= generation /\ answered \in Known
          /\ step \in {"wait", "stage", "sent", "acked", "answer"} /\ (line = <<>> => step = "wait")
          /\ up \in [Link -> Seq(UpFrame)] /\ (link = 0 => ~view.on)
      BY <1>1, Basics, DaemonBasics DEF DaemonTypes, LineInv
    <3>. QED BY <2>1, <3>1
  <2>. QED BY <1>1, <2>1, <2>2, <2>3, StandsStill
<1>3. CASE SessionSteps
  BY <1>1, <1>3, ChangesKeeps, TakesPromptKeeps, TakesCancelKeeps, SessionClosesKeeps, ResolvesKeeps
  DEF SessionSteps
<1>4. CASE PromptLoopSteps
  BY <1>1, <1>4, StartsTurnKeeps, LocalTurnKeeps, EndsTurnKeeps, LosesRaceKeeps, MixesKeeps DEF PromptLoopSteps
<1>5. CASE DaemonSteps
  BY <1>1, <1>5, OpensLinkKeeps, PostsPromptKeeps, PreparesKeeps, HearsSessionKeeps, GivesUpKeeps,
     PublishesKeeps, DaemonClosesKeeps DEF DaemonSteps
<1>. QED BY <1>1, <1>2, <1>3, <1>4, <1>5 DEF RemoteNext

\* What Discord is shown as an answer comes from a turn that ran from its request to its end
\* under one grant and with no other input, for every number of prompts, of changes of the
\* grant and of sockets (remoteRequest, setDiscordControlEnabled and the prompt loop).
THEOREM AnswersStay == RemoteSpec => []AnswersUnderGrant
<1>1. RemoteInv => AnswersUnderGrant
  BY DEF RemoteInv, SpoiledInv, AnswersUnderGrant
<1>. QED BY RemoteStart, RemoteStep, <1>1, PTL DEF RemoteSpec

\* A prompt the chat has been told has failed is stopped, or its cancel or the close of its
\* socket is under way (remoteRequest's timeouts, disconnectSession, remote_cancel).
THEOREM GivenUpStops == RemoteSpec => []GivenUpIsStopped
<1>1. RemoteInv => GivenUpIsStopped
  BY DEF RemoteInv, HeldInv, GivenUpIsStopped, Live, Held, Stopping, Awaited, CancelFrame
<1>. QED BY RemoteStart, RemoteStep, <1>1, PTL DEF RemoteSpec
===============================================================================

------------------------------ MODULE TelegramDaemon ------------------------------
(***************************************************************************)
(* How the Telegram daemon takes the updates of its chat (class            *)
(* TelegramDaemon in src/src/agent/notify/telegram-daemon.ts): a poll loop *)
(* that handles one update at a time, asks a session over its socket, waits*)
(* for the acknowledgement, answers through the shared pool and then       *)
(* writes the offset of the next update to disk.                           *)
(*                                                                         *)
(* The daemon may die, be stopped and be started again; the socket may     *)
(* close, an acknowledgement may come late, a send may fail or its answer  *)
(* may be lost.  One session; texts and back-off are left out.             *)
(***************************************************************************)
EXTENDS Naturals, Sequences

CONSTANTS KindOf,       \* of each update, one of the kinds below
          Capacity,     \* tokens of the pool
          MaxRetries,   \* MAX_OUTBOUND_RETRIES
          MaxRequests,  \* bound: requests to the session
          MaxLives      \* bound: starts of the daemon

VARIABLES
  posted,     \* updates that Telegram holds, in the order of their ids
  stored,     \* the offset on disk: the next update, 0 if there is none
  offset,     \* updateOffset
  cursorless, \* wasCursorLoadedWithoutOffset
  born,       \* what was posted when this daemon started
  loop,       \* the poll loop: "off", "poll", "next", "ack", "reply" or "save"
  batch,      \* what is left of the last getUpdates
  verdict,    \* the acknowledgement of the update at hand
  request,    \* the pending acknowledgement, 0 if there is none
  requests, toSession, toDaemon,  \* requests made so far, and both ways of the socket
  session,    \* the socket is open
  reply,      \* the awaited answer: "none", "queued", "sending", "yes" or "no"
  tries, tokens, stopped, lives,
  direct,     \* pairedChatPrivate: getChat says so, and it is asked once in a life
  acked,      \* ghost: updates whose request was acknowledged
  ackedNow,   \* ghost: those of this life of the daemon
  told,       \* ghost: updates the chat has an answer to
  unheard,    \* ghost: updates for which there was nobody, or which came too early
  unsaid      \* ghost: updates ended without a word, though a session was there

pollVars == <<posted, stored, offset, cursorless, born, batch>>
askVars == <<request, requests, toSession, toDaemon, session>>
sendVars == <<reply, tries, tokens>>
lifeVars == <<stopped, lives, direct>>
ghosts == <<acked, ackedNow, told, unheard, unsaid>>
telegramVars == <<pollVars, loop, verdict, askVars, sendVars, lifeVars, ghosts>>

\* In the flat topic a "command" to a session and an "ask" of the daemon; in the topic
\* of the session a "topic" message with text, a "photo" without, and an "aside", which
\* is a config command (sent without a request), another slash command or a message that
\* is for nobody; a "tap" on a button of either.
Updates == DOMAIN KindOf
Update == Head(batch)
LaterOf(a, b) == IF a > b THEN a ELSE b

TelegramInit ==
  /\ posted = 0 /\ stored = 0 /\ offset = 0 /\ cursorless = FALSE /\ born = 0 /\ batch = <<>>
  /\ loop = "off" /\ verdict = FALSE
  /\ request = 0 /\ requests = 0 /\ toSession = <<>> /\ toDaemon = <<>> /\ session = TRUE
  /\ reply = "none" /\ tries = 0 /\ tokens = Capacity /\ stopped = FALSE /\ lives = 0
  /\ acked = {} /\ ackedNow = {} /\ told = {} /\ unheard = {} /\ unsaid = {}
  /\ direct = FALSE

---------------------------------------------------------------------------
(* The ends of a handler                                                   *)

\* notify() with awaitDelivery: into the pool, and sent at once if there is a token.
Answers ==
  /\ loop' = "reply" /\ tries' = 0
  /\ IF tokens > 0 THEN reply' = "sending" /\ tokens' = tokens - 1
                   ELSE reply' = "queued" /\ UNCHANGED tokens

Saving == loop' = "save" /\ UNCHANGED <<batch, sendVars>>
\* A dispatch that failed: the rest of the batch is fetched again.
Retries == loop' = "poll" /\ batch' = <<>> /\ UNCHANGED sendVars

\* The request is over: a topic message is handled by it, a command is answered.
Resolved(ok) ==
  /\ request' = 0 /\ verdict' = ok
  /\ acked' = IF ok THEN acked \cup {Update} ELSE acked
  /\ ackedNow' = IF ok THEN ackedNow \cup {Update} ELSE ackedNow
  /\ IF KindOf[Update] \notin {"topic", "photo"} THEN Answers /\ UNCHANGED batch
     ELSE IF ok THEN Saving ELSE Retries
  /\ UNCHANGED <<posted, stored, offset, cursorless, born, told, unheard, unsaid>>

---------------------------------------------------------------------------
(* The poll loop                                                           *)

Polls ==
  /\ loop = "poll" /\ ~stopped /\ posted >= LaterOf(offset, 1)
  /\ batch' = [i \in 1 .. posted - LaterOf(offset, 1) + 1 |-> LaterOf(offset, 1) + i - 1]
  /\ loop' = "next" /\ UNCHANGED <<posted, stored, offset, cursorless, born>>
  /\ UNCHANGED <<verdict, askVars, sendVars, lifeVars, ghosts>>

\* The batch is done, or the daemon was stopped; a stopped loop ends.
LeavesBatch ==
  /\ \/ loop = "next" /\ (stopped \/ batch = <<>>) /\ loop' = "poll"
     \/ loop = "poll" /\ stopped /\ loop' = "off"
  /\ batch' = <<>> /\ UNCHANGED <<posted, stored, offset, cursorless, born>>
  /\ UNCHANGED <<verdict, askVars, sendVars, lifeVars, ghosts>>

Stale == cursorless /\ KindOf[Update] # "tap" /\ Update <= born

\* Nobody to ask: a command is answered, what is in a topic is done with, and a tap.
Unheard ==
  /\ loop = "next" /\ ~stopped /\ batch # <<>>
  /\ Stale \/ (~session /\ KindOf[Update] \in {"tap", "topic", "photo", "aside"})
  /\ Saving /\ unheard' = unheard \cup {Update}
  /\ UNCHANGED <<posted, stored, offset, cursorless, born, verdict, askVars, lifeVars>>
  /\ UNCHANGED <<acked, ackedNow, told, unsaid>>

\* A session is there, but an aside asks it nothing and a photo could not be downloaded;
\* in a chat not known to be private the topic of a session is no way to it.
Ignores ==
  /\ loop = "next" /\ ~stopped /\ batch # <<>> /\ ~Stale /\ session
  /\ \/ KindOf[Update] \in {"aside", "photo"}
     \/ ~direct /\ KindOf[Update] \in {"topic", "tap"}
  /\ Saving /\ unsaid' = unsaid \cup {Update}
  /\ UNCHANGED <<posted, stored, offset, cursorless, born, verdict, askVars, lifeVars>>
  /\ UNCHANGED <<acked, ackedNow, told, unheard>>

AnswersOnly ==
  /\ loop = "next" /\ ~stopped /\ batch # <<>> /\ ~Stale
  /\ KindOf[Update] = "ask" \/ (~session /\ KindOf[Update] = "command")
  /\ Answers /\ verdict' = FALSE /\ UNCHANGED <<pollVars, askVars, lifeVars, ghosts>>

\* sendRequest
Requests ==
  /\ loop = "next" /\ ~stopped /\ batch # <<>> /\ ~Stale
  /\ session /\ KindOf[Update] \notin {"ask", "aside"} /\ requests < MaxRequests
  /\ KindOf[Update] \in {"topic", "photo"} => direct
  /\ loop' = "ack" /\ requests' = requests + 1 /\ request' = requests'
  /\ toSession' = Append(toSession, [request |-> request', update |-> Update])
  /\ UNCHANGED <<pollVars, verdict, toDaemon, session, sendVars, lifeVars, ghosts>>

Hears ==
  /\ toDaemon # <<>> /\ toDaemon' = Tail(toDaemon)
  /\ IF loop = "ack" /\ Head(toDaemon).request = request THEN Resolved(Head(toDaemon).ok)
     ELSE UNCHANGED <<pollVars, loop, verdict, request, sendVars, ghosts>>
  /\ UNCHANGED <<requests, toSession, session, lifeVars>>

TimesOut ==
  /\ loop = "ack" /\ Resolved(FALSE) /\ UNCHANGED <<requests, toSession, toDaemon, session, lifeVars>>

\* Defect: only an answer that was delivered ends a command.
ConcludesDelivered ==
  /\ loop = "reply" /\ reply \in {"yes", "no"}
  /\ IF reply = "yes" THEN loop' = "save" /\ UNCHANGED batch ELSE loop' = "poll" /\ batch' = <<>>
  /\ reply' = "none" /\ UNCHANGED <<posted, stored, offset, cursorless, born, tries, tokens>>
  /\ UNCHANGED <<verdict, askVars, lifeVars, ghosts>>

\* Defect: an answer that could not be delivered ends the update too.
ConcludesAlways ==
  /\ loop = "reply" /\ reply \in {"yes", "no"} /\ loop' = "save"
  /\ reply' = "none" /\ UNCHANGED <<pollVars, tries, tokens>>
  /\ UNCHANGED <<verdict, askVars, lifeVars, ghosts>>

\* An action that took effect, or an answer that arrived, ends the update.
Concludes ==
  /\ loop = "reply" /\ reply \in {"yes", "no"}
  /\ IF verdict \/ reply = "yes" THEN loop' = "save" /\ UNCHANGED batch
                                 ELSE loop' = "poll" /\ batch' = <<>>
  /\ reply' = "none" /\ UNCHANGED <<posted, stored, offset, cursorless, born, tries, tokens>>
  /\ UNCHANGED <<verdict, askVars, lifeVars, ghosts>>

Saves ==
  /\ loop = "save" /\ stored' = Update + 1 /\ offset' = stored' /\ batch' = Tail(batch)
  /\ loop' = "next" /\ UNCHANGED <<posted, cursorless, born>>
  /\ UNCHANGED <<verdict, askVars, sendVars, lifeVars, ghosts>>

LoopSteps ==
  \/ Polls \/ LeavesBatch \/ Unheard \/ Ignores \/ AnswersOnly \/ Requests \/ Hears \/ TimesOut
  \/ Concludes \/ Saves

---------------------------------------------------------------------------
(* The pool                                                                *)

\* flushPool by its timer, which ends with stop().
Flushes ==
  /\ reply = "queued" /\ tokens > 0 /\ ~stopped /\ reply' = "sending" /\ tokens' = tokens - 1
  /\ UNCHANGED tries

\* Pushes of the sessions take tokens too; time gives them back.
Spends == loop # "off" /\ tokens > 0 /\ tokens' = tokens - 1 /\ UNCHANGED <<reply, tries>>
Refills == tokens < Capacity /\ tokens' = tokens + 1 /\ UNCHANGED <<reply, tries>>

\* A send that failed, or whose answer was lost, is queued again a few times.
SendFails ==
  /\ IF ~stopped /\ tries < MaxRetries THEN reply' = "queued" /\ tries' = tries + 1
                                      ELSE reply' = "no" /\ UNCHANGED tries
  /\ UNCHANGED tokens

Sends(shown, answered) ==
  /\ reply = "sending" /\ (answered => shown)
  /\ told' = IF shown THEN told \cup {Update} ELSE told
  /\ IF answered THEN reply' = "yes" /\ UNCHANGED <<tries, tokens>> ELSE SendFails
  /\ UNCHANGED <<acked, ackedNow, unheard, unsaid>>

PoolSteps ==
  /\ \/ (Flushes \/ Spends \/ Refills) /\ UNCHANGED ghosts
     \/ \E shown, answered \in BOOLEAN : Sends(shown, answered)
  /\ UNCHANGED <<pollVars, loop, verdict, askVars, lifeVars>>

---------------------------------------------------------------------------
(* Around the daemon                                                       *)

Posts ==
  /\ posted < Len(KindOf) /\ posted' = posted + 1
  /\ UNCHANGED <<stored, offset, cursorless, born, batch, loop, verdict, askVars, sendVars, lifeVars, ghosts>>

\* The session takes a request or refuses it (SessionNotifyEndpoint.handleMessage).
Performs(ok) ==
  /\ toSession # <<>> /\ toSession' = Tail(toSession)
  /\ toDaemon' = IF session THEN Append(toDaemon, [request |-> Head(toSession).request, ok |-> ok])
                            ELSE toDaemon
  /\ UNCHANGED <<pollVars, loop, verdict, request, requests, session, sendVars, lifeVars, ghosts>>

\* The socket closes, with what the daemon has not read; a scan opens it again.
Disconnects ==
  /\ session' = ~session /\ toDaemon' = <<>>
  /\ UNCHANGED <<pollVars, loop, verdict, request, requests, toSession, sendVars, lifeVars, ghosts>>

\* start(): the offset from disk, and nothing else.
TelegramBoots ==
  /\ loop = "off" /\ lives < MaxLives /\ lives' = lives + 1
  /\ offset' = stored /\ cursorless' = (stored = 0) /\ born' = posted /\ batch' = <<>>
  /\ loop' = "poll" /\ verdict' = FALSE /\ request' = 0 /\ stopped' = FALSE
  /\ reply' = "none" /\ tries' = 0 /\ tokens' = Capacity /\ ackedNow' = {}
  /\ direct' \in BOOLEAN
  /\ UNCHANGED <<posted, stored, requests, toSession, toDaemon, session, acked, told, unheard, unsaid>>

\* stop(): what is awaited is refused; the loop finds out behind its handler.
Stops ==
  /\ loop # "off" /\ ~stopped /\ stopped' = TRUE
  /\ IF loop = "ack" THEN Resolved(FALSE)
     ELSE /\ reply' = IF reply \in {"queued", "sending"} THEN "no" ELSE reply
          /\ UNCHANGED <<pollVars, loop, verdict, request, tries, tokens, ghosts>>
  /\ toDaemon' = <<>> /\ UNCHANGED <<requests, toSession, session, lives, direct>>

\* The daemon dies, or a save fails and takes it down; the socket goes with it.
TelegramDies ==
  /\ loop # "off" /\ loop' = "off" /\ batch' = <<>> /\ request' = 0 /\ toDaemon' = <<>>
  /\ reply' = "none"
  /\ UNCHANGED <<posted, stored, offset, cursorless, born, verdict, requests, toSession, session>>
  /\ UNCHANGED <<tries, tokens, lifeVars, ghosts>>

TelegramNext ==
  \/ LoopSteps \/ PoolSteps \/ Posts \/ Disconnects \/ TelegramBoots \/ Stops \/ TelegramDies
  \/ \E ok \in BOOLEAN : Performs(ok)

TelegramSpec == TelegramInit /\ [][TelegramNext]_telegramVars

---------------------------------------------------------------------------
(* Properties                                                              *)

\* An update that took effect, that the chat has an answer to, or that found nobody; an
\* aside, which nobody acknowledges; or one of those in a topic that got no word: a photo
\* that was not downloaded, or a message or a tap in a chat not known to be private.
Settled(u) ==
  \/ u \in acked \cup told \cup unheard \/ KindOf[u] = "aside"
  \/ u \in unsaid /\ KindOf[u] \in {"topic", "photo", "tap"}

\* The offset on disk never passes a command, a tap or a message that neither took effect
\* nor was answered: only what is named above is passed without a word
\* (pollTelegramLoop: a checkpoint follows dispatch).
CursorBehindWork == \A u \in 1 .. stored - 1 : Settled(u)

\* A daemon does not ask again for what a session has acknowledged to it, whatever
\* becomes of the answers ("without ... replaying its side effects").
NotReplayed ==
  [][\A u \in ackedNow' : Len(toSession') > Len(toSession) =>
       toSession'[Len(toSession')].update # u]_telegramVars
=============================================================================

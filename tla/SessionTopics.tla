------------------------------- MODULE SessionTopics -------------------------------
(***************************************************************************)
(* The forum topic of each session (class TopicRegistry in                 *)
(* src/src/agent/notify/topic-registry.ts, and what TelegramDaemon in      *)
(* telegram-daemon.ts does with it): frames of a session are handled       *)
(* concurrently; the first one creates the session's topic, the others     *)
(* share that call; an identity renames the topic; every use writes the    *)
(* registry to disk, in saves that wait for nobody.                        *)
(*                                                                         *)
(* Telegram may refuse a call, or do it and lose the answer; a save may    *)
(* fail; a session's socket may close and open again; the daemon may die   *)
(* and load what is on disk.  The paired chat is private.                  *)
(***************************************************************************)
EXTENDS Naturals, Sequences

CONSTANTS Member,     \* sessions
          Title,      \* names made from an identity
          Short,      \* the name made from a session's id
          Handler,    \* bound: frames handled at the same time
          MaxTopics, MaxSockets, MaxSlips, MaxBoots  \* bounds: topics, connections, faults, starts

ASSUME HandlerAssumption == 0 \notin Handler

VARIABLES
  forum,      \* the topics in Telegram: the session of each, and its name
  topics,     \* the registry: topic (0 for none) and name of each session
  inflight,   \* the frame whose call creates a session's topic, 0 if none does
  conns,      \* connections: session, identity (Short until known), topicFailed, open
  frames,     \* what each handler is at
  private,    \* pairedChatPrivate: "unknown", "yes" or "no"
  topicsFile, \* the registry on disk
  saves,      \* registries on their way to the disk
  flat,       \* a flat topic is configured
  slips, boots,
  forgotten,  \* ghost: topics nobody will find again
  blurred     \* ghost: sessions whose topic was renamed unseen, or to two names at once

forumSide == <<forum, topics, inflight, frames>>
diskVars == <<topicsFile, saves>>
countVars == <<slips, boots>>
topicVars ==
  <<forumSide, conns, private, diskVars, flat, countVars, forgotten, blurred>>

NoTopics == [s \in Member |-> [topic |-> 0, name |-> Short]]
\* conn: its connection; title: the name its identity wants (Short without one);
\* given: the name of the topic it creates; topic: the topic it creates or
\* renames (0 for the flat one); of: the frame whose call it shares.
Idle == [at |-> "idle", conn |-> 0, title |-> Short, given |-> Short, topic |-> 0, of |-> 0]

TopicsInit ==
  /\ forum = <<>> /\ topics = NoTopics /\ inflight = [s \in Member |-> 0]
  /\ conns = <<>> /\ frames = [f \in Handler |-> Idle] /\ private = "unknown"
  /\ topicsFile = NoTopics /\ saves = {} /\ flat \in BOOLEAN
  /\ slips = 0 /\ boots = 1 /\ forgotten = {} /\ blurred = {}

Slip == slips < MaxSlips /\ slips' = slips + 1
SessionOf(h) == conns[h.conn].session
IsRenaming(h, s) == h.at \in {"renaming", "renamed"} /\ SessionOf(h) = s

---------------------------------------------------------------------------
(* The stretches of a handler                                              *)

\* wouldRename() and what follows: the handler with this topic asks for the name
\* it wants, or is done.
Named(h, registry, topic) ==
  LET record == registry[SessionOf(h)] IN
  IF h.title # Short /\ record.topic # 0 /\ record.name # h.title
  THEN [h EXCEPT !.at = "renaming", !.topic = topic, !.given = Short, !.of = 0] ELSE Idle

\* The sessions for which two names are under way.
Crowded(after) ==
  {s \in Member : \E f, g \in Handler :
     IsRenaming(after[f], s) /\ IsRenaming(after[g], s) /\ after[f].title # after[g].title}

Continue(after) == frames' = after /\ blurred' = blurred \cup Crowded(after)

\* resolveTopicId() without a topic: the flat one, if there is one.
FallsBack(h) == IF flat THEN Named(h, topics, 0) ELSE Idle

KnowsTopic(f, h) ==
  LET record == topics[SessionOf(h)] IN
  /\ record.topic # 0
  /\ Continue([frames EXCEPT ![f] = Named(h, topics, record.topic)])
  /\ saves' = saves \cup {topics}
  /\ UNCHANGED inflight

SharesCall(f, h) ==
  /\ topics[SessionOf(h)].topic = 0 /\ inflight[SessionOf(h)] # 0
  /\ Continue([frames EXCEPT ![f] = [h EXCEPT !.at = "sharing", !.of = inflight[SessionOf(h)]]])
  /\ UNCHANGED <<saves, inflight>>

\* The name for a new topic.
Provisional(h) == IF h.title # Short THEN h.title ELSE conns[h.conn].identity

\* Defect: the call under way is not looked for.
StartsItsOwnCall(f, h) ==
  /\ topics[SessionOf(h)].topic = 0
  /\ Continue([frames EXCEPT ![f] = [h EXCEPT !.at = "creating", !.given = Provisional(h)]])
  /\ inflight' = [inflight EXCEPT ![SessionOf(h)] = f]
  /\ UNCHANGED saves

StartsCall(f, h) ==
  /\ topics[SessionOf(h)].topic = 0 /\ inflight[SessionOf(h)] = 0
  /\ Continue([frames EXCEPT ![f] = [h EXCEPT !.at = "creating", !.given = Provisional(h)]])
  /\ inflight' = [inflight EXCEPT ![SessionOf(h)] = f]
  /\ UNCHANGED saves

\* getOrCreateTopic().
GetsOrCreates(f, h) == KnowsTopic(f, h) \/ SharesCall(f, h) \/ StartsCall(f, h)

\* A frame arrives: an identity, which a connection hears once, or anything else.
FrameArrives(f, c, title) ==
  /\ frames[f].at = "idle" /\ conns[c].open
  /\ title # Short => conns[c].identity = Short
  /\ conns' = IF title = Short THEN conns ELSE [conns EXCEPT ![c].identity = title]
  /\ LET h == [Idle EXCEPT !.conn = c, !.title = title] IN
     IF conns[c].failed \/ private = "no"
     THEN Continue([frames EXCEPT ![f] = FallsBack(h)]) /\ UNCHANGED <<saves, inflight>>
     ELSE IF private = "unknown"
     THEN Continue([frames EXCEPT ![f] = [h EXCEPT !.at = "asking"]]) /\ UNCHANGED <<saves, inflight>>
     ELSE GetsOrCreates(f, h)
  /\ UNCHANGED <<forum, topics, private, topicsFile, flat, countVars, forgotten>>

---------------------------------------------------------------------------
(* getChat, createForumTopic and editForumTopic                            *)

\* getChat answers, or fails and is not asked again.
ChatKnown(f) ==
  /\ frames[f].at = "asking" /\ private' = "yes"
  /\ GetsOrCreates(f, frames[f])
  /\ UNCHANGED <<forum, topics, conns, topicsFile, flat, countVars, forgotten>>
ChatUnknown(f) ==
  /\ frames[f].at = "asking" /\ private' = "no" /\ Slip
  /\ Continue([frames EXCEPT ![f] = FallsBack(frames[f])])
  /\ UNCHANGED <<forum, topics, inflight, conns, diskVars, flat, boots, forgotten>>

TopicMade(f) ==
  LET h == frames[f] IN
  /\ h.at = "creating" /\ h.topic = 0 /\ Len(forum) < MaxTopics
  /\ forum' = Append(forum, [session |-> SessionOf(h), name |-> h.given])
  /\ frames' = [frames EXCEPT ![f].topic = Len(forum')]
  /\ UNCHANGED <<topics, inflight, conns, private, diskVars, flat, countVars, forgotten, blurred>>

\* The handlers that wait for the call of frame f.
WaitingFor(f) == {g \in Handler : g = f \/ (frames[g].at = "sharing" /\ frames[g].of = f)}
CallOver(f) ==
  inflight' = [s \in Member |-> IF inflight[s] = f THEN 0 ELSE inflight[s]]

\* The answer arrives: all who wait for it go on, and each saves the registry.
TopicKnown(f) ==
  LET h == frames[f]
      known == [topics EXCEPT ![SessionOf(h)] = [topic |-> h.topic, name |-> h.given]] IN
  /\ h.at = "creating" /\ h.topic # 0
  /\ topics' = known /\ saves' = saves \cup {known}
  /\ Continue([g \in Handler |-> IF g \in WaitingFor(f) THEN Named(frames[g], known, h.topic) ELSE frames[g]])
  /\ CallOver(f)
  /\ UNCHANGED <<forum, conns, private, topicsFile, flat, countVars, forgotten>>

\* It is refused, or its answer is lost: the connections that waited use the
\* flat topic from now on.
TopicFails(f) ==
  LET h == frames[f] IN
  /\ h.at = "creating" /\ Slip
  /\ conns' = [c \in DOMAIN conns |->
       IF \E g \in WaitingFor(f) : frames[g].conn = c THEN [conns[c] EXCEPT !.failed = TRUE] ELSE conns[c]]
  /\ Continue([g \in Handler |-> IF g \in WaitingFor(f) THEN FallsBack(frames[g]) ELSE frames[g]])
  /\ CallOver(f) /\ forgotten' = forgotten \cup ({h.topic} \ {0})
  /\ UNCHANGED <<forum, topics, private, diskVars, flat, boots>>

NameGiven(f) ==
  LET h == frames[f] IN
  /\ h.at = "renaming"
  /\ forum' = IF h.topic = 0 THEN forum ELSE [forum EXCEPT ![h.topic].name = h.title]
  /\ frames' = [frames EXCEPT ![f].at = "renamed"]
  /\ UNCHANGED <<topics, inflight, conns, private, diskVars, flat, countVars, forgotten, blurred>>

\* applyName(), and a save.
Applies(f) ==
  LET h == frames[f] IN
  /\ topics' = [topics EXCEPT ![SessionOf(h)].name = IF @ # h.title /\ topics[SessionOf(h)].topic # 0
                                                     THEN h.title ELSE @]
  /\ saves' = saves \cup {topics'} /\ frames' = [frames EXCEPT ![f] = Idle]
  /\ UNCHANGED <<inflight, conns, private, topicsFile, flat, boots, forgotten, blurred>>

NameKnown(f) == frames[f].at = "renamed" /\ Applies(f) /\ UNCHANGED <<forum, slips>>
\* A refusal is an answer whose ok is false, and nobody reads it.
NameRefused(f) == frames[f].at = "renaming" /\ Slip /\ Applies(f) /\ UNCHANGED forum
\* The request cannot be made, or its answer is lost.
NameFails(f) ==
  /\ frames[f].at \in {"renaming", "renamed"} /\ Slip
  /\ frames' = [frames EXCEPT ![f] = Idle]
  /\ blurred' = IF frames[f].at = "renamed" THEN blurred \cup {SessionOf(frames[f])} ELSE blurred
  /\ UNCHANGED <<forum, topics, inflight, conns, private, diskVars, flat, boots, forgotten>>

---------------------------------------------------------------------------
(* The disk, the sockets and the daemon                                    *)

\* Saves are atomic, and land in any order.
SaveLands(registry) ==
  /\ topicsFile' = registry /\ saves' = saves \ {registry}
  /\ UNCHANGED <<forumSide, conns, private, flat, countVars, forgotten, blurred>>
SaveIsLost(registry) ==
  /\ Slip /\ saves' = saves \ {registry}
  /\ UNCHANGED <<forumSide, conns, private, topicsFile, flat, boots, forgotten, blurred>>

SocketOpens(s) ==
  /\ Len(conns) < MaxSockets /\ \A c \in DOMAIN conns : ~(conns[c].session = s /\ conns[c].open)
  /\ conns' = Append(conns, [session |-> s, identity |-> Short, failed |-> FALSE, open |-> TRUE])
  /\ UNCHANGED <<forumSide, private, diskVars, flat, countVars, forgotten, blurred>>
SocketCloses(c) ==
  /\ conns[c].open /\ conns' = [conns EXCEPT ![c].open = FALSE]
  /\ UNCHANGED <<forumSide, private, diskVars, flat, countVars, forgotten, blurred>>

\* The daemon dies and is started again; what is on disk is all it knows.
DaemonAgain ==
  /\ boots < MaxBoots /\ boots' = boots + 1
  /\ topics' = topicsFile /\ inflight' = [s \in Member |-> 0] /\ saves' = {}
  /\ conns' = [c \in DOMAIN conns |-> [conns[c] EXCEPT !.open = FALSE]]
  /\ frames' = [f \in Handler |-> Idle] /\ private' = "unknown"
  /\ forgotten' = DOMAIN forum \ {topicsFile[s].topic : s \in Member}
  /\ blurred' = blurred \cup {s \in Member : topicsFile[s].topic # 0 /\ topicsFile[s].name # forum[topicsFile[s].topic].name}
  /\ UNCHANGED <<forum, topicsFile, flat, slips>>

TopicsNext ==
  \/ \E f \in Handler, c \in DOMAIN conns, title \in Title \cup {Short} : FrameArrives(f, c, title)
  \/ \E f \in Handler :
       ChatKnown(f) \/ ChatUnknown(f) \/ TopicMade(f) \/ TopicKnown(f) \/ TopicFails(f)
         \/ NameGiven(f) \/ NameKnown(f) \/ NameRefused(f) \/ NameFails(f)
  \/ \E registry \in saves : SaveLands(registry) \/ SaveIsLost(registry)
  \/ \E s \in Member : SocketOpens(s)
  \/ \E c \in DOMAIN conns : SocketCloses(c)
  \/ DaemonAgain
TopicsSpec == TopicsInit /\ [][TopicsNext]_topicVars

---------------------------------------------------------------------------
(* Properties                                                              *)

\* However many frames first use a session at the same time, and however its
\* socket and the daemon come and go, a session has a second topic only if its
\* first was lost: the answer with its number did not arrive, or the daemon died
\* before the registry with it was on disk (getOrCreateTopic).
OneTopicPerSession ==
  \A t, u \in DOMAIN forum \ forgotten : forum[t].session = forum[u].session => t = u

\* "The LOCAL registry is committed (applyName) only AFTER editForumTopic confirms
\* success" (telegram-daemon.ts:616): while no rename is under way the registry
\* has the name the topic has, where no answer was lost, no older registry was
\* loaded and no two names were under way at once.
RecordedNameApplied ==
  \A s \in Member \ blurred :
    topics[s].topic # 0 /\ ~(\E f \in Handler : IsRenaming(frames[f], s)) =>
      forum[topics[s].topic].name = topics[s].name
=============================================================================

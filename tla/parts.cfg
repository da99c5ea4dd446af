SPECIFICATION Spec
CHECK_DEADLOCK FALSE
CONSTANTS
  Machines = {"daemon", "config", "cred", "session", "agents", "workflow", "gateway",
              "pool", "telegram", "remote", "topics", "edits"}
  d1 = d1
  d2 = d2
  d3 = d3
  s1 = s1
  nobody = nobody
  c1 = c1
  c2 = c2
  c3 = c3
  Client = {c1, c2}
  Overstay = {}
  MaxToken = 4
  agent1 = agent1
  agent2 = agent2
  Agents = {agent1, agent2}
  MaxInbox = 2
  r1 = r1
  r2 = r2
  u1 = u1
  u2 = u2
  u3 = u3
  noKey = noKey
  p1 = p1
  p2 = p2
  folded = folded
  Path = {p1, p2}
  Opening = {p1}
  Folded <- FoldedPath
  View <- SeenLines
  Origins <- ShiftedLines
  Forms <- FileForms
  BatchSize = 3
  KeepRecent = 1
  MaxMessages = 4
  MaxMarkers = 2
  MaxFaults = 2
  Daemon = {d1, d2, d3}
  Stopper = {s1}
  Nobody = nobody
  Crashable = {c1}
  Runner = {r1, r2}
  Tasks = 3
  Parallel = 2
  MaxPlans = 2
  Id = {1, 2, 3}
  Lane <- LaneOfMessage
  Key <- ConversationOf
  Concurrency = 2
  MaxQueued = 2
  MaxSeen = 2
  MaxCalls = 4
  Session = {u1, u2, u3}
  Lanes <- OneLane
  CoalesceKey = {"edit"}
  NoKey = noKey
  Burst = 1
  MaxPending = 4
  KindOf <- KindOfUpdate
  Capacity = 1
  MaxRetries = 1
  MaxRequests = 2
  MaxLives = 2
  Prompts = 2
  MaxChanges = 3
  MaxLinks = 2
  MaxWork = 3
  Member = {"session"}
  Title = {"repo", "repo@branch"}
  Short = "short"
  Handler = {1, 2}
  MaxTopics = 3
  MaxSockets = 2
  MaxSlips = 1
  MaxBoots = 2
SYMMETRY Symmetry
INVARIANTS
  OneOwnerUnlessReleased
  CredentialsSurvive
  NoSelfLogout
  TranscriptKept
  EvidenceSurvivesCancel
  ExecutesApproved
  NothingSkipped
  ExecutedOnce
  LaneOrder
  OneTurnPerConversation
  PlaceForPrepared
  NoneStranded
  NotStarved
  CursorBehindWork
  AnswersUnderGrant
  GivenUpIsStopped
  OneTopicPerSession
  BatchAsInOrder
PROPERTIES
  NoLostUpdate
  FreshKept
  RecordedOnce
  NotReplayed

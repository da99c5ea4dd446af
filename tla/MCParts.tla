-------------------------------- MODULE MCParts --------------------------------
(* The machines that share no state, side by side: every behaviour runs one of *)
(* the machines in Machines and leaves the others where they began, so the run *)
(* is the union of their state graphs.                                         *)
EXTENDS DaemonLock, ConfigStore, CredentialRefresh, SessionStore, SubagentRegistry, Workflow, Gateway,
  RateLimitPool, TelegramDaemon, SessionTopics, RemoteControl, FileEdits, TLC

CONSTANTS Machines, d1, d2, d3, s1, nobody, c1, c2, c3, agent1, agent2, r1, r2, u1, u2, u3, noKey, p1, p2, folded

VARIABLE focus

Form(tool, first, last, marks, size) ==
  [tool |-> tool, first |-> first, last |-> last, marks |-> marks, size |-> size]
\* Two lines and the empty one were seen; a line has been put before them since.
FileForms ==
  {Form("read", 1, 1, {}, 1), Form("write", 1, 1, {}, 1), Form("delete", 1, 1, {}, 1), Form("append", 1, 1, {}, 1),
   Form("insert", 1, 1, {"first"}, 1), Form("search", 2, 2, {}, 2), Form("replace", 2, 2, {}, 1),
   Form("replace", 2, 2, {"first"}, 2), Form("replace", 1, 2, {"first", "last"}, 1)}

FoldedPath == [p \in {p1, p2} |-> folded]
SeenLines == <<1, 2, 0>>
ShiftedLines == {<<9, 1, 2, 0>>}

\* Messages 1 and 2 share a lane and a conversation; the first update is a command.
LaneOfMessage == <<"a", "a", "b">>
ConversationOf == <<"k", "k", "l">>
KindOfUpdate == <<"command", "photo", "aside">>
OneLane == <<"live">>

files == <<daemonVars, lockVars, configVars, credVars, sessionVars>>
chats == <<gatewayVars, poolVars, telegramVars, remoteVars, topicVars, editVars>>
vars == <<focus, files, agentVars, workVars, chats>>

Init ==
  /\ focus \in Machines /\ (focus # "cred" => orphaned = {}) /\ (focus # "topics" => flat = FALSE)
  /\ (focus # "edits" => anycase = FALSE)
  /\ DaemonInit /\ StoreInit /\ CredInit /\ SessionInit /\ AgentsInit
  /\ WorkInit /\ GatewayInit /\ PoolInit /\ TelegramInit /\ RemoteInit /\ TopicsInit /\ EditsInit

Only(machine) == focus = machine /\ UNCHANGED focus

DaemonRuns ==
  /\ Only("daemon") /\ DaemonNext
  /\ UNCHANGED <<lockVars, configVars, credVars, sessionVars, agentVars, workVars, chats>>
ConfigRuns ==
  /\ Only("config") /\ StoreNext
  /\ UNCHANGED <<daemonVars, credVars, sessionVars, agentVars, workVars, chats>>
CredRuns ==
  /\ Only("cred") /\ CredNext
  /\ UNCHANGED <<daemonVars, configVars, sessionVars, agentVars, workVars, chats>>
SessionRuns ==
  /\ Only("session") /\ SessionNext
  /\ UNCHANGED <<daemonVars, lockVars, configVars, credVars, agentVars, workVars, chats>>
AgentsRun == Only("agents") /\ AgentsNext /\ UNCHANGED <<files, workVars, chats>>
WorkflowRuns == Only("workflow") /\ WorkNext /\ UNCHANGED <<files, agentVars, chats>>
GatewayRuns ==
  /\ Only("gateway") /\ GatewayNext
  /\ UNCHANGED <<files, agentVars, workVars, poolVars, telegramVars, remoteVars, topicVars, editVars>>
PoolRuns ==
  /\ Only("pool") /\ PoolNext
  /\ UNCHANGED <<files, agentVars, workVars, gatewayVars, telegramVars, remoteVars, topicVars, editVars>>
TelegramRuns ==
  /\ Only("telegram") /\ TelegramNext
  /\ UNCHANGED <<files, agentVars, workVars, gatewayVars, poolVars, remoteVars, topicVars, editVars>>
RemoteRuns ==
  /\ Only("remote") /\ RemoteNext
  /\ UNCHANGED <<files, agentVars, workVars, gatewayVars, poolVars, telegramVars, topicVars, editVars>>
TopicsRun ==
  /\ Only("topics") /\ TopicsNext
  /\ UNCHANGED <<files, agentVars, workVars, gatewayVars, poolVars, telegramVars, remoteVars, editVars>>
EditsRun ==
  /\ Only("edits") /\ EditsNext
  /\ UNCHANGED <<files, agentVars, workVars, gatewayVars, poolVars, telegramVars, remoteVars, topicVars>>

Next ==
  \/ DaemonRuns \/ ConfigRuns \/ CredRuns \/ SessionRuns \/ AgentsRun \/ WorkflowRuns
  \/ GatewayRuns \/ PoolRuns \/ TelegramRuns \/ RemoteRuns \/ TopicsRun \/ EditsRun
Spec == Init /\ [][Next]_vars

Symmetry == Permutations({r1, r2})
=============================================================================

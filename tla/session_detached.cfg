SPECIFICATION SessionSpec
CHECK_DEADLOCK FALSE
CONSTANTS
  job1 = job1
  agent1 = agent1
  Jobs = {}
  Agents = {agent1}
  MaxInbox = 1
  Sandboxed = FALSE
PROPERTIES
  CompletionCoversAgents

SPECIFICATION GatesSpec
CHECK_DEADLOCK FALSE
CONSTANTS
  read1 = read1
  read2 = read2
  write1 = write1
  shell1 = shell1
  verify1 = verify1
  todo1 = todo1
  start1 = start1
  task1 = task1
  NoTarget = NoTarget
  Calls <- AllCalls
  KindOf <- CallKind
  TargetOf <- CallTarget
  Batches <- GateBatches
  Faults = {}
  Replies = {"done", "answer"}
  Hooks = {"none", "clean", "red"}
  Nudges = {"none", "mutation", "other"}
  Fallback = FALSE
  StallBudget = FALSE
  MaxSteers = 0
  MayCancel = FALSE
  MaxRepeat = 4
  CycleWindow = 3
  MaxFailures = 2
  MaxDoneCorrections = 2
  MaxShellOnlyCorrections = 1
  MaxInvalidCalls = 3
  MaxParseBounces = 2
  MaxTransient = 5
  BaseSteps = 4
  ExtensionSteps = 1
  MaxExtensions = 0
  HardCap = 4
  WindowSize = 2
  job1 = job1
  agent1 = agent1
  Jobs = {job1}
  Agents = {agent1}
  MaxInbox = 1
  Sandboxed = FALSE
INVARIANTS
  NoUnverifiedCompletion
  RejectionWasAsked
  SpinBounded
PROPERTIES
  CompletionCoversWrites
  CompletionWaits

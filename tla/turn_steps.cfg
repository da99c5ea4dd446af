SPECIFICATION FairSpec
CHECK_DEADLOCK FALSE
CONSTANTS
  read1 = read1
  read2 = read2
  write1 = write1
  shell1 = shell1
  verify1 = verify1
  todo1 = todo1
  start1 = start1
  task1 = task1
  NoTarget = NoTarget
  Calls <- AllCalls
  KindOf <- CallKind
  TargetOf <- CallTarget
  Batches <- MixedBatches
  Faults = {"overflow", "refusal", "refusal_category", "drop", "other"}
  Replies = {"done", "answer", "garbled", "no_tool"}
  Hooks = {"none"}
  Nudges = {"none", "other"}
  Fallback = TRUE
  StallBudget = TRUE
  MaxSteers = 1
  MayCancel = TRUE
  MaxRepeat = 4
  CycleWindow = 6
  MaxFailures = 2
  MaxDoneCorrections = 1
  MaxShellOnlyCorrections = 1
  MaxInvalidCalls = 2
  MaxParseBounces = 1
  MaxTransient = 1
  BaseSteps = 1
  ExtensionSteps = 1
  MaxExtensions = 2
  HardCap = 2
  WindowSize = 2
INVARIANTS
  StepsBounded
PROPERTIES
  TurnEnds

CONSTANTS
  api = api
  web = web
  db = db
  NoEntry = NoEntry
  LegacyEntry = LegacyEntry
  MaxUid <- MCMaxUid
  OtherPods = {}
  Owners <- MCOwners
  Workloads <- MCWorkloads
  Priority <- MCPriority
  Options <- MCOptions
  InitialFiles <- MCInitialFiles
SPECIFICATION RunnerFairSpec
INVARIANTS
  BatchBarrier
  ConcurrencyLimit
  QuietAfterReturn
  SuccessMeansAllDone
  SequentialPriorityOrder
  CheckpointSound
PROPERTIES
  WorkersKeepPromise
  CheckpointNeverForgets
  RunnerReturns

CONSTANTS
  web = web
  db = db
  bare = bare
  NoPod = NoPod
  NoEntry = NoEntry
  LegacyEntry = LegacyEntry
  Workloads = {web, db}
  OtherPods = {bare}
  HasEmptyDir = {}
  MirrorPods = {}
  BaseInterval = 60
  MaxInterval = 60
  MaxUid <- MCMaxUid
  MaxSessions = 2
  MaxOperatorActs = 1
  OperatorMayRace = FALSE
  InitialPods = {}
  Owners <- MCOwners
  Priority <- MCPriority
  Options <- MCOptions
  InitialNodePods <- MCInitialNodePods
  InitialFiles <- MCInitialFiles
SPECIFICATION NodeDrainSpec
INVARIANTS
  RefusedMeansUntouched
  FailureUndoesOwnCordon
  SuccessMeansDrained
  OnlyTrustedEvicted
  FilteredLeftAlone
PROPERTIES
  OnlyOwnCordonUndone
  SessionsKeepPromise

CONSTANTS
  web = web
  db = db
  bare = bare
  NoPod = NoPod
  NoEntry = NoEntry
  LegacyEntry = LegacyEntry
  Workloads = {web, db}
  OtherPods = {bare}
  HasEmptyDir = {}
  MirrorPods = {}
  BaseInterval = 60
  MaxInterval = 60
  MaxUid <- MCMaxUid
  MaxSessions = 1
  MaxOperatorActs = 1
  OperatorMayRace = TRUE
  InitialPods = {}
  Owners <- MCOwners
  Priority <- MCPriority
  Options <- MCUncordonOnFailure
  InitialNodePods <- MCInitialNodePods
  InitialFiles <- MCNoFile
SPECIFICATION NodeDrainSpec
PROPERTIES
  OnlyOwnCordonUndone

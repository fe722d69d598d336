CONSTANTS
  web = web
  db = db
  bare = bare
  NoPod = NoPod
  NoEntry = NoEntry
  LegacyEntry = LegacyEntry
  Workloads = {web, db}
  OtherPods = {bare}
  HasEmptyDir = {}
  MirrorPods = {}
  BaseInterval = 60
  MaxInterval = 60
  MaxUid <- MCMaxUid
  MaxSessions = 1
  MaxOperatorActs = 0
  OperatorMayRace = FALSE
  InitialPods = {}
  Owners <- MCOwners
  Priority <- MCPriority
  Options <- MCSkipWeb
  InitialNodePods <- MCWebNotYetHere
  InitialFiles <- MCNoFile
SPECIFICATION NodeDrainSpec
INVARIANTS
  FilteredUntouched

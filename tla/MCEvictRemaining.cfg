CONSTANTS
  web = web
  db = db
  job = job
  bare = bare
  ds = ds
  static = static
  NoPod = NoPod
  Workloads = {web, db}
  OtherPods = {job, bare, ds, static}
  HasEmptyDir = {web}
  MirrorPods = {static}
  BaseInterval = 25
  MaxInterval = 60
  MaxUid <- MCMaxUid
  InitialPods <- MCInitialPods
  Owners <- MCOwners
  Options <- MCOptions
SPECIFICATION EvictFairSpec
INVARIANTS
  SuccessMeansEmptied
  OnlyAllowedEvicted
  BlockedStopsEviction
PROPERTIES
  EvictReturns

CONSTANTS
  c1 = c1
  c2 = c2
  c3 = c3
  c4 = c4
  web = web
  db = db
  NoCaller = NoCaller
  Callers <- MCCallers
  Keys <- MCKeys
  KeyOf <- MCKeyOf
SPECIFICATION CoordFairSpec
INVARIANTS
  MutualExclusion
  RestartedAtMostOnce
  RepatchOnlyAfterFailure
  OkMeansRestarted
PROPERTIES
  EveryCallReturns
  ImplementsRestartOnce

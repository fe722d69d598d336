CONSTANTS
  n1 = n1
  n2 = n2
  api = api
  db = db
  NoCaller = NoCaller
  NodeList <- MCNodeList
  Keys <- MCKeys
  Callers <- MCCallers
  KeyOf <- MCKeyOf
  NodeConcurrencies = {0, 1}
  MaxConcurrencies = {0, 1}
  MayRun <- MCMayRun
  UncordonChoices = {TRUE}
SPECIFICATION MultiFairSpec
INVARIANTS
  AllNodesEmptied
  NodeBatchBarrier
  NothingLeftRunning
  SharedWorkloadsLeft
  EachRestartedOnce
PROPERTIES
  MultiReturns
CHECK_DEADLOCK FALSE

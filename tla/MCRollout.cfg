CONSTANTS
  Kinds <- MCKinds
  MaxReplicas = 2
  MaxGen = 3
  OthersUpTo <- MCOthersUpTo
SPECIFICATION RolloutFairSpec
INVARIANTS
  SuccessMeansRolledOut
  FailFastOnlyForNewPods
PROPERTIES
  KeepsPromise
  WaitEnds
CHECK_DEADLOCK FALSE

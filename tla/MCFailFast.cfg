CONSTANTS
  Kinds <- MCKinds
  MaxReplicas = 2
  MaxGen = 3
  OthersUpTo <- MCOthersUpTo
SPECIFICATION RolloutSpec
PROPERTIES
  AnyBadPodFailsFast
CHECK_DEADLOCK FALSE

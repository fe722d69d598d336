CONSTANTS
  a = a
  b = b
  None = None
  Other = Other
  Deployments <- MCDeployments
  StatefulSets <- MCStatefulSets
  DeploymentOf <- MCDeploymentOf
  OwnerOf <- MCOwnerOf
  MaxUid = 2
  MaxChanges = 3
  MaxAttempts = 2
  Manners <- MCManners
  Orphans <- MCOrphans
  Skips <- MCSkips
  Layers <- MCLayers
  CommandLines <- AliasCommandLines
SYMMETRY Interchangeable
SPECIFICATION PrepareSpec
INVARIANTS
  OptionsAsDocumented
CHECK_DEADLOCK FALSE

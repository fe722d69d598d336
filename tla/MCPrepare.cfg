CONSTANTS
  a = a
  b = b
  None = None
  Other = Other
  Deployments <- MCDeployments
  StatefulSets <- MCStatefulSets
  DeploymentOf <- MCDeploymentOf
  OwnerOf <- MCOwnerOf
  MaxUid = 2
  MaxChanges = 3
  MaxAttempts = 2
  Manners <- MCManners
  Orphans <- MCOrphans
  Skips <- MCSkips
  Layers <- MCLayers
  CommandLines <- MCCommandLines
SYMMETRY Interchangeable
SPECIFICATION PrepareSpec
INVARIANTS
  PrepareTypeOK
  OptionsAsDocumented
  DiscoveryExact
  StrictMeansNoRisk
CHECK_DEADLOCK FALSE

CONSTANTS
  alice = alice
  bob = bob
  Scopes <- MCScopes
  Types <- MCTypes
  Handled <- MCHandled
  Media <- MCMedia
  Requests <- MCRequests
  RunLimits <- MCRunLimits
  Groups <- MCGroups
  Recovery = "recovery"
  MaxJobs = 2
  MaxPerScope = 2
  MaxMedia = 1
  BatchSize = 2
  ScopeLimit = 2
  MaxBoots = 1
SPECIFICATION MCFairSpec
PROPERTIES
  
  ShutdownEnds
CHECK_DEADLOCK FALSE

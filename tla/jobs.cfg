CONSTANTS
  alice = alice
  bob = bob
  Scopes <- MCScopes
  Types <- MCTypes
  Handled <- MCHandled
  Media <- MCMedia
  Requests <- MCRequests
  RunLimits <- MCRunLimits
  Groups <- MCGroups
  Recovery = "recovery"
  MaxJobs = 3
  MaxPerScope = 2
  MaxMedia = 1
  BatchSize = 2
  ScopeLimit = 2
  MaxBoots = 1
SPECIFICATION MCSpec
INVARIANTS
  RunningRowHasOneRunner
  CancelReachesHandler
  
PROPERTIES
  ImplementsQueue
CHECK_DEADLOCK FALSE

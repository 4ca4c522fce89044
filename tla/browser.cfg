CONSTANTS
  s1 = s1
  s2 = s2
  b1 = b1
  b2 = b2
  ann = ann
  scheduler = scheduler
  admin = admin
  Sessions <- MCSessions
  Browsers <- MCBrowsers
  Users <- MCUsers
  Owner <- MCOwner
  Runners <- MCRunners
  MaxStops = 2
  MaxTasks = 2
  None = None
SYMMETRY Symmetric
SPECIFICATION Spec

  
  
PROPERTIES
  ClosedTasksStay
CHECK_DEADLOCK FALSE

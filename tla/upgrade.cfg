CONSTANTS
  r1 = r1
  r2 = r2
  r3 = r3
  u1 = u1
  u2 = u2
  web = web
  Requests <- MCRequests
  Upgrades <- MCUpgrades
  Sessions <- MCSessions
  Versions <- MCVersions
  Probed <- MCProbed
  Capabilities <- MCCapabilities
  Declared <- MCDeclared
  MaxPerSession = 2
  MaxLost = 1
  NoPlan = NoPlan
SPECIFICATION FairSpec
INVARIANTS
  OneUpgrade
  RevocationsKept
  StreamsCounted
PROPERTIES
  OnlyInstalledVersionConnects
  RequestsSeeOneVersion
  GatewayReopens
CHECK_DEADLOCK FALSE

CONSTANTS
  alice = alice
  bob = bob
  c1 = c1
  c2 = c2
  Users <- MCUsers
  Credentials <- MCCredentials
  MaxConnections = 2
  Calls = {i1}
  Streams = {s1}
  Waiters = {w1}
  MaxQueue = 1
  MaxChunks = 2
  None = None
SPECIFICATION Spec
VIEW Open
SYMMETRY Symmetry
INVARIANTS
  PendingOnItsWorker
  NoMissedWakeup
  CredentialUsedOnce
  RevocationCutsOff
  ChunksInOrder
  NoReaderStranded
CHECK_DEADLOCK FALSE

CONSTANTS
  None = None
  Subjects = {"login", "entry"}
  Visitors = {"entry"}
  Limit <- MCLimit
  Testers = {ann}
  TestsPerWindow = 2
  TestWindow = 2
  MaxMinute = 7
  Users = {u1, u2}
  Sessions = {s1, s2}
  EntryKeys = {k1, k2}
  Apps = {a1}
  Requests = {r1, r2}
  Codes <- MCCodes
  MaxBatch = 1
  MaxPassword = 1
  Versions = {"v1", "v2"}
  Contents = {"signed1", "signed2"}
  Signed <- MCSigned
  Runs = {run1}
  Credentials = {"c1", "c2"}
  Installations = {"i1", "i2"}
  Of <- MCOf
  Scopes = {sc1, sc2}
  Keys = {key1}
  Values = {val1}
  MigrationVersions = {1, 2}
  Names = {"a", "b"}
  Batches <- MCBatches
  Connections = {only}
  Overlapping = FALSE
  Operations = {op1}
  BindingIds = {b1, b2, b3}
  BindingNames = {"name"}
  Plugins = {p1, p2}
  Manifests = {"listing", "plain"}
  Lists <- MCLists
  Roots = {root1}
  Playbacks = {play1}
  Outputs = {out1}
  Members = {m1, m2}
  Homes = {h1}
  Editions = {"short", "long"}
  Size <- MCSize
  Window = 2
  Sources = {src1, src2}
  Keyed = {src1}
  Found = {item1}
  Tickets = {t1}
  Fetches = {f1}
  Owners = {o1, o2}
  Makers = {mk1, mk2}
  Ids = {x1, x2}
  Chosen = {x2}
  Categories = {"c", "d"}
  TableRows = {"x"}
  SchemaVersion = 1
  NewestVersion = 2
  Releases <- MCReleases
  Installs = {in1, in2}
  Database = Database
  Wal = Wal
  OtherFiles = {}
  MaxContent = 3
  Stages = 4
  Ensured = {1}
  Repeatable = {2, 3, 4}
SPECIFICATION Spec
INVARIANTS
  AttemptsBounded
  AccountsSound
  ToolsSound
  CredentialsSound
  GrantsTellTheTruth
  
  SourcesFollowRows
  SchemaSound
  PackagesSound
  ToolingSound
PROPERTIES
  ImplementsStore
  ImplementsDataStore
  RecordsKept
CHECK_DEADLOCK FALSE

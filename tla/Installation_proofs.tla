------------------------- MODULE Installation_proofs -------------------------
(* What Core installs, and what installs Core: tools (Components), the schema    *)
(* (Schema), plugin packages (Packages), snapshots and the native installer      *)
(* (Tooling).                                                                    *)
EXTENDS Components, Schema, Packages, Tooling, FiniteSetTheorems, SequenceTheorems, TLAPS

------------------------------------------------------------------------------
(***************************************************************************)
(* Theorems about Components: whatever is registered, installed, altered   *)
(* on disk, checked and activated, Core only starts content that was       *)
(* signed for its version.                                                 *)
(*                                                                         *)
(* The properties of the runs are not inductive by themselves.  A run that *)
(* has read the active row but not yet compared the files must already     *)
(* hold the signed checksum (RunsAgree), whatever happens to the row.      *)
(***************************************************************************)

RunsAgree ==
  \A r \in Runs :
    /\ toolRun[r].at # "idle" => toolRun[r].version \in Versions
    /\ toolRun[r].at = "checking" => toolRun[r].checksum = Signed[toolRun[r].version]
    /\ toolRun[r].at \in {"running", "cut"} => toolRun[r].content = Signed[toolRun[r].version]

ToolsInv == ComponentsTypeOK /\ RowsAgree /\ RunsAgree

(* The rows before and after, as far as the invariant looks at them.       *)
RowsOK(a, rows) ==
  /\ a \in [version : Versions \cup {None}, row : Rows]
  /\ rows \in [Versions -> Rows]
  /\ a # NoActive => a.version \in Versions /\ rows[a.version] # NoRow
  /\ a.row.verified => a.row.checksum = Signed[a.version]
  /\ \A v \in Versions : rows[v].verified => rows[v].checksum = Signed[v]

RunsOK(runs) ==
  /\ runs \in [Runs -> [at : {"idle", "checking", "running", "cut"}, version : Versions \cup {None},
                        checksum : Contents \cup {None}, content : Contents \cup {None}]]
  /\ \A r \in Runs :
       /\ runs[r].at # "idle" => runs[r].version \in Versions
       /\ runs[r].at = "checking" => runs[r].checksum = Signed[runs[r].version]
       /\ runs[r].at \in {"running", "cut"} => runs[r].content = Signed[runs[r].version]

FilesOK(content) == content \in [Versions -> Contents \cup {None}]

LEMMA ToolsInvSplits ==
  /\ ToolsInv <=> RowsOK(active, versions) /\ FilesOK(files) /\ RunsOK(toolRun)
  /\ ToolsInv' <=> RowsOK(active', versions') /\ FilesOK(files') /\ RunsOK(toolRun')
BY DEF ToolsInv, ComponentsTypeOK, RowsAgree, RunsAgree, RowsOK, FilesOK, RunsOK

(* registerComponent() keeps the rows in order for any checksum, and       *)
(* verified only with the signed one.                                      *)
LEMMA RegisterKeepsRows ==
  ASSUME RowsOK(active, versions),
         NEW v \in Versions, NEW checksum \in Contents, NEW verified \in BOOLEAN,
         verified => checksum = Signed[v],
         RegisterComponent(v, checksum, verified)
  PROVE  RowsOK(active', versions')
<1> DEFINE row == [checksum |-> checksum, health |-> "unknown", verified |-> verified]
<1>1. row \in Rows /\ row # NoRow
  BY DEF Rows, NoRow
<1>2. versions' = [versions EXCEPT ![v] = row]
  BY DEF RegisterComponent
<1>3. versions' \in [Versions -> Rows]
  BY <1>1, <1>2 DEF RowsOK
<1>4. \A w \in Versions : versions'[w].verified => versions'[w].checksum = Signed[w]
  BY <1>2 DEF RowsOK
<1>5. CASE active = NoActive
  <2>1. active' = [version |-> v, row |-> row]
    BY <1>5 DEF RegisterComponent
  <2>2. active' \in [version : Versions \cup {None}, row : Rows]
    BY <2>1, <1>1
  <2>3. active'.version = v /\ active'.row.verified = verified /\ active'.row.checksum = checksum
    BY <2>1
  <2>4. versions'[v] = row
    BY <1>2 DEF RowsOK
  <2> QED
    BY <2>2, <2>3, <2>4, <1>1, <1>3, <1>4 DEF RowsOK
<1>6. CASE active # NoActive
  <2>1. active' = active
    BY <1>6 DEF RegisterComponent
  <2>2. versions'[active.version] # NoRow
    BY <1>1, <1>2, <1>6 DEF RowsOK
  <2> QED
    BY <2>1, <2>2, <1>3, <1>4, <1>6 DEF RowsOK
<1> QED
  BY <1>5, <1>6

LEMMA HealthIsKnown ==
  ASSUME NEW v, NEW row
  PROVE  HealthOf(v, row) \in {"healthy", "unhealthy"}
BY DEF HealthOf

(* A health check changes the health alone.                                *)
LEMMA HealthKeepsRows ==
  ASSUME RowsOK(active, versions), active # NoActive,
         NEW health \in {"healthy", "unhealthy"},
         UpdateComponentHealth(health)
  PROVE  RowsOK(active', versions')
<1>1. PICK u \in Versions : u = active.version
  BY DEF RowsOK
<1>2. active.row \in Rows /\ versions[u] \in Rows
  BY DEF RowsOK
<1>3. active' = [version |-> u, row |-> [active.row EXCEPT !.health = health]]
  BY <1>1 DEF UpdateComponentHealth, RowsOK
<1>4. PICK new : new = [versions[u] EXCEPT !.health = health]
  OBVIOUS
<1>5. new \in Rows /\ new.verified = versions[u].verified /\ new.checksum = versions[u].checksum /\ new.health # "none"
  BY <1>2, <1>4 DEF Rows
<1>6. versions' = [versions EXCEPT ![u] = new]
  BY <1>1, <1>4 DEF UpdateComponentHealth, RowsOK
<1>7. active'.version = u /\ active'.row.verified = active.row.verified /\ active'.row.checksum = active.row.checksum
  BY <1>2, <1>3 DEF Rows
<1>8. active' \in [version : Versions \cup {None}, row : Rows]
  BY <1>2, <1>3 DEF Rows
<1>9. versions'[u] # NoRow
  BY <1>5, <1>6 DEF RowsOK, NoRow
<1>10. versions' \in [Versions -> Rows] /\ \A w \in Versions : versions'[w].verified => versions'[w].checksum = Signed[w]
  BY <1>5, <1>6 DEF RowsOK
<1> QED
  BY <1>1, <1>7, <1>8, <1>9, <1>10 DEF RowsOK

(* An empty directory and empty tables agree (createApp).                *)
THEOREM ToolsInitially == ComponentsInit => ToolsInv
<1> SUFFICES ASSUME ComponentsInit PROVE ToolsInv
  OBVIOUS
<1>1. NoRow \in Rows
  BY DEF NoRow, Rows
<1>2. RowsOK(active, versions)
  BY <1>1 DEF ComponentsInit, NoActive, RowsOK, NoRow
<1>3. FilesOK(files)
  BY DEF ComponentsInit, FilesOK
<1>4. RunsOK(toolRun)
  BY DEF ComponentsInit, IdleRun, RunsOK
<1> QED
  BY <1>2, <1>3, <1>4, ToolsInvSplits

(* Every route, run and altered file keeps rows and runs in agreement    *)
(* (components.ts, managed-component-runner.ts).                         *)
THEOREM ToolsInductive == ToolsInv /\ [ComponentsNext]_components => ToolsInv'
<1> SUFFICES ASSUME ToolsInv, [ComponentsNext]_components PROVE ToolsInv'
  OBVIOUS
<1> USE ComponentsAssumption
<1>0. RowsOK(active, versions) /\ FilesOK(files) /\ RunsOK(toolRun)
  BY ToolsInvSplits
<1> DEFINE Rest == FilesOK(files') /\ RunsOK(toolRun')
<1>1. ASSUME NEW v \in Versions, NEW c \in Contents, RegisterRoute(v, c) PROVE ToolsInv'
  <2>1. RowsOK(active', versions')
    BY <1>0, <1>1, RegisterKeepsRows DEF RegisterRoute
  <2>2. Rest
    BY <1>0, <1>1 DEF RegisterRoute
  <2> QED
    BY <2>1, <2>2, ToolsInvSplits
<1>2. ASSUME NEW v \in Versions, Install(v) PROVE ToolsInv'
  <2>1. Signed[v] \in Contents
    OBVIOUS
  <2>2. RowsOK(active', versions')
    BY <1>0, <1>2, <2>1, RegisterKeepsRows DEF Install
  <2>3. FilesOK(files')
    BY <1>0, <1>2, <2>1 DEF Install, InstallStaged, FilesOK
  <2>4. RunsOK(toolRun')
    BY <1>0, <1>2 DEF Install
  <2> QED
    BY <2>2, <2>3, <2>4, ToolsInvSplits
<1>3. ASSUME NEW v \in Versions, NEW c \in Contents \cup {None}, Alter(v, c) PROVE ToolsInv'
  <2>1. FilesOK(files')
    BY <1>0, <1>3 DEF Alter, FilesOK
  <2>2. RowsOK(active', versions') /\ RunsOK(toolRun')
    BY <1>0, <1>3 DEF Alter
  <2> QED
    BY <2>1, <2>2, ToolsInvSplits
<1>4. ASSUME HealthRoute PROVE ToolsInv'
  <2>1. RowsOK(active', versions')
    BY <1>0, <1>4, HealthKeepsRows, HealthIsKnown DEF HealthRoute
  <2>2. Rest
    BY <1>0, <1>4 DEF HealthRoute
  <2> QED
    BY <2>1, <2>2, ToolsInvSplits
<1>5. ASSUME NEW v \in Versions, VersionHealthRoute(v) PROVE ToolsInv'
  <2>1. versions[v] \in Rows
    BY <1>0 DEF RowsOK
  <2>2. PICK health \in {"healthy", "unhealthy"} : health = HealthOf(v, versions[v])
    BY HealthIsKnown
  <2>3. PICK new : new = [versions[v] EXCEPT !.health = health]
    OBVIOUS
  <2>4. new \in Rows /\ new.verified = versions[v].verified /\ new.checksum = versions[v].checksum /\ new.health # "none"
    BY <2>1, <2>3 DEF Rows
  <2>5. versions' = [versions EXCEPT ![v] = new] /\ active' = active
    BY <1>0, <1>5, <2>2, <2>3 DEF VersionHealthRoute, RowsOK
  <2>6. new # NoRow
    BY <2>4 DEF NoRow
  <2>7. RowsOK(active', versions')
    BY <1>0, <2>4, <2>5, <2>6 DEF RowsOK
  <2>8. Rest
    BY <1>0, <1>5 DEF VersionHealthRoute
  <2> QED
    BY <2>7, <2>8, ToolsInvSplits
<1>6. ASSUME NEW v \in Versions, ActivateRoute(v) PROVE ToolsInv'
  <2>1. PICK row \in Rows : row = versions[v]
    BY <1>0 DEF RowsOK
  <2>2. row # NoRow /\ (row.verified => row.checksum = Signed[v])
    BY <1>0, <1>6, <2>1 DEF ActivateRoute, ActivateComponentVersion, RowsOK, NoRow
  <2>3. active' = active \/ active' = [version |-> v, row |-> row]
    BY <1>6, <2>1 DEF ActivateRoute, ActivateComponentVersion
  <2>4. versions' = versions
    BY <1>6 DEF ActivateRoute
  <2>5. RowsOK(active', versions')
    BY <1>0, <2>1, <2>2, <2>3, <2>4 DEF RowsOK
  <2>6. Rest
    BY <1>0, <1>6 DEF ActivateRoute
  <2> QED
    BY <2>5, <2>6, ToolsInvSplits
<1>7. ASSUME NEW r \in Runs, BeginRun(r) PROVE ToolsInv'
  <2>1. active # NoActive
    BY <1>7 DEF BeginRun, NoActive, NoRow
  <2>2. PICK u \in Versions : u = active.version /\ active.row.checksum = Signed[u]
    BY <1>0, <1>7, <2>1 DEF BeginRun, RowsOK
  <2>3. PICK new : new = [at |-> "checking", version |-> u, checksum |-> Signed[u], content |-> None]
    OBVIOUS
  <2>4. toolRun' = [toolRun EXCEPT ![r] = new]
    BY <1>7, <2>2, <2>3 DEF BeginRun, IdleRun
  <2>5. RunsOK(toolRun')
    BY <1>0, <2>3, <2>4 DEF RunsOK
  <2>6. RowsOK(active', versions') /\ FilesOK(files')
    BY <1>0, <1>7 DEF BeginRun
  <2> QED
    BY <2>5, <2>6, ToolsInvSplits
<1>8. ASSUME NEW r \in Runs, Spawn(r) PROVE ToolsInv'
  <2>1. PICK u \in Versions : u = toolRun[r].version /\ toolRun[r].checksum = Signed[u]
    BY <1>0, <1>8 DEF Spawn, RunsOK
  <2>2. PICK new : new = [at |-> "running", version |-> u, checksum |-> None, content |-> Signed[u]]
    OBVIOUS
  <2>3. toolRun' = [toolRun EXCEPT ![r] = new] \/ toolRun' = [toolRun EXCEPT ![r] = IdleRun]
    <3>1. CASE Matches(r)
      <4>1. files[u] = Signed[u]
        BY <2>1, <3>1 DEF Matches, Digest
      <4> QED
        BY <1>8, <2>1, <2>2, <3>1, <4>1 DEF Spawn
    <3>2. CASE ~Matches(r)
      BY <1>8, <3>2 DEF Spawn
    <3> QED
      BY <3>1, <3>2
  <2>4. RunsOK(toolRun')
    BY <1>0, <2>2, <2>3 DEF RunsOK, IdleRun
  <2>5. RowsOK(active', versions') /\ FilesOK(files')
    BY <1>0, <1>8 DEF Spawn
  <2> QED
    BY <2>4, <2>5, ToolsInvSplits
<1>9. ASSUME NEW r \in Runs, Cut(r) PROVE ToolsInv'
  <2>1. PICK new : new = [toolRun[r] EXCEPT !.at = "cut"]
    OBVIOUS
  <2>2. toolRun' = [toolRun EXCEPT ![r] = new]
    BY <1>9, <2>1 DEF Cut
  <2>3. RunsOK(toolRun')
    BY <1>0, <1>9, <2>1, <2>2 DEF RunsOK, Cut
  <2>4. RowsOK(active', versions') /\ FilesOK(files')
    BY <1>0, <1>9 DEF Cut
  <2> QED
    BY <2>3, <2>4, ToolsInvSplits
<1>10. ASSUME NEW r \in Runs, CloseTool(r) PROVE ToolsInv'
  <2>1. RunsOK(toolRun')
    BY <1>0, <1>10 DEF RunsOK, CloseTool, IdleRun
  <2>2. RowsOK(active', versions') /\ FilesOK(files')
    BY <1>0, <1>10 DEF CloseTool
  <2> QED
    BY <2>1, <2>2, ToolsInvSplits
<1>11. CASE UNCHANGED components
  BY <1>0, <1>11, ToolsInvSplits DEF components
<1> QED
  BY <1>1, <1>2, <1>3, <1>4, <1>5, <1>6, <1>7, <1>8, <1>9, <1>10, <1>11 DEF ComponentsNext

(***************************************************************************)
(* For any number of versions, contents and runs: types, rows that agree   *)
(* with the releases, and no tool that is not the signed content of its    *)
(* version (runManagedComponent after registerComponent, activation and    *)
(* any change of the files).                                               *)
(***************************************************************************)
THEOREM OnlySignedTools == ComponentsSpec => []ToolsSound
<1>1. ToolsInv => ToolsSound
  BY DEF ToolsInv, ToolsSound, RunsAgree, OnlySignedToolsRun
<1> QED
  BY <1>1, ToolsInitially, ToolsInductive, PTL DEF ComponentsSpec

------------------------------------------------------------------------------
(***************************************************************************)
(* Theorem about Schema: opening a database never loses a row.  The        *)
(* strengthening follows the open connection: which tables its stage has   *)
(* rebuilt, where their rows are meanwhile, and what of it the file on     *)
(* disk has if Core ends now.                                              *)
(***************************************************************************)

TableSteps == {"column", "begin", "copy", "drop", "rename", "commit"}
LateSteps == {"index", "columns", "backfill", "ledger", "version", "opened"}
OpeningStages == {At(s, "all") : s \in {"closed", "refused", "create"} \cup LateSteps}
          \cup {At(s, t) : s \in TableSteps, t \in Rebuilt}

(* What a connection that is at the stage s knows of the database w that   *)
(* it sees: the tables it has rebuilt so far, and what it has added.       *)
ProgressOK(s, w) ==
  /\ s.step \in {"column", "begin"} => \A q \in Rebuilt : w.key[q] # "missing"
  /\ s.step \in {"copy", "drop", "rename", "commit"} => \A q \in Rebuilt \ {s.table} : w.key[q] # "missing"
  /\ s.step = "commit" => w.key[s.table] = "new"
  /\ s.table = "bindings" => w.key["packages"] = "new"
  /\ s.step \in LateSteps => \A q \in Rebuilt : w.key[q] = "new"
  /\ s.step \in LateSteps \ {"index"} => w.index
  /\ s.step \in LateSteps \ {"index", "columns"} => w.columns = Columns
  /\ s.step \in {"ledger", "version", "opened"} => w.rows["components"] \subseteq w.rows["versions"]
  /\ s.step \in {"version", "opened"} => w.ledger
  /\ s.step = "opened" => w.version = SchemaVersion

(* A transaction has the rows of its table in the copy or in the table;    *)
(* outside of one the connection sees what is on the disk.                 *)
TransactionOK(s, w, d) ==
  /\ ~InTransaction(s) => w = d
  /\ InTransaction(s) =>
       /\ w.version = d.version
       /\ \A q \in Tables \ {s.table} : w.rows[q] = d.rows[q]
       /\ s.step \in {"copy", "commit"} => w.rows[s.table] = d.rows[s.table]
       /\ s.step \in {"drop", "rename"} => w.copied[s.table] = d.rows[s.table]

(* A newer database stays as it was found, an older one is never newer.    *)
VersionsOK(s, w, d, f) ==
  /\ f.version > SchemaVersion => d = f /\ s.step \in {"closed", "refused"}
  /\ f.version <= SchemaVersion => d.version <= SchemaVersion

SchemaInv ==
  /\ stage \in OpeningStages /\ work \in Databases /\ disk \in Databases /\ first \in Databases
  /\ known \in [Tables -> SUBSET TableRows] /\ RowsSurvive
  /\ ProgressOK(stage, work) /\ TransactionOK(stage, work, disk) /\ VersionsOK(stage, work, disk, first)

LEMMA StagesSplit ==
  /\ \A s \in {"closed", "refused", "create"} \cup LateSteps : At(s, "all") \in OpeningStages
  /\ \A s \in TableSteps, t \in Rebuilt : At(s, t) \in OpeningStages
  /\ \A s, t : At(s, t).step = s /\ At(s, t).table = t
  /\ \A s \in OpeningStages : s.step \in TableSteps \cup LateSteps \cup {"closed", "refused", "create"}
                       /\ s.table \in Rebuilt \cup {"all"}
<1>1. \A s, t : At(s, t).step = s /\ At(s, t).table = t
  BY DEF At
<1>2. \A s \in {"closed", "refused", "create"} \cup LateSteps : At(s, "all") \in OpeningStages
  BY DEF OpeningStages
<1>3. \A s \in TableSteps, t \in Rebuilt : At(s, t) \in OpeningStages
  BY DEF OpeningStages
<1>4. ASSUME NEW s \in OpeningStages
      PROVE  /\ s.step \in TableSteps \cup LateSteps \cup {"closed", "refused", "create"}
             /\ s.table \in Rebuilt \cup {"all"}
  <2>1. CASE \E x \in {"closed", "refused", "create"} \cup LateSteps : s = At(x, "all")
    BY <1>1, <2>1
  <2>2. CASE \E x \in TableSteps, t \in Rebuilt : s = At(x, t)
    BY <1>1, <2>2
  <2> QED
    BY <2>1, <2>2 DEF OpeningStages
<1> QED
  BY <1>1, <1>2, <1>3, <1>4

LEMMA SchemaInvHolds == SchemaInv => SchemaSound
<1> SUFFICES ASSUME SchemaInv PROVE SchemaSound
  OBVIOUS
<1>1. SchemaTypeOK
  BY StagesSplit DEF SchemaInv, SchemaTypeOK, TableSteps, LateSteps
<1>2. stage = Opened => stage.step = "opened"
  BY StagesSplit DEF Opened
<1>3. OpenedIsComplete
  <2> SUFFICES ASSUME stage = Opened
               PROVE  /\ work.key = [t \in Rebuilt |-> "new"] /\ work.columns = Columns /\ work.index
                      /\ work.ledger /\ work.version = SchemaVersion
                      /\ work.rows["components"] \subseteq work.rows["versions"]
    BY DEF OpenedIsComplete
  <2>1. work.key \in [Rebuilt -> {"missing", "old", "new"}]
    BY DEF SchemaInv, Databases
  <2>2. work.key = [t \in Rebuilt |-> "new"]
    BY <1>2, <2>1 DEF SchemaInv, ProgressOK, LateSteps
  <2> QED
    BY <1>2, <2>2 DEF SchemaInv, ProgressOK, LateSteps
<1>4. NewerIsUntouched
  BY <1>2 DEF SchemaInv, VersionsOK, NewerIsUntouched
<1> QED
  BY <1>1, <1>3, <1>4 DEF SchemaInv, SchemaSound

LEMMA SchemaInitEstablishes == SchemaInit => SchemaInv
<1> SUFFICES ASSUME NEW db \in Databases, Left(db), StartsWith(db) PROVE SchemaInv
  BY DEF SchemaInit
<1>1. stage \in OpeningStages /\ stage.step = "closed" /\ stage.table = "all"
  BY StagesSplit DEF StartsWith, Closed
<1>2. RowsSurvive /\ known \in [Tables -> SUBSET TableRows]
  BY DEF StartsWith, RowsSurvive, Databases
<1>3. ProgressOK(stage, work)
  BY <1>1 DEF ProgressOK, LateSteps
<1>4. TransactionOK(stage, work, disk)
  BY <1>1 DEF StartsWith, TransactionOK, InTransaction
<1>5. VersionsOK(stage, work, disk, first)
  BY <1>1, SchemaAssumption DEF StartsWith, VersionsOK, Databases
<1> QED
  BY <1>1, <1>2, <1>3, <1>4, <1>5 DEF SchemaInv, StartsWith

(* A database by its parts. *)
LEMMA DatabaseFields ==
  \A db \in Databases :
       /\ db.version \in 0 .. NewestVersion /\ db.key \in [Rebuilt -> {"missing", "old", "new"}]
       /\ db.columns \subseteq Columns /\ db.rows \in [Tables -> SUBSET TableRows]
       /\ db.copied \in [Rebuilt -> SUBSET TableRows] /\ db.index \in BOOLEAN /\ db.ledger \in BOOLEAN
BY DEF Databases

(* A statement in a transaction, and one that is on the disk at once. *)
LEMMA InTransactionKeeps ==
  ASSUME SchemaInv, NEW from, NEW to, NEW db, Statement(from, to, db), InTransaction(to), to \in OpeningStages,
         db \in Databases, ProgressOK(to, db), TransactionOK(to, db, disk),
         ~(from.step \in {"closed", "refused"})
  PROVE  SchemaInv'
<1>1. stage = from /\ stage' = to /\ work' = db /\ disk' = disk /\ first' = first /\ known' = known
  BY DEF Statement
<1>2. RowsSurvive'
  BY <1>1 DEF SchemaInv, RowsSurvive
<1>3. VersionsOK(to, db, disk, first)
  BY <1>1 DEF SchemaInv, VersionsOK
<1> QED
  BY <1>1, <1>2, <1>3 DEF SchemaInv

LEMMA AtOnceKeeps ==
  ASSUME SchemaInv, NEW from, NEW to, NEW db, Statement(from, to, db), ~InTransaction(to), to \in OpeningStages,
         db \in Databases, ProgressOK(to, db), \A t \in Tables : disk.rows[t] \subseteq db.rows[t],
         db.version <= SchemaVersion, ~(from.step \in {"closed", "refused"})
  PROVE  SchemaInv'
<1>1. stage = from /\ stage' = to /\ work' = db /\ disk' = db /\ first' = first /\ known' = known
  BY DEF Statement
<1>2. RowsSurvive'
  BY <1>1 DEF SchemaInv, RowsSurvive
<1>3. TransactionOK(to, db, db)
  BY DEF TransactionOK
<1>4. first.version \in Nat
  BY SchemaAssumption DEF SchemaInv, Databases
<1>5. VersionsOK(to, db, db, first)
  BY <1>1, <1>4, SchemaAssumption DEF SchemaInv, VersionsOK
<1> QED
  BY <1>1, <1>2, <1>3, <1>5 DEF SchemaInv

(* An older database stays one while it is worked on. *)
LEMMA WorkIsOlder ==
  ASSUME SchemaInv, ~(stage.step \in {"closed", "refused"})
  PROVE  /\ work.version <= SchemaVersion /\ disk.version <= SchemaVersion
         /\ work \in Databases /\ disk \in Databases
         /\ ~InTransaction(stage) => work = disk
<1>1. first.version \in Nat /\ work.version \in Nat /\ disk.version \in Nat
  BY SchemaAssumption DEF SchemaInv, Databases
<1>2. disk.version <= SchemaVersion
  BY <1>1, SchemaAssumption DEF SchemaInv, VersionsOK
<1> QED
  BY <1>2 DEF SchemaInv, TransactionOK

LEMMA CheckVersionKeeps == ASSUME SchemaInv, CheckVersion PROVE SchemaInv'
<1> DEFINE to == IF work.version > SchemaVersion THEN At("refused", "all") ELSE At("create", "all")
<1>1. /\ stage = Closed /\ stage' = to /\ work' = work /\ first' = first /\ known' = known
      /\ to.step \in {"refused", "create"} /\ to.table = "all" /\ to \in OpeningStages
  BY StagesSplit DEF CheckVersion, Statement
<1>2. disk = work /\ disk' = work
  BY <1>1, StagesSplit DEF CheckVersion, Statement, SchemaInv, TransactionOK, InTransaction, Closed
<1>3. RowsSurvive'
  BY <1>1, <1>2 DEF SchemaInv, RowsSurvive
<1>4. ProgressOK(to, work) /\ TransactionOK(to, work, work)
  BY <1>1 DEF ProgressOK, TransactionOK, LateSteps
<1>5. first.version \in Nat /\ work.version \in Nat
  BY SchemaAssumption DEF SchemaInv, Databases
<1>6. VersionsOK(to, work, work, first)
  BY <1>2, <1>5, SchemaAssumption, StagesSplit DEF SchemaInv, VersionsOK
<1> HIDE DEF to
<1> QED
  BY <1>1, <1>2, <1>3, <1>4, <1>6 DEF SchemaInv

LEMMA CreateTablesKeeps == ASSUME SchemaInv, CreateTables PROVE SchemaInv'
<1> DEFINE missing == {t \in Rebuilt : work.key[t] = "missing"}
           to == At("column", "packages")
<1>1. stage = At("create", "all") /\ stage.step = "create"
  BY StagesSplit DEF CreateTables, Statement
<1>2. work \in Databases /\ work = disk /\ work.version <= SchemaVersion
  BY <1>1, WorkIsOlder DEF InTransaction
<1>3. PICK k : k = [t \in Rebuilt |-> IF t \in missing THEN "new" ELSE work.key[t]]
  OBVIOUS
<1>4. PICK c : c = work.columns \cup {KeyColumn[t] : t \in missing}
  OBVIOUS
<1>5. PICK db : db = [work EXCEPT !.key = k, !.columns = c] /\ Statement(At("create", "all"), to, db)
  BY <1>3, <1>4 DEF CreateTables
<1>6. k \in [Rebuilt -> {"missing", "old", "new"}] /\ \A q \in Rebuilt : k[q] # "missing"
  BY <1>2, <1>3, DatabaseFields
<1>7. c \subseteq Columns
  <2>1. \A t \in Rebuilt : KeyColumn[t] \in Columns
    BY DEF Rebuilt, KeyColumn, Columns
  <2> QED
    BY <1>2, <1>4, <2>1, DatabaseFields
<1>8. db \in Databases /\ db.key = k /\ db.rows = work.rows /\ db.version = work.version
  BY <1>2, <1>5, <1>6, <1>7 DEF Databases
<1>9. db.version <= SchemaVersion /\ \A q \in Tables : disk.rows[q] \subseteq db.rows[q]
  BY <1>2, <1>8
<1>11. to \in OpeningStages /\ to.step = "column" /\ to.table = "packages" /\ ~InTransaction(to)
  BY StagesSplit DEF TableSteps, Rebuilt, InTransaction
<1>12. ProgressOK(to, db)
  BY <1>6, <1>8, <1>11 DEF ProgressOK, LateSteps
<1> HIDE DEF to, missing
<1> QED
  BY <1>1, <1>5, <1>8, <1>9, <1>11, <1>12, AtOnceKeeps, StagesSplit

LEMMA AddKeyColumnKeeps == ASSUME SchemaInv, NEW t \in Rebuilt, AddKeyColumn(t) PROVE SchemaInv'
<1> DEFINE to == At("begin", t)
<1>1. stage = At("column", t) /\ stage.step = "column" /\ stage.table = t
  BY StagesSplit DEF AddKeyColumn, Statement
<1>2. work \in Databases /\ work = disk /\ work.version <= SchemaVersion
  BY <1>1, WorkIsOlder DEF InTransaction
<1>3. PICK db : db = [work EXCEPT !.columns = work.columns \cup {KeyColumn[t]}] /\ Statement(At("column", t), to, db)
  BY DEF AddKeyColumn
<1>4. KeyColumn[t] \in Columns
  BY DEF Rebuilt, KeyColumn, Columns
<1>5. PICK c : c = work.columns \cup {KeyColumn[t]}
  OBVIOUS
<1>12. c \subseteq Columns
  BY <1>2, <1>4, <1>5, DatabaseFields
<1>6. db = [work EXCEPT !.columns = c]
  BY <1>3, <1>5
<1>7. db \in Databases /\ db.key = work.key /\ db.rows = work.rows /\ db.version = work.version
  BY <1>2, <1>6, <1>12 DEF Databases
<1>11. db.version <= SchemaVersion /\ \A q \in Tables : disk.rows[q] \subseteq db.rows[q]
  BY <1>2, <1>7
<1>8. to \in OpeningStages /\ to.step = "begin" /\ to.table = t /\ ~InTransaction(to)
  BY StagesSplit DEF TableSteps, InTransaction
<1>9. ProgressOK(stage, work)
  BY DEF SchemaInv
<1>10. ProgressOK(to, db)
  BY <1>1, <1>7, <1>8, <1>9 DEF ProgressOK, LateSteps
<1> HIDE DEF to
<1> QED
  BY <1>1, <1>3, <1>7, <1>8, <1>10, <1>11, AtOnceKeeps, StagesSplit

(* What follows the rebuilding of a table. *)
LEMMA AfterTable ==
  ASSUME NEW t \in Rebuilt, NEW w, w.key[t] = "new", \A q \in Rebuilt : w.key[q] # "missing",
         t = "bindings" => w.key["packages"] = "new"
  PROVE  After(t) \in OpeningStages /\ ~InTransaction(After(t)) /\ ProgressOK(After(t), w)
<1>1. CASE t = "packages"
  <2>1. After(t) = At("column", "bindings")
    BY <1>1 DEF After
  <2>2. After(t) \in OpeningStages /\ After(t).step = "column" /\ After(t).table = "bindings"
    BY <2>1, StagesSplit DEF TableSteps, Rebuilt
  <2> QED
    BY <1>1, <2>2 DEF ProgressOK, InTransaction, LateSteps
<1>2. CASE t = "bindings"
  <2>1. After(t) = At("index", "all")
    BY <1>2 DEF After
  <2>2. After(t) \in OpeningStages /\ After(t).step = "index" /\ After(t).table = "all"
    BY <2>1, StagesSplit DEF LateSteps
  <2>3. \A q \in Rebuilt : w.key[q] = "new"
    BY <1>2 DEF Rebuilt
  <2> QED
    BY <2>2, <2>3 DEF ProgressOK, InTransaction, LateSteps
<1> QED
  BY <1>1, <1>2 DEF Rebuilt

LEMMA BeginRebuildKeeps == ASSUME SchemaInv, NEW t \in Rebuilt, BeginRebuild(t) PROVE SchemaInv'
<1>1. stage = At("begin", t) /\ stage.step = "begin" /\ stage.table = t
  BY StagesSplit DEF BeginRebuild, Statement
<1>2. work \in Databases /\ work = disk /\ work.version <= SchemaVersion
  BY <1>1, WorkIsOlder DEF InTransaction
<1>3. /\ \A q \in Rebuilt : work.key[q] # "missing" /\ work.key[q] \in {"missing", "old", "new"}
      /\ t = "bindings" => work.key["packages"] = "new"
  BY <1>1, <1>2, DatabaseFields DEF SchemaInv, ProgressOK
<1>4. CASE work.key[t] = "old"
  <2> DEFINE to == At("copy", t)
  <2>1. Statement(At("begin", t), to, work)
    BY <1>4 DEF BeginRebuild
  <2>2. to \in OpeningStages /\ to.step = "copy" /\ to.table = t /\ InTransaction(to)
    BY StagesSplit DEF TableSteps, InTransaction
  <2>3. ProgressOK(to, work)
    BY <1>3, <2>2 DEF ProgressOK, LateSteps
  <2>4. TransactionOK(to, work, disk)
    BY <1>2, <2>2 DEF TransactionOK
  <2> HIDE DEF to
  <2> QED
    BY <1>1, <1>2, <2>1, <2>2, <2>3, <2>4, InTransactionKeeps, StagesSplit
<1>5. CASE work.key[t] = "new"
  <2>1. Statement(At("begin", t), After(t), work)
    BY <1>5 DEF BeginRebuild
  <2>2. After(t) \in OpeningStages /\ ~InTransaction(After(t)) /\ ProgressOK(After(t), work)
    BY <1>3, <1>5, AfterTable
  <2> QED
    BY <1>1, <1>2, <2>1, <2>2, AtOnceKeeps, StagesSplit
<1> QED
  BY <1>3, <1>4, <1>5

LEMMA CopyRowsKeeps == ASSUME SchemaInv, NEW t \in Rebuilt, CopyRows(t) PROVE SchemaInv'
<1> DEFINE to == At("drop", t)
<1>1. stage = At("copy", t) /\ stage.step = "copy" /\ stage.table = t /\ InTransaction(stage)
  BY StagesSplit DEF CopyRows, Statement, InTransaction
<1>2. work \in Databases /\ ProgressOK(stage, work) /\ TransactionOK(stage, work, disk)
  BY DEF SchemaInv
<1>3. PICK p : p = [work.copied EXCEPT ![t] = work.rows[t]]
  OBVIOUS
<1>4. PICK db : db = [work EXCEPT !.copied = p] /\ Statement(At("copy", t), to, db)
  BY <1>3 DEF CopyRows
<1>5. p \in [Rebuilt -> SUBSET TableRows] /\ p[t] = work.rows[t]
  <2>1. t \in Tables
    BY DEF Tables
  <2> QED
    BY <1>2, <1>3, <2>1, DatabaseFields
<1>7. db \in Databases
  BY <1>2, <1>4, <1>5 DEF Databases
<1>8. db.key = work.key /\ db.rows = work.rows /\ db.version = work.version /\ db.copied = p
  BY <1>2, <1>4 DEF Databases
<1>9. to \in OpeningStages /\ to.step = "drop" /\ to.table = t /\ InTransaction(to)
  BY StagesSplit DEF TableSteps, InTransaction
<1>10. ProgressOK(to, db)
  BY <1>1, <1>2, <1>8, <1>9 DEF ProgressOK, LateSteps
<1>11. TransactionOK(to, db, disk)
  BY <1>1, <1>2, <1>5, <1>8, <1>9 DEF TransactionOK
<1> HIDE DEF to
<1> QED
  BY <1>1, <1>4, <1>7, <1>9, <1>10, <1>11, InTransactionKeeps, StagesSplit

LEMMA DropTableKeeps == ASSUME SchemaInv, NEW t \in Rebuilt, DropTable(t) PROVE SchemaInv'
<1> DEFINE to == At("rename", t)
<1>1. stage = At("drop", t) /\ stage.step = "drop" /\ stage.table = t /\ InTransaction(stage)
  BY StagesSplit DEF DropTable, Statement, InTransaction
<1>2. work \in Databases /\ ProgressOK(stage, work) /\ TransactionOK(stage, work, disk)
  BY DEF SchemaInv
<1>3. PICK k : k = [work.key EXCEPT ![t] = "missing"]
  OBVIOUS
<1>4. PICK r : r = [work.rows EXCEPT ![t] = {}]
  OBVIOUS
<1>12. (work.index /\ t # "bindings") \in BOOLEAN
  OBVIOUS
<1>13. PICK i \in BOOLEAN : i = (work.index /\ t # "bindings")
  BY <1>12, Zenon
<1>5. PICK db : db = [work EXCEPT !.key = k, !.rows = r, !.index = i] /\ Statement(At("drop", t), to, db)
  BY <1>3, <1>4, <1>13 DEF DropTable
<1>6. k \in [Rebuilt -> {"missing", "old", "new"}] /\ r \in [Tables -> SUBSET TableRows] /\ t \in Tables
      /\ (\A q \in Rebuilt \ {t} : k[q] = work.key[q]) /\ (\A q \in Tables \ {t} : r[q] = work.rows[q])
  BY <1>2, <1>3, <1>4, DatabaseFields DEF Tables
<1>8. db \in Databases
  BY <1>2, <1>5, <1>6, <1>13 DEF Databases
<1>9. db.key = k /\ db.rows = r /\ db.version = work.version /\ db.copied = work.copied
  BY <1>2, <1>5 DEF Databases
<1>10. to \in OpeningStages /\ to.step = "rename" /\ to.table = t /\ InTransaction(to)
  BY StagesSplit DEF TableSteps, InTransaction
<1>11. ProgressOK(to, db)
  BY <1>1, <1>2, <1>6, <1>9, <1>10 DEF ProgressOK, LateSteps, Rebuilt
<1>14. TransactionOK(to, db, disk)
  BY <1>1, <1>2, <1>6, <1>9, <1>10 DEF TransactionOK
<1> HIDE DEF to
<1> QED
  BY <1>1, <1>5, <1>8, <1>10, <1>11, <1>14, InTransactionKeeps, StagesSplit

LEMMA RenameTableKeeps == ASSUME SchemaInv, NEW t \in Rebuilt, RenameTable(t) PROVE SchemaInv'
<1> DEFINE to == At("commit", t)
<1>1. stage = At("rename", t) /\ stage.step = "rename" /\ stage.table = t /\ InTransaction(stage)
  BY StagesSplit DEF RenameTable, Statement, InTransaction
<1>2. work \in Databases /\ ProgressOK(stage, work) /\ TransactionOK(stage, work, disk)
  BY DEF SchemaInv
<1>3. PICK k : k = [work.key EXCEPT ![t] = "new"]
  OBVIOUS
<1>4. PICK r : r = [work.rows EXCEPT ![t] = work.copied[t]]
  OBVIOUS
<1>5. PICK p : p = [work.copied EXCEPT ![t] = {}]
  OBVIOUS
<1>6. PICK db : db = [work EXCEPT !.key = k, !.rows = r, !.copied = p] /\ Statement(At("rename", t), to, db)
  BY <1>3, <1>4, <1>5 DEF RenameTable
<1>7. /\ k \in [Rebuilt -> {"missing", "old", "new"}] /\ r \in [Tables -> SUBSET TableRows]
      /\ p \in [Rebuilt -> SUBSET TableRows] /\ t \in Tables /\ k[t] = "new" /\ r[t] = work.copied[t]
      /\ \A q \in Rebuilt \ {t} : k[q] = work.key[q]
      /\ \A q \in Tables \ {t} : r[q] = work.rows[q]
  BY <1>2, <1>3, <1>4, <1>5, DatabaseFields DEF Tables
<1>9. db \in Databases
  BY <1>2, <1>6, <1>7 DEF Databases
<1>10. db.key = k /\ db.rows = r /\ db.version = work.version /\ db.copied = p
  BY <1>2, <1>6 DEF Databases
<1>11. to \in OpeningStages /\ to.step = "commit" /\ to.table = t /\ InTransaction(to)
  BY StagesSplit DEF TableSteps, InTransaction
<1>12. ProgressOK(to, db)
  BY <1>1, <1>2, <1>7, <1>10, <1>11 DEF ProgressOK, LateSteps, Rebuilt
<1>13. TransactionOK(to, db, disk)
  BY <1>1, <1>2, <1>7, <1>10, <1>11 DEF TransactionOK
<1> HIDE DEF to
<1> QED
  BY <1>1, <1>6, <1>9, <1>11, <1>12, <1>13, InTransactionKeeps, StagesSplit

LEMMA CommitRebuildKeeps == ASSUME SchemaInv, NEW t \in Rebuilt, CommitRebuild(t) PROVE SchemaInv'
<1>1. stage = At("commit", t) /\ stage.step = "commit" /\ stage.table = t /\ InTransaction(stage)
  BY StagesSplit DEF CommitRebuild, Statement, InTransaction
<1>2. work \in Databases /\ ProgressOK(stage, work) /\ TransactionOK(stage, work, disk) /\ work.version <= SchemaVersion
  BY <1>1, WorkIsOlder DEF SchemaInv
<1>3. /\ \A q \in Rebuilt : work.key[q] # "missing"
      /\ work.key[t] = "new" /\ (t = "bindings" => work.key["packages"] = "new")
  BY <1>1, <1>2 DEF ProgressOK
<1>4. \A q \in Tables : disk.rows[q] = work.rows[q]
  BY <1>1, <1>2 DEF TransactionOK
<1>5. After(t) \in OpeningStages /\ ~InTransaction(After(t)) /\ ProgressOK(After(t), work)
  BY <1>3, AfterTable
<1>6. Statement(At("commit", t), After(t), work)
  BY DEF CommitRebuild
<1> QED
  BY <1>1, <1>2, <1>4, <1>5, <1>6, AtOnceKeeps, StagesSplit

(* The statements that follow: each has what it adds. *)
LEMMA LateStatementKeeps ==
  ASSUME SchemaInv, NEW from, NEW to, from \in LateSteps, to \in LateSteps, NEW db,
         Statement(At(from, "all"), At(to, "all"), db), db \in Databases, db.key = work.key,
         db.version <= SchemaVersion, \A q \in Tables : work.rows[q] \subseteq db.rows[q],
         ProgressOK(At(from, "all"), work) => ProgressOK(At(to, "all"), db)
  PROVE  SchemaInv'
<1>1. stage = At(from, "all") /\ stage.step = from
  BY StagesSplit DEF Statement
<1>2. work = disk /\ ProgressOK(At(to, "all"), db)
  BY <1>1, WorkIsOlder DEF SchemaInv, InTransaction, LateSteps
<1>3. At(to, "all") \in OpeningStages /\ ~InTransaction(At(to, "all")) /\ ~(At(from, "all").step \in {"closed", "refused"})
  BY StagesSplit DEF InTransaction, LateSteps
<1> QED
  BY <1>2, <1>3, AtOnceKeeps

LEMMA LateStatementsKeep ==
  ASSUME SchemaInv, CreateIndex \/ AddColumns \/ Backfill \/ RecordMigration \/ SetVersion
  PROVE  SchemaInv'
<1>1. stage.step \in LateSteps /\ work \in Databases
  BY StagesSplit DEF CreateIndex, AddColumns, Backfill, RecordMigration, SetVersion, Statement, LateSteps, SchemaInv
<1>2. work.version <= SchemaVersion
  BY <1>1, WorkIsOlder DEF LateSteps
<1>3. \A s \in LateSteps : At(s, "all").step = s /\ At(s, "all").table = "all"
  BY StagesSplit
<1>4. CASE CreateIndex
  <2>1. PICK db : db = [work EXCEPT !.index = TRUE] /\ Statement(At("index", "all"), At("columns", "all"), db)
    BY <1>4 DEF CreateIndex
  <2>2. /\ db \in Databases /\ db.key = work.key /\ db.version = work.version /\ db.rows = work.rows
        /\ db.index
    BY <1>1, <2>1 DEF Databases
  <2>3. ProgressOK(At("index", "all"), work) => ProgressOK(At("columns", "all"), db)
    BY <1>3, <2>2 DEF ProgressOK, LateSteps
  <2> QED
    BY <1>2, <2>1, <2>2, <2>3, LateStatementKeeps DEF LateSteps
<1>5. CASE AddColumns
  <2>1. PICK db : db = [work EXCEPT !.columns = Columns] /\ Statement(At("columns", "all"), At("backfill", "all"), db)
    BY <1>5 DEF AddColumns
  <2>2. /\ db \in Databases /\ db.key = work.key /\ db.version = work.version /\ db.rows = work.rows
        /\ db.index = work.index /\ db.columns = Columns
    BY <1>1, <2>1 DEF Databases
  <2>3. ProgressOK(At("columns", "all"), work) => ProgressOK(At("backfill", "all"), db)
    BY <1>3, <2>2 DEF ProgressOK, LateSteps
  <2> QED
    BY <1>2, <2>1, <2>2, <2>3, LateStatementKeeps DEF LateSteps
<1>6. CASE Backfill
  <2>1. PICK r : r = [work.rows EXCEPT !["versions"] = @ \cup work.rows["components"]]
    OBVIOUS
  <2>2. PICK db : db = [work EXCEPT !.rows = r] /\ Statement(At("backfill", "all"), At("ledger", "all"), db)
    BY <1>6, <2>1 DEF Backfill
  <2>3. work.rows \in [Tables -> SUBSET TableRows] /\ "versions" \in Tables /\ "components" \in Tables
    BY <1>1, DatabaseFields DEF Tables
  <2>4. r \in [Tables -> SUBSET TableRows] /\ r["components"] \subseteq r["versions"]
        /\ \A q \in Tables : work.rows[q] \subseteq r[q]
    BY <2>1, <2>3
  <2>5. /\ db \in Databases /\ db.key = work.key /\ db.version = work.version /\ db.rows = r
        /\ db.index = work.index /\ db.columns = work.columns
    BY <1>1, <2>2, <2>4 DEF Databases
  <2>6. ProgressOK(At("backfill", "all"), work) => ProgressOK(At("ledger", "all"), db)
    BY <1>3, <2>4, <2>5 DEF ProgressOK, LateSteps
  <2> QED
    BY <1>2, <2>2, <2>4, <2>5, <2>6, LateStatementKeeps DEF LateSteps
<1>7. CASE RecordMigration
  <2>1. PICK db : db = [work EXCEPT !.ledger = TRUE] /\ Statement(At("ledger", "all"), At("version", "all"), db)
    BY <1>7 DEF RecordMigration
  <2>2. /\ db \in Databases /\ db.key = work.key /\ db.version = work.version /\ db.rows = work.rows
        /\ db.index = work.index /\ db.columns = work.columns /\ db.ledger
    BY <1>1, <2>1 DEF Databases
  <2>3. ProgressOK(At("ledger", "all"), work) => ProgressOK(At("version", "all"), db)
    BY <1>3, <2>2 DEF ProgressOK, LateSteps
  <2> QED
    BY <1>2, <2>1, <2>2, <2>3, LateStatementKeeps DEF LateSteps
<1>8. CASE SetVersion
  <2>1. PICK db : db = [work EXCEPT !.version = SchemaVersion] /\ Statement(At("version", "all"), At("opened", "all"), db)
    BY <1>8 DEF SetVersion, Opened
  <2>4. SchemaVersion \in 0 .. NewestVersion /\ SchemaVersion <= SchemaVersion
    BY SchemaAssumption
  <2>2. /\ db \in Databases /\ db.key = work.key /\ db.version = SchemaVersion /\ db.rows = work.rows
        /\ db.index = work.index /\ db.columns = work.columns /\ db.ledger = work.ledger
    BY <1>1, <2>1, <2>4 DEF Databases
  <2>3. ProgressOK(At("version", "all"), work) => ProgressOK(At("opened", "all"), db)
    BY <1>3, <2>2 DEF ProgressOK, LateSteps
  <2> QED
    BY <2>1, <2>2, <2>3, <2>4, LateStatementKeeps DEF LateSteps
<1> QED
  BY <1>4, <1>5, <1>6, <1>7, <1>8

LEMMA StopOpeningKeeps == ASSUME SchemaInv, StopOpening PROVE SchemaInv'
<1>1. stage' \in OpeningStages /\ stage'.step = "closed" /\ stage'.table = "all" /\ ~InTransaction(stage')
  BY StagesSplit DEF StopOpening, Closed, InTransaction
<1>2. work' = disk /\ disk' = disk /\ first' = first /\ known' = known
  BY DEF StopOpening
<1>3. ProgressOK(stage', work') /\ TransactionOK(stage', work', disk') /\ VersionsOK(stage', work', disk', first')
  BY <1>1, <1>2 DEF SchemaInv, ProgressOK, TransactionOK, VersionsOK, LateSteps
<1>4. RowsSurvive'
  BY <1>2 DEF SchemaInv, RowsSurvive
<1> QED
  BY <1>1, <1>2, <1>3, <1>4 DEF SchemaInv

LEMMA StoreRowKeeps == ASSUME SchemaInv, NEW t \in Rebuilt, NEW x \in TableRows, StoreRow(t, x) PROVE SchemaInv'
<1>1. stage' = stage /\ stage.step = "opened" /\ stage.table = "all" /\ ~InTransaction(stage)
  BY StagesSplit DEF StoreRow, Opened, InTransaction
<1>2. work \in Databases /\ work = disk /\ work.version <= SchemaVersion
  BY <1>1, WorkIsOlder
<1>3. PICK r : r = [work.rows EXCEPT ![t] = @ \cup {x}]
  OBVIOUS
<1>4. PICK db : db = [work EXCEPT !.rows = r] /\ work' = db
  BY <1>3 DEF StoreRow
<1>5. work.rows \in [Tables -> SUBSET TableRows] /\ t \in Tables
  BY <1>2, DatabaseFields DEF Tables
<1>6. r \in [Tables -> SUBSET TableRows] /\ \A q \in Tables : r[q] = IF q = t THEN work.rows[t] \cup {x} ELSE work.rows[q]
  BY <1>3, <1>5
<1>7. /\ db \in Databases /\ db.key = work.key /\ db.version = work.version /\ db.rows = r
      /\ db.index = work.index /\ db.columns = work.columns /\ db.ledger = work.ledger
  BY <1>2, <1>4, <1>6 DEF Databases
<1>8. known' = [known EXCEPT ![t] = @ \cup {x}] /\ disk' = db /\ first' = first
  BY <1>4 DEF StoreRow
<1>9. known' \in [Tables -> SUBSET TableRows] /\ RowsSurvive'
  BY <1>2, <1>5, <1>6, <1>7, <1>8 DEF SchemaInv, RowsSurvive
<1>10. ProgressOK(stage, db)
  <2>1. t \notin {"components", "versions"}
    BY DEF Rebuilt
  <2>2. r["components"] = work.rows["components"] /\ r["versions"] = work.rows["versions"]
    BY <1>6, <2>1 DEF Tables
  <2> QED
    BY <1>1, <1>7, <2>2 DEF SchemaInv, ProgressOK
<1>11. TransactionOK(stage, db, db)
  BY <1>1 DEF TransactionOK
<1>12. first.version \in Nat
  BY SchemaAssumption DEF SchemaInv, Databases
<1>13. VersionsOK(stage, db, db, first)
  BY <1>1, <1>2, <1>7, <1>12, SchemaAssumption DEF SchemaInv, VersionsOK
<1> QED
  BY <1>1, <1>4, <1>7, <1>8, <1>9, <1>10, <1>11, <1>13 DEF SchemaInv

LEMMA SchemaStepKeeps == SchemaInv /\ [SchemaNext]_schema => SchemaInv'
<1> SUFFICES ASSUME SchemaInv, [SchemaNext]_schema PROVE SchemaInv'
  OBVIOUS
<1>1. ASSUME NEW t \in Rebuilt,
             \/ AddKeyColumn(t) \/ BeginRebuild(t) \/ CopyRows(t)
             \/ DropTable(t) \/ RenameTable(t) \/ CommitRebuild(t)
      PROVE  SchemaInv'
  BY <1>1, AddKeyColumnKeeps, BeginRebuildKeeps, CopyRowsKeeps, DropTableKeeps, RenameTableKeeps, CommitRebuildKeeps
<1>2. ASSUME NEW t \in Rebuilt, NEW x \in TableRows, StoreRow(t, x) PROVE SchemaInv'
  BY <1>2, StoreRowKeeps
<1>3. CASE UNCHANGED schema
  BY <1>3 DEF schema, SchemaInv, RowsSurvive
<1> QED
  BY <1>1, <1>2, <1>3, CheckVersionKeeps, CreateTablesKeeps, LateStatementsKeep, StopOpeningKeeps DEF SchemaNext

(* Wherever Core ends while it opens a database, and however often, no     *)
(* stored row is lost, what was opened is complete, and a database of a    *)
(* later release is left alone (openDatabase).                             *)
THEOREM SchemaStaysSound == SchemaSpec => []SchemaSound
<1>1. SchemaSpec => []SchemaInv
  BY SchemaInitEstablishes, SchemaStepKeeps, PTL DEF SchemaSpec
<1> QED
  BY <1>1, SchemaInvHolds, PTL

------------------------------------------------------------------------------
(***************************************************************************)
(* Theorem about Packages: rows, directories and factories name one signed *)
(* release.  The strengthening adds that a row whose files are intact has  *)
(* its factory, that started Workers have rows, and that two installations *)
(* in use share a version only if one was moved to it.                     *)
(***************************************************************************)

InstallRows == [status : {"none", "installed", "disabled", "uninstalled"}, version : PackageVersions \cup {None},
                moved : BOOLEAN]

(* Directories, rows and factories: a row names the directory of a signed  *)
(* release, a factory the directory of its row, and a row whose files are  *)
(* intact has its factory.                                                 *)
FilesAgree(dir, row, fac) ==
  /\ dir \in [Releases -> {"none", "intact", "altered"}]
  /\ row \in [PackageVersions -> PackageDigests \cup {None}]
  /\ fac \in [PackageVersions -> PackageDigests \cup {None}]
  /\ \A v \in PackageVersions : fac[v] # None => fac[v] = row[v]
  /\ \A v \in PackageVersions : row[v] # None =>
       /\ ReleaseOf(v, row[v]) \in Releases /\ dir[ReleaseOf(v, row[v])] # "none"
       /\ dir[ReleaseOf(v, row[v])] = "intact" => fac[v] # None

TargetsAgree(row, goal) ==
  /\ goal \in [Installs -> PackageVersions \cup {None}]
  /\ \A i \in Installs : goal[i] # None => row[goal[i]] # None

InUse(e) == e.status \in {"installed", "disabled"}

InstallsAgree(rows) ==
  /\ rows \in [Installs -> InstallRows]
  /\ \A i \in Installs : rows[i].status # "none" => rows[i].version \in PackageVersions
  /\ \A i, j \in Installs : i # j /\ InUse(rows[i]) /\ InUse(rows[j]) /\ rows[i].version = rows[j].version
                            => rows[i].moved \/ rows[j].moved

PackagesInv ==
  FilesAgree(directory, package, factory) /\ TargetsAgree(package, target) /\ InstallsAgree(install)

LEMMA PackagesInvSplits ==
  /\ PackagesInv <=> /\ FilesAgree(directory, package, factory) /\ TargetsAgree(package, target)
                     /\ InstallsAgree(install)
  /\ PackagesInv' <=> /\ FilesAgree(directory', package', factory') /\ TargetsAgree(package', target')
                      /\ InstallsAgree(install')
BY DEF PackagesInv, FilesAgree, TargetsAgree, InstallsAgree, InUse, InstallRows

LEMMA ReleaseParts ==
  ASSUME NEW r \in Releases
  PROVE  /\ r.version \in PackageVersions /\ r.digest \in PackageDigests /\ ReleaseOf(r.version, r.digest) = r
         /\ r.version # None /\ r.digest # None
         /\ None \notin PackageVersions /\ None \notin PackageDigests
BY PackagesAssumption DEF PackageVersions, PackageDigests, ReleaseOf

LEMMA PackagesInvHolds == PackagesInv => PackagesSound
<1> SUFFICES ASSUME PackagesInv PROVE PackagesSound
  OBVIOUS
<1>1. PackagesTypeOK
  BY DEF PackagesInv, FilesAgree, TargetsAgree, InstallsAgree, InstallRows, PackagesTypeOK
<1>2. \A v \in PackageVersions : Intact(v) => factory[v] # None /\ factory[v] = package[v]
  BY DEF PackagesInv, FilesAgree, Intact
<1>3. \A i \in Installs : ServesUi(i) => factory[install[i].version] = package[install[i].version]
  BY <1>2 DEF PackagesInv, InstallsAgree, ServesUi
<1>4. WorkersFollowPackages
  BY <1>2, <1>3 DEF PackagesInv, FilesAgree, TargetsAgree, WorkersFollowPackages
<1>5. VersionsInstalledOnce
  BY DEF PackagesInv, InstallsAgree, InUse, VersionsInstalledOnce
<1> QED
  BY <1>1, <1>4, <1>5 DEF PackagesSound

LEMMA PackagesInitEstablishes == PackagesInit => PackagesInv
<1> SUFFICES ASSUME PackagesInit PROVE PackagesInv
  OBVIOUS
<1>1. FilesAgree(directory, package, factory) /\ TargetsAgree(package, target)
  BY DEF PackagesInit, FilesAgree, TargetsAgree
<1>2. InstallsAgree(install)
  BY DEF PackagesInit, InstallsAgree, InstallRows, NoInstall, InUse
<1> QED
  BY <1>1, <1>2 DEF PackagesInv

(* What a release without a row gets: its directory, and its row or not.   *)
LEMMA PutFiles ==
  ASSUME FilesAgree(directory, package, factory), NEW r \in Releases, Unknown(r), NEW dir, NEW row, NEW fac,
         dir = [directory EXCEPT ![r] = "intact"], directory[r] = "none",
         \/ /\ row = [package EXCEPT ![r.version] = r.digest]
            /\ fac = [factory EXCEPT ![r.version] = r.digest]
         \/ /\ row \in {package, [package EXCEPT ![r.version] = r.digest]}
            /\ fac = [v \in PackageVersions |->
                        IF row[v] # None /\ dir[ReleaseOf(v, row[v])] = "intact" THEN row[v] ELSE None]
  PROVE  FilesAgree(dir, row, fac) /\ \A v \in PackageVersions : package[v] # None => row[v] # None
<1>1. /\ r.version \in PackageVersions /\ r.digest \in PackageDigests /\ ReleaseOf(r.version, r.digest) = r
      /\ r.version # None /\ r.digest # None
  BY ReleaseParts
<1>2. package[r.version] = None /\ factory[r.version] = None
  BY <1>1 DEF Unknown, FilesAgree
<1>3. /\ dir \in [Releases -> {"none", "intact", "altered"}]
      /\ dir[r] = "intact" /\ \A q \in Releases : q # r => dir[q] = directory[q]
  BY DEF FilesAgree
<1>4. /\ row \in [PackageVersions -> PackageDigests \cup {None}]
      /\ \A v \in PackageVersions : \/ row[v] = package[v] /\ v # r.version
                                    \/ row[v] = package[v] /\ v = r.version /\ row[v] = None
                                    \/ v = r.version /\ row[v] = r.digest
  BY <1>1, <1>2 DEF FilesAgree
<1>5. ASSUME NEW v \in PackageVersions, row[v] # None
      PROVE  ReleaseOf(v, row[v]) \in Releases /\ dir[ReleaseOf(v, row[v])] # "none"
  <2>1. CASE v = r.version /\ row[v] = r.digest
    BY <1>1, <1>3, <2>1
  <2>2. CASE row[v] = package[v] /\ v # r.version
    <3>1. ReleaseOf(v, row[v]) \in Releases /\ directory[ReleaseOf(v, row[v])] # "none"
      BY <1>5, <2>2 DEF FilesAgree
    <3> QED
      BY <1>3, <3>1
  <2> QED
    BY <1>4, <1>5, <2>1, <2>2
<1>6. CASE row = [package EXCEPT ![r.version] = r.digest] /\ fac = [factory EXCEPT ![r.version] = r.digest]
  <2>1. fac \in [PackageVersions -> PackageDigests \cup {None}]
    BY <1>1, <1>6 DEF FilesAgree
  <2>2. \A v \in PackageVersions : fac[v] = (IF v = r.version THEN r.digest ELSE factory[v])
                                   /\ row[v] = (IF v = r.version THEN r.digest ELSE package[v])
    BY <1>6 DEF FilesAgree
  <2>3. \A v \in PackageVersions : fac[v] # None => fac[v] = row[v]
    BY <2>2 DEF FilesAgree
  <2>4. ASSUME NEW v \in PackageVersions, row[v] # None, dir[ReleaseOf(v, row[v])] = "intact"
        PROVE  fac[v] # None
    <3>1. CASE v = r.version
      BY <1>1, <2>2, <3>1
    <3>2. CASE v # r.version
      <4>1. row[v] = package[v] /\ ReleaseOf(v, row[v]) # r
        BY <2>2, <3>2 DEF ReleaseOf
      <4>2. directory[ReleaseOf(v, row[v])] = "intact"
        BY <1>3, <1>5, <2>4, <4>1
      <4> QED
        BY <2>2, <2>4, <3>2, <4>1, <4>2 DEF FilesAgree
    <3> QED
      BY <3>1, <3>2
  <2> QED
    BY <1>2, <1>3, <1>4, <1>5, <2>1, <2>2, <2>3, <2>4 DEF FilesAgree
<1>7. CASE fac = [v \in PackageVersions |->
                    IF row[v] # None /\ dir[ReleaseOf(v, row[v])] = "intact" THEN row[v] ELSE None]
  <2>1. fac \in [PackageVersions -> PackageDigests \cup {None}] /\ \A v \in PackageVersions : fac[v] # None => fac[v] = row[v]
    BY <1>4, <1>7
  <2>2. \A v \in PackageVersions : row[v] # None /\ dir[ReleaseOf(v, row[v])] = "intact" => fac[v] # None
    BY <1>7
  <2> QED
    BY <1>2, <1>3, <1>4, <1>5, <2>1, <2>2 DEF FilesAgree
<1> QED
  BY <1>6, <1>7

(* The factories of the rows whose files are intact, at a start. *)
LEMMA StartFiles ==
  ASSUME FilesAgree(directory, package, factory)
  PROVE  FilesAgree(directory, package, [v \in PackageVersions |-> IF Intact(v) THEN package[v] ELSE None])
<1> DEFINE fac == [v \in PackageVersions |-> IF Intact(v) THEN package[v] ELSE None]
<1>1. fac \in [PackageVersions -> PackageDigests \cup {None}] /\ \A v \in PackageVersions : fac[v] # None => fac[v] = package[v]
  BY DEF FilesAgree
<1>2. \A v \in PackageVersions : package[v] # None /\ directory[ReleaseOf(v, package[v])] = "intact" => fac[v] # None
  BY DEF Intact
<1>3. FilesAgree(directory, package, fac)
  <2> HIDE DEF fac
  <2> QED
    BY <1>1, <1>2 DEF FilesAgree
<1> QED
  BY <1>3

(* What an installation or an upgrade prepares has its row then. *)
LEMMA PreparedFiles ==
  ASSUME PackagesInv, NEW r \in Releases, Prepare(r)
  PROVE  /\ FilesAgree(directory', package', factory')
         /\ \A v \in PackageVersions : package[v] # None => package'[v] # None
         /\ package'[r.version] # None
<1>1. /\ r.version \in PackageVersions /\ r.digest \in PackageDigests /\ r.version # None /\ r.digest # None
  BY ReleaseParts
<1>2. FilesAgree(directory, package, factory)
  BY DEF PackagesInv
<1>3. CASE Unknown(r)
  <2>1. factory[r.version] = None
    BY <1>1, <1>2, <1>3 DEF Unknown, FilesAgree
  <2>2. /\ directory' = [directory EXCEPT ![r] = "intact"] /\ directory[r] = "none"
        /\ package' = [package EXCEPT ![r.version] = r.digest]
        /\ factory' = [factory EXCEPT ![r.version] = r.digest]
    BY <1>3, <2>1 DEF Prepare, PutPackage, InstallStagedPackage, RegisterPackage
  <2>3. package'[r.version] = r.digest
    BY <1>1, <1>2, <2>2 DEF FilesAgree
  <2>4. FilesAgree(directory', package', factory') /\ \A v \in PackageVersions : package[v] # None => package'[v] # None
    BY <1>2, <1>3, <2>2, PutFiles
  <2> QED
    BY <1>1, <2>3, <2>4
<1>4. CASE ~Unknown(r)
  <2>1. directory' = directory /\ package' = package /\ Intact(r.version) /\ factory' \in {factory, [factory EXCEPT ![r.version] = package[r.version]]}
    BY <1>4 DEF Prepare, Registered
  <2>2. \A v \in PackageVersions : factory'[v] = factory[v] \/ (v = r.version /\ factory'[v] = package[v])
    BY <1>2, <2>1 DEF FilesAgree
  <2>3. factory' \in [PackageVersions -> PackageDigests \cup {None}]
    BY <1>1, <1>2, <2>1 DEF FilesAgree
  <2>4. FilesAgree(directory, package, factory')
    BY <1>2, <2>2, <2>3 DEF FilesAgree
  <2> QED
    BY <2>1, <2>4 DEF Intact
<1> QED
  BY <1>3, <1>4

(* A row of an installation is written: a new one, one that was upgraded,  *)
(* or one whose status changed.                                            *)
LEMMA InstallRowKeeps ==
  ASSUME InstallsAgree(install), NEW i \in Installs, NEW e, e \in InstallRows, e.version \in PackageVersions,
         \/ e.moved
         \/ InUse(e) => /\ InUse(install[i]) /\ e.version = install[i].version /\ e.moved = install[i].moved
         \/ \A j \in Installs : install[j].version = e.version => install[j].status = "uninstalled"
  PROVE  InstallsAgree([install EXCEPT ![i] = e])
<1>1. PICK rows : rows = [install EXCEPT ![i] = e]
  OBVIOUS
<1>2. rows \in [Installs -> InstallRows] /\ \A j \in Installs : rows[j] = IF j = i THEN e ELSE install[j]
  BY <1>1 DEF InstallsAgree
<1>3. \A j \in Installs : rows[j].status # "none" => rows[j].version \in PackageVersions
  BY <1>2 DEF InstallsAgree
<1>4. ASSUME NEW j \in Installs, NEW k \in Installs, j # k, InUse(rows[j]), InUse(rows[k]),
             rows[j].version = rows[k].version
      PROVE  rows[j].moved \/ rows[k].moved
  <2>1. CASE j # i /\ k # i
    BY <1>2, <1>4, <2>1 DEF InstallsAgree
  <2>2. CASE e.moved
    BY <1>2, <1>4, <2>1, <2>2
  <2>3. ASSUME NEW m \in Installs, m # i, InUse(install[m]), install[m].version = e.version, InUse(e), ~e.moved
        PROVE  install[m].moved
    <3>1. install[m].status # "uninstalled"
      BY <2>3 DEF InUse
    <3>2. InUse(install[i]) /\ e.version = install[i].version /\ e.moved = install[i].moved
      BY <2>3, <3>1
    <3> QED
      BY <2>3, <3>2 DEF InstallsAgree
  <2> QED
    BY <1>2, <1>4, <2>1, <2>2, <2>3
<1>5. InstallsAgree(rows)
  BY <1>2, <1>3, <1>4 DEF InstallsAgree
<1> QED
  BY <1>1, <1>5

LEMMA InstallPluginRowKeeps ==
  ASSUME InstallsAgree(install), NEW i \in Installs, NEW v \in PackageVersions, InstallPluginRow(i, v)
  PROVE  InstallsAgree(install')
<1>1. PICK e : e = [NoInstall EXCEPT !.status = "installed", !.version = v] /\ install' = [install EXCEPT ![i] = e]
  BY DEF InstallPluginRow
<1>2. e = [status |-> "installed", version |-> v, moved |-> FALSE]
  BY <1>1 DEF NoInstall
<1>3. e \in InstallRows /\ e.version = v
  BY <1>2 DEF InstallRows
<1>4. \A j \in Installs : install[j].version = e.version => install[j].status = "uninstalled"
  BY <1>3 DEF InstallPluginRow
<1>5. InstallsAgree([install EXCEPT ![i] = e])
  BY <1>3, <1>4, InstallRowKeeps
<1> QED
  BY <1>1, <1>5

(* The targets of upgrades keep their rows as long as rows stay. *)
LEMMA TargetsKeep ==
  ASSUME TargetsAgree(package, target), NEW row, \A v \in PackageVersions : package[v] # None => row[v] # None
  PROVE  TargetsAgree(row, target)
BY DEF TargetsAgree

LEMMA InstallReleaseKeeps ==
  ASSUME PackagesInv, NEW i \in Installs, NEW r \in Releases, InstallRelease(i, r)
  PROVE  PackagesInv'
<1>1. Prepare(r) /\ InstallPluginRow(i, r.version) /\ target' = target /\ r.version \in PackageVersions
  BY ReleaseParts DEF InstallRelease
<1>2. FilesAgree(directory', package', factory') /\ TargetsAgree(package', target)
  BY <1>1, PreparedFiles, TargetsKeep DEF PackagesInv
<1>3. InstallsAgree(install')
  BY <1>1, InstallPluginRowKeeps DEF PackagesInv
<1> QED
  BY <1>1, <1>2, <1>3, PackagesInvSplits

LEMMA InstallBreaksKeeps == ASSUME PackagesInv, NEW r \in Releases, InstallBreaks(r) PROVE PackagesInv'
<1>1. /\ Unknown(r) /\ directory' = [directory EXCEPT ![r] = "intact"] /\ directory[r] = "none"
      /\ package' \in {package, [package EXCEPT ![r.version] = r.digest]}
      /\ factory' = [v \in PackageVersions |->
                       IF package'[v] # None /\ directory'[ReleaseOf(v, package'[v])] = "intact" THEN package'[v] ELSE None]
      /\ target' = [i \in Installs |-> None] /\ install' = install
  BY DEF InstallBreaks, InstallStagedPackage, RegisterPackage, Intact, ReleaseOf
<1>2. FilesAgree(directory', package', factory')
  BY <1>1, PutFiles DEF PackagesInv
<1>3. TargetsAgree(package', target')
  BY <1>1 DEF TargetsAgree
<1> QED
  BY <1>1, <1>2, <1>3, PackagesInvSplits

LEMMA PrepareUpgradeKeeps ==
  ASSUME PackagesInv, NEW i \in Installs, NEW r \in Releases, PrepareUpgrade(i, r)
  PROVE  PackagesInv'
<1>1. Prepare(r) /\ target' = [target EXCEPT ![i] = r.version] /\ install' = install /\ r.version \in PackageVersions
  BY ReleaseParts DEF PrepareUpgrade
<1>2. /\ FilesAgree(directory', package', factory') /\ package'[r.version] # None
      /\ TargetsAgree(package', target)
  BY <1>1, PreparedFiles, TargetsKeep DEF PackagesInv
<1>3. TargetsAgree(package', target')
  BY <1>1, <1>2 DEF TargetsAgree
<1> QED
  BY <1>1, <1>2, <1>3, PackagesInvSplits

LEMMA UpgradePluginKeeps == ASSUME PackagesInv, NEW i \in Installs, UpgradePlugin(i) PROVE PackagesInv'
<1>1. /\ target[i] \in PackageVersions /\ target' = [target EXCEPT ![i] = None]
      /\ directory' = directory /\ package' = package /\ factory' = factory
  BY DEF UpgradePlugin, PackagesInv, TargetsAgree
<1>2. TargetsAgree(package', target')
  BY <1>1 DEF PackagesInv, TargetsAgree
<1>3. InstallsAgree(install')
  <2>1. CASE install' = install
    BY <2>1 DEF PackagesInv
  <2>2. CASE install[i].status = "installed" /\ install' = [install EXCEPT ![i].version = target[i], ![i].moved = TRUE]
    <3>1. PICK e : e = [install[i] EXCEPT !.version = target[i], !.moved = TRUE]
      OBVIOUS
    <3>2. install[i] \in InstallRows /\ install \in [Installs -> InstallRows]
      BY DEF PackagesInv, InstallsAgree
    <3>3. e \in InstallRows /\ e.version \in PackageVersions /\ e.moved
      BY <1>1, <3>1, <3>2 DEF InstallRows
    <3>4. install' = [install EXCEPT ![i] = e]
      BY <2>2, <3>1, <3>2
    <3>5. InstallsAgree([install EXCEPT ![i] = e])
      BY <3>3, InstallRowKeeps DEF PackagesInv
    <3> QED
      BY <3>4, <3>5
  <2> QED
    BY <2>1, <2>2 DEF UpgradePlugin
<1> QED
  BY <1>1, <1>2, <1>3, PackagesInvSplits DEF PackagesInv

LEMMA ChangeInstallKeeps ==
  ASSUME PackagesInv, NEW i \in Installs, NEW from \in {"installed", "disabled"},
         NEW to \in {"installed", "disabled", "uninstalled"}, ChangeInstall(i, from, to)
  PROVE  PackagesInv'
<1>1. PICK e : e = [install[i] EXCEPT !.status = to] /\ install' = [install EXCEPT ![i] = e]
  BY DEF ChangeInstall
<1>2. install[i] \in InstallRows /\ InUse(install[i]) /\ install[i].version \in PackageVersions
  BY DEF ChangeInstall, PackagesInv, InstallsAgree, InUse
<1>3. e \in InstallRows /\ e.version = install[i].version /\ e.moved = install[i].moved
  BY <1>1, <1>2 DEF InstallRows
<1>4. InstallsAgree([install EXCEPT ![i] = e])
  BY <1>2, <1>3, InstallRowKeeps DEF PackagesInv
<1> QED
  BY <1>1, <1>4, PackagesInvSplits DEF ChangeInstall

LEMMA AlterPackageKeeps == ASSUME PackagesInv, NEW r \in Releases, AlterPackage(r) PROVE PackagesInv'
<1>1. directory' = [directory EXCEPT ![r] = "altered"] /\ UNCHANGED <<package, factory, install, target>>
  BY DEF AlterPackage
<1>2. \A q \in Releases : directory'[q] = directory[q] \/ (directory'[q] = "altered" /\ directory[q] # "none")
  BY <1>1 DEF PackagesInv, FilesAgree, AlterPackage
<1>3. FilesAgree(directory', package, factory)
  BY <1>1, <1>2 DEF PackagesInv, FilesAgree
<1> QED
  BY <1>1, <1>3, PackagesInvSplits

LEMMA BootPackagesKeeps == ASSUME PackagesInv, BootPackages PROVE PackagesInv'
<1>1. FilesAgree(directory', package', factory')
  BY StartFiles DEF BootPackages, PackagesInv
<1>2. TargetsAgree(package', target')
  BY DEF BootPackages, TargetsAgree
<1> QED
  BY <1>1, <1>2, PackagesInvSplits DEF BootPackages

LEMMA PackagesStepKeeps == PackagesInv /\ [PackagesNext]_packages => PackagesInv'
<1> SUFFICES ASSUME PackagesInv, [PackagesNext]_packages PROVE PackagesInv'
  OBVIOUS
<1>1. ASSUME NEW i \in Installs, NEW r \in Releases, InstallRelease(i, r) \/ PrepareUpgrade(i, r) PROVE PackagesInv'
  BY <1>1, InstallReleaseKeeps, PrepareUpgradeKeeps
<1>2. ASSUME NEW r \in Releases, InstallBreaks(r) \/ AlterPackage(r) PROVE PackagesInv'
  BY <1>2, InstallBreaksKeeps, AlterPackageKeeps
<1>3. ASSUME NEW i \in Installs, NEW v \in PackageVersions, InstallManifest(i, v) PROVE PackagesInv'
  BY <1>3, InstallPluginRowKeeps, PackagesInvSplits DEF InstallManifest
<1>4. ASSUME NEW i \in Installs, UpgradePlugin(i) PROVE PackagesInv'
  BY <1>4, UpgradePluginKeeps
<1>5. ASSUME NEW i \in Installs,
             \/ ChangeInstall(i, "installed", "disabled") \/ ChangeInstall(i, "disabled", "installed")
             \/ ChangeInstall(i, "disabled", "uninstalled")
      PROVE  PackagesInv'
  BY <1>5, ChangeInstallKeeps
<1>6. CASE UNCHANGED packages
  BY <1>6, PackagesInvSplits DEF packages
<1> QED
  BY <1>1, <1>2, <1>3, <1>4, <1>5, <1>6, BootPackagesKeeps DEF PackagesNext

(* Workers run from the directory of the row of their version, which is    *)
(* that of a signed release, and versions are installed once unless an     *)
(* upgrade brought them, also when Core ends in the middle                 *)
(* (PluginPackageInstaller, Repository, registerVerifiedPluginRuntime).    *)
THEOREM PackagesStaySound == PackagesSpec => []PackagesSound
<1>1. PackagesSpec => []PackagesInv
  BY PackagesInitEstablishes, PackagesStepKeeps, PTL DEF PackagesSpec
<1> QED
  BY <1>1, PackagesInvHolds, PTL

------------------------------------------------------------------------------
(***************************************************************************)
(* Theorem about Snapshots: snapshots and restores are whole, and the      *)
(* upgrade preflight vouches for a snapshot.  The strengthening: what a    *)
(* tool has copied and has left is what it set out to copy; Core's log is  *)
(* newer than the database beside it; and a copied log is newer than the   *)
(* copied database and not newer than what Core has committed since.  It   *)
(* holds because the database is copied before its log; in the other order *)
(* it fails.                                                               *)
(***************************************************************************)

(* The log is newer than the database beside it, and Core has written both.     *)
LogIsNewer ==
  /\ live[Database] # None /\ live[Database] <= newest
  /\ live[Wal] # None => live[Database] < live[Wal] /\ live[Wal] <= newest

(* A copy that has a log has the older database it was copied after, and what   *)
(* Core has committed since is not older than that log.                         *)
CopiedInOrder(tree) ==
  tree[Wal] # None =>
    /\ tree[Database] # None /\ tree[Database] < tree[Wal]
    /\ tree[Wal] <= Committed(live)

(* What a tool has copied and has left to copy is what it set out to copy.      *)
Halfway ==
  /\ Database \in Present(tool.was) /\ tool.left \subseteq Present(tool.was)
  /\ \A f \in Files : tool.temporary[f] # None <=> f \in Present(tool.was) \ tool.left
  /\ tool.quiet => \A f \in Files : tool.temporary[f] # None => tool.temporary[f] = tool.was[f]

BackingUp ==
  /\ tool.temporary[Database] # None => tool.temporary[Database] <= live[Database]
  /\ CopiedInOrder(tool.temporary)
  /\ tool.quiet => tool.was = live

Restoring ==
  tool.quiet /\ snapshot # None => \A f \in Present(tool.was) : snapshot.files[f] = tool.was[f]

ToolOK ==
  tool # NoTool => /\ Halfway
                   /\ tool.kind = "backup" => BackingUp
                   /\ tool.kind = "restore" => Restoring

ManifestInOrder == snapshot # None => CopiedInOrder(snapshot.manifest)

SnapshotsInv == SnapshotsSound /\ LogIsNewer /\ ToolOK /\ ManifestInOrder

(* The next conjuncts, as what a step has to preserve. *)
LEMMA SnapshotsInvParts ==
  SnapshotsInv <=> /\ SnapshotsTypeOK /\ SnapshotIsOneInstant /\ RestoredIsWhole /\ PreflightIsCurrent
                   /\ LogIsNewer /\ ToolOK /\ ManifestInOrder
BY DEF SnapshotsInv, SnapshotsSound

LEMMA SnapshotsInvParts2 ==
  SnapshotsInv' <=> /\ SnapshotsTypeOK' /\ SnapshotIsOneInstant' /\ RestoredIsWhole' /\ PreflightIsCurrent'
                    /\ LogIsNewer' /\ ToolOK' /\ ManifestInOrder'
BY DEF SnapshotsInv, SnapshotsSound

ToolRecords == [kind : {"backup", "restore"}, left : SUBSET Files, temporary : Directories,
                was : Directories, quiet : BOOLEAN]

SnapshotRecords == [files : Directories, manifest : Directories, was : Directories,
                    quiet : BOOLEAN, altered : BOOLEAN]

(* A tool that is at work has a record. *)
LEMMA AtWork ==
  ASSUME SnapshotsTypeOK, tool.kind \in {"backup", "restore"}
  PROVE  tool # NoTool /\ tool \in ToolRecords
BY DEF SnapshotsTypeOK, NoTool, ToolRecords

LEMMA SnapshotsInitEstablishes == SnapshotsInit => SnapshotsInv
<1> SUFFICES ASSUME SnapshotsInit PROVE SnapshotsInv
  OBVIOUS
<1>1. 1 \in FileContents
  BY SnapshotsAssumption DEF FileContents
<1>2. live \in Directories
  BY <1>1 DEF SnapshotsInit, Directories
<1>3. live[Database] = 1 /\ live[Wal] = None /\ None # 1
  BY SnapshotsAssumption DEF SnapshotsInit, Files, FileContents
<1>4. SnapshotsTypeOK
  BY <1>1, <1>2 DEF SnapshotsInit, SnapshotsTypeOK
<1>5. LogIsNewer
  BY <1>3 DEF SnapshotsInit, LogIsNewer
<1> QED
  BY <1>4, <1>5, SnapshotsInvParts DEF SnapshotsInit, SnapshotIsOneInstant, RestoredIsWhole, PreflightIsCurrent, ToolOK,
     ManifestInOrder

(* When Core writes, what it commits is not older than what it had committed,   *)
(* and its database is not older.                                               *)
LEMMA CoreWrites ==
  ASSUME SnapshotsInv, SnapshotsTypeOK', LogIsNewer',
         live[Database] <= live'[Database], Committed(live) <= Committed(live'),
         Disturbed, UNCHANGED <<snapshot, restored, cleared>>
  PROVE  SnapshotsInv'
<1>1. SnapshotsTypeOK /\ LogIsNewer /\ ToolOK /\ ManifestInOrder
  BY SnapshotsInvParts
<1>2. SnapshotIsOneInstant' /\ RestoredIsWhole' /\ PreflightIsCurrent'
  BY SnapshotsInvParts DEF SnapshotIsOneInstant, RestoredIsWhole, PreflightIsCurrent, Committed, Present
<1>3. \A x \in FileContents : x <= Committed(live) => x <= Committed(live')
  <2>1. Committed(live) \in Nat /\ Committed(live') \in Nat
    <3>1. Database \in Files /\ Wal \in Files /\ FileContents \subseteq Nat
      BY DEF Files, FileContents
    <3>2. live \in Directories /\ live' \in Directories
      BY <1>1 DEF SnapshotsTypeOK
    <3> QED
      BY <1>1, <3>1, <3>2 DEF Directories, Committed, LogIsNewer
  <2> QED
    BY <2>1 DEF FileContents
<1>4. \A tree \in Directories : CopiedInOrder(tree) => CopiedInOrder(tree)'
  <2> SUFFICES ASSUME NEW tree \in Directories, CopiedInOrder(tree), tree[Wal] # None
               PROVE  tree[Wal] <= Committed(live')
    BY DEF CopiedInOrder
  <2>1. tree[Wal] \in FileContents
    BY DEF Directories, Files
  <2> QED
    BY <1>3, <2>1 DEF CopiedInOrder
<1>5. ManifestInOrder'
  <2> SUFFICES ASSUME snapshot # None PROVE CopiedInOrder(snapshot.manifest)'
    BY DEF ManifestInOrder
  <2>1. snapshot.manifest \in Directories
    BY <1>1 DEF SnapshotsTypeOK
  <2> QED
    BY <1>1, <1>4, <2>1 DEF ManifestInOrder, CopiedInOrder
<1>6. ToolOK'
  <2> SUFFICES ASSUME tool' # NoTool PROVE ToolOK'
    BY DEF ToolOK
  <2>1. tool # NoTool /\ tool \in ToolRecords
    BY <1>1 DEF Disturbed, SnapshotsTypeOK, NoTool, ToolRecords
  <2>2. Halfway /\ (tool.kind = "backup" => BackingUp) /\ (tool.kind = "restore" => Restoring)
    BY <1>1, <2>1 DEF ToolOK
  <2>3. CASE tool.kind = "backup"
    <3>1. PICK t : t = [tool EXCEPT !.quiet = FALSE] /\ tool' = t
      BY <2>3 DEF Disturbed
    <3>2. t.kind = "backup" /\ ~t.quiet /\ t.was = tool.was /\ t.left = tool.left /\ t.temporary = tool.temporary
      BY <2>1, <2>3, <3>1 DEF ToolRecords
    <3>3. Halfway'
      BY <2>2, <3>1, <3>2 DEF Halfway, Present
    <3>4. tool.temporary \in Directories /\ tool.temporary[Database] \in FileContents \cup {None}
      BY <2>1 DEF ToolRecords, Directories, Files
    <3>5. BackingUp'
      <4>1. CopiedInOrder(tool.temporary)'
        BY <1>4, <2>2, <2>3, <3>4, <3>1, <3>2 DEF BackingUp, CopiedInOrder
      <4>2. t.temporary[Database] # None => t.temporary[Database] <= live'[Database]
        <5> SUFFICES ASSUME tool.temporary[Database] # None PROVE tool.temporary[Database] <= live'[Database]
          BY <3>2
        <5>1. tool.temporary[Database] \in Nat /\ tool.temporary[Database] <= live[Database]
          BY <2>2, <2>3, <3>4 DEF BackingUp, FileContents
        <5>2. live \in Directories /\ live' \in Directories /\ Database \in Files /\ live[Database] # None /\ live'[Database] # None
          BY <1>1 DEF SnapshotsTypeOK, LogIsNewer, Files
        <5>3. live[Database] \in Nat /\ live'[Database] \in Nat
          BY <5>2 DEF Directories, FileContents
        <5> QED
          BY <5>1, <5>3
      <4> QED
        BY <3>1, <3>2, <4>1, <4>2 DEF BackingUp, CopiedInOrder
    <3> QED
      BY <3>1, <3>2, <3>3, <3>5 DEF ToolOK
  <2>4. CASE tool.kind # "backup"
    <3>1. tool' = tool
      BY <2>4 DEF Disturbed
    <3> QED
      BY <2>1, <2>2, <2>4, <3>1 DEF ToolOK, Halfway, Present, Restoring
  <2> QED
    BY <2>3, <2>4
<1> QED
  BY <1>2, <1>5, <1>6, SnapshotsInvParts2

LEMMA DisturbedTyped ==
  ASSUME SnapshotsTypeOK, Disturbed
  PROVE  tool' = NoTool \/ tool' \in ToolRecords
BY DEF SnapshotsTypeOK, Disturbed, ToolRecords, NoTool

LEMMA CommitsKeeps ==
  ASSUME SnapshotsInv, NEW f \in Files \ {Database}, Commits(f)
  PROVE  SnapshotsInv'
<1>1. SnapshotsTypeOK /\ LogIsNewer
  BY SnapshotsInvParts
<1>2. /\ live \in [Files -> FileContents \cup {None}] /\ newest \in Nat /\ newest < MaxContent
      /\ Database \in Files /\ Wal \in Files /\ Database # Wal
  BY <1>1, SnapshotsAssumption DEF SnapshotsTypeOK, Directories, Files, Commits, FileContents
<1>3. PICK n : n = newest + 1 /\ newest' = n /\ live' = [live EXCEPT ![f] = n]
  BY DEF Commits
<1>4. n \in FileContents /\ n \in Nat /\ n # None
  BY <1>1, <1>2, <1>3, SnapshotsAssumption DEF SnapshotsTypeOK, FileContents
<1>5. live' \in Directories /\ live'[Database] = live[Database] /\ live'[Wal] = (IF f = Wal THEN n ELSE live[Wal])
  BY <1>2, <1>3, <1>4 DEF Directories
<1>6. SnapshotsTypeOK'
  BY <1>1, <1>3, <1>4, <1>5, DisturbedTyped DEF SnapshotsTypeOK, Commits, ToolRecords
<1>7. live[Database] \in Nat /\ (live[Wal] # None => live[Wal] \in Nat)
  BY <1>1, <1>2 DEF FileContents, LogIsNewer
<1>8. LogIsNewer'
  BY <1>1, <1>2, <1>3, <1>4, <1>5, <1>7 DEF LogIsNewer
<1>9. Committed(live) <= Committed(live') /\ live[Database] <= live'[Database]
  BY <1>1, <1>2, <1>3, <1>4, <1>5, <1>7 DEF LogIsNewer, Committed
<1> QED
  BY <1>6, <1>8, <1>9, CoreWrites DEF Commits

LEMMA CheckpointsKeeps ==
  ASSUME SnapshotsInv, NEW stop \in BOOLEAN, Checkpoints(stop)
  PROVE  SnapshotsInv'
<1>1. SnapshotsTypeOK /\ LogIsNewer
  BY SnapshotsInvParts
<1>2. /\ live \in [Files -> FileContents \cup {None}] /\ newest \in Nat
      /\ Database \in Files /\ Wal \in Files /\ Database # Wal
  BY <1>1, SnapshotsAssumption DEF SnapshotsTypeOK, Directories, Files, FileContents
<1>3. PICK n : n = Committed(live) /\ live' = [live EXCEPT ![Database] = n, ![Wal] = None] /\ newest' = newest
  BY DEF Checkpoints
<1>4. live[Database] \in Nat /\ (live[Wal] # None => live[Wal] \in Nat)
  BY <1>1, <1>2 DEF FileContents, LogIsNewer
<1>5. n \in FileContents /\ n \in Nat /\ n # None /\ n <= newest /\ live[Database] <= n
  BY <1>1, <1>2, <1>3, <1>4 DEF LogIsNewer, Committed, FileContents
<1>6. live' \in Directories /\ live'[Database] = n /\ live'[Wal] = None
  BY <1>2, <1>3, <1>5 DEF Directories
<1>7. coreUp' \in BOOLEAN
  BY DEF Checkpoints
<1>8. SnapshotsTypeOK'
  BY <1>1, <1>3, <1>6, <1>7, DisturbedTyped DEF SnapshotsTypeOK, Checkpoints, ToolRecords
<1>9. LogIsNewer'
  BY <1>2, <1>3, <1>5, <1>6 DEF LogIsNewer
<1>10. Committed(live) <= Committed(live') /\ live[Database] <= live'[Database]
  BY <1>3, <1>5, <1>6 DEF Committed
<1> QED
  BY <1>8, <1>9, <1>10, CoreWrites DEF Checkpoints

(* The tools leave Core alone: what does not depend on them stays. *)
LEMMA ToolsLeaveCore ==
  ASSUME SnapshotsInv, UNCHANGED <<live, newest>>
  PROVE  /\ LogIsNewer'
         /\ \A tree : CopiedInOrder(tree) => CopiedInOrder(tree)'
BY SnapshotsInvParts DEF LogIsNewer, CopiedInOrder, Committed

LEMMA BeginBackupKeeps ==
  ASSUME SnapshotsInv, BeginBackup
  PROVE  SnapshotsInv'
<1>1. SnapshotsTypeOK /\ LogIsNewer
  BY SnapshotsInvParts
<1>2. PICK t : t = [kind |-> "backup", left |-> Present(live), temporary |-> NoFiles, was |-> live, quiet |-> TRUE]
               /\ tool' = t
  BY DEF BeginBackup
<1>3. t \in ToolRecords
  BY <1>1, <1>2 DEF ToolRecords, SnapshotsTypeOK, Present, NoFiles, Directories
<1>4. Database \in Files /\ Wal \in Files /\ \A f \in Files : t.temporary[f] = None
  BY <1>2 DEF NoFiles, Files
<1>5. ToolOK'
  BY <1>1, <1>2, <1>4 DEF ToolOK, Halfway, BackingUp, CopiedInOrder, Present, LogIsNewer, BeginBackup
<1>6. SnapshotsTypeOK'
  BY <1>1, <1>2, <1>3 DEF SnapshotsTypeOK, BeginBackup, ToolRecords
<1> QED
  BY <1>5, <1>6, SnapshotsInvParts, SnapshotsInvParts2, ToolsLeaveCore
     DEF BeginBackup, SnapshotIsOneInstant, RestoredIsWhole, PreflightIsCurrent, ManifestInOrder

(* One more file has been copied. *)
LEMMA CopyKeeps ==
  ASSUME SnapshotsInv, tool \in ToolRecords, NEW f \in Files, NEW content \in FileContents, NextFile(f),
         tool' = [tool EXCEPT !.left = @ \ {f}, !.temporary[f] = content],
         tool.quiet => content = tool.was[f],
         tool.kind = "backup" => content = live[f],
         UNCHANGED <<live, coreUp, newest, snapshot, restored, cleared>>
  PROVE  SnapshotsInv'
<1>1. SnapshotsTypeOK /\ LogIsNewer /\ ToolOK
  BY SnapshotsInvParts
<1>2. tool # NoTool /\ tool.kind \in {"backup", "restore"}
  BY DEF ToolRecords, NoTool
<1>3. Halfway /\ (tool.kind = "backup" => BackingUp) /\ (tool.kind = "restore" => Restoring)
  BY <1>1, <1>2 DEF ToolOK
<1>4. PICK left : left = tool.left \ {f}
  OBVIOUS
<1>5. PICK temporary : temporary = [tool.temporary EXCEPT ![f] = content]
  OBVIOUS
<1>6. PICK t : t = [tool EXCEPT !.left = left, !.temporary = temporary] /\ tool' = t
  BY <1>4, <1>5 DEF ToolRecords
<1>7. left \subseteq Files /\ temporary \in Directories
  BY <1>4, <1>5 DEF ToolRecords, Directories
<1>8. /\ t.left = left /\ t.temporary = temporary /\ t.was = tool.was /\ t.quiet = tool.quiet /\ t.kind = tool.kind
      /\ t \in ToolRecords
  BY <1>6, <1>7 DEF ToolRecords
<1>9. content # None /\ content \in Nat
  BY SnapshotsAssumption DEF FileContents
<1>10. \A g \in Files : temporary[g] = IF g = f THEN content ELSE tool.temporary[g]
  BY <1>5 DEF ToolRecords, Directories
<1>11. f \in tool.left /\ (f # Database => Database \notin tool.left)
  BY DEF NextFile
<1>12. Database \in Files /\ Wal \in Files /\ Database # Wal
  BY SnapshotsAssumption DEF Files
<1>13. Halfway'
  <2>1. f \in Present(tool.was)
    BY <1>3, <1>11 DEF Halfway
  <2>2. \A g \in Files : temporary[g] # None <=> g \in Present(tool.was) \ left
    BY <1>3, <1>4, <1>9, <1>10, <2>1 DEF Halfway
  <2>3. tool.quiet => \A g \in Files : temporary[g] # None => temporary[g] = tool.was[g]
    BY <1>3, <1>10 DEF Halfway
  <2>4. left \subseteq Present(tool.was)
    BY <1>3, <1>4 DEF Halfway
  <2>5. tool'.temporary = temporary /\ tool'.left = left /\ tool'.was = tool.was /\ tool'.quiet = tool.quiet
    BY <1>6, <1>8
  <2>6. Database \in Present(tool.was)
    BY <1>3 DEF Halfway
  <2> QED
    BY <2>2, <2>3, <2>4, <2>5, <2>6 DEF Halfway, Present
<1>14. ASSUME tool.kind = "backup" PROVE BackingUp'
  <2>1. BackingUp /\ content = live[f]
    BY <1>3, <1>14
  <2>2. /\ live[Database] \in Nat /\ live[Database] # None
        /\ live[Wal] # None => live[Wal] \in Nat /\ live[Database] < live[Wal] /\ Committed(live) = live[Wal]
    BY <1>1, <1>12 DEF SnapshotsTypeOK, Directories, FileContents, LogIsNewer, Committed
  <2>3. temporary[Database] # None => temporary[Database] <= live[Database]
    BY <1>10, <1>12, <2>1, <2>2 DEF BackingUp
  <2>4. CASE f = Wal
    <3>1. Database \notin tool.left /\ Database \in Present(tool.was)
      BY <1>3, <1>11, <1>12, <2>4 DEF Halfway
    <3>2. tool.temporary[Database] # None
      BY <1>3, <1>12, <3>1 DEF Halfway
    <3>3. temporary[Database] = tool.temporary[Database] /\ temporary[Database] \in Nat
      BY <1>7, <1>10, <1>12, <2>4, <3>2 DEF Directories, FileContents
    <3>4. temporary[Wal] = live[Wal] /\ live[Wal] # None
      BY <1>9, <1>10, <1>12, <2>1, <2>4
    <3>5. CopiedInOrder(temporary)
      BY <2>2, <2>3, <3>2, <3>3, <3>4 DEF CopiedInOrder
    <3> QED
      BY <1>6, <1>8, <2>1, <2>3, <3>5 DEF BackingUp, CopiedInOrder, Committed
  <2>5. CASE f # Wal
    <3>1. CopiedInOrder(tool.temporary) /\ temporary[Wal] = tool.temporary[Wal]
      BY <1>10, <1>12, <2>1, <2>5 DEF BackingUp
    <3>2. temporary[Wal] # None => temporary[Database] = tool.temporary[Database]
      <4> SUFFICES ASSUME temporary[Wal] # None, f = Database PROVE FALSE
        BY <1>10, <1>12
      <4>1. tool.temporary[Database] # None
        BY <3>1 DEF CopiedInOrder
      <4> QED
        BY <1>3, <1>11, <1>12, <4>1 DEF Halfway
    <3>3. CopiedInOrder(temporary)
      BY <3>1, <3>2 DEF CopiedInOrder
    <3> QED
      BY <1>6, <1>8, <2>1, <2>3, <3>3 DEF BackingUp, CopiedInOrder, Committed
  <2> QED
    BY <2>4, <2>5
<1>15. ASSUME tool.kind = "restore" PROVE Restoring'
  BY <1>3, <1>6, <1>8, <1>15 DEF Restoring, Present
<1>16. ToolOK'
  BY <1>6, <1>8, <1>13, <1>14, <1>15 DEF ToolOK
<1>17. SnapshotsTypeOK'
  BY <1>1, <1>6, <1>8 DEF SnapshotsTypeOK, ToolRecords
<1> QED
  BY <1>16, <1>17, SnapshotsInvParts, SnapshotsInvParts2, ToolsLeaveCore
     DEF SnapshotIsOneInstant, RestoredIsWhole, PreflightIsCurrent, ManifestInOrder

(* A tool that ends, whatever it leaves behind. *)
LEMMA EndsKeeps ==
  ASSUME SnapshotsInv, tool' = NoTool, UNCHANGED <<live, coreUp, newest, snapshot, restored, cleared>>
  PROVE  SnapshotsInv'
<1>1. SnapshotsTypeOK /\ SnapshotsTypeOK' /\ ToolOK'
  BY SnapshotsInvParts DEF SnapshotsTypeOK, ToolOK
<1> QED
  BY <1>1, SnapshotsInvParts, SnapshotsInvParts2, ToolsLeaveCore
     DEF SnapshotIsOneInstant, RestoredIsWhole, PreflightIsCurrent, ManifestInOrder

LEMMA CopyInKeeps ==
  ASSUME SnapshotsInv, NEW f \in Files, CopyIn(f)
  PROVE  SnapshotsInv'
<1>1. SnapshotsTypeOK /\ ToolOK
  BY SnapshotsInvParts
<1>2. tool # NoTool /\ tool \in ToolRecords /\ tool.kind = "backup"
  BY <1>1, AtWork DEF CopyIn
<1>3. Halfway /\ BackingUp
  BY <1>1, <1>2 DEF ToolOK
<1>4. CASE live[f] = None
  BY <1>4, EndsKeeps DEF CopyIn
<1>5. CASE live[f] # None
  <2>1. PICK content : content = live[f]
    OBVIOUS
  <2>2. content \in FileContents
    BY <1>1, <1>5, <2>1 DEF SnapshotsTypeOK, Directories
  <2>3. tool' = [tool EXCEPT !.left = @ \ {f}, !.temporary[f] = content]
    BY <1>5, <2>1 DEF CopyIn
  <2>4. tool.quiet => content = tool.was[f]
    BY <1>3, <2>1 DEF BackingUp
  <2> QED
    BY <1>2, <2>1, <2>2, <2>3, <2>4, CopyKeeps DEF CopyIn
<1> QED
  BY <1>4, <1>5

LEMMA CopyOutKeeps ==
  ASSUME SnapshotsInv, NEW f \in Files, CopyOut(f)
  PROVE  SnapshotsInv'
<1>1. SnapshotsTypeOK /\ ToolOK
  BY SnapshotsInvParts
<1>2. tool # NoTool /\ tool \in ToolRecords /\ tool.kind = "restore"
  BY <1>1, AtWork DEF CopyOut
<1>3. Halfway /\ Restoring
  BY <1>1, <1>2 DEF ToolOK
<1>4. CASE tool' = NoTool
  BY <1>4, EndsKeeps DEF CopyOut
<1>5. CASE snapshot # None /\ snapshot.files[f] # None
  <2>1. PICK content : content = snapshot.files[f]
    OBVIOUS
  <2>2. content \in FileContents
    <3>1. snapshot.files \in Directories
      BY <1>1, <1>5 DEF SnapshotsTypeOK
    <3> QED
      BY <1>5, <2>1, <3>1 DEF Directories
  <2>3. tool' = [tool EXCEPT !.left = @ \ {f}, !.temporary[f] = content]
    BY <1>5, <2>1 DEF CopyOut
  <2>4. tool.quiet => content = tool.was[f]
    BY <1>3, <1>5, <2>1 DEF Restoring, Halfway, CopyOut, NextFile
  <2> QED
    BY <1>2, <2>1, <2>2, <2>3, <2>4, CopyKeeps DEF CopyOut
<1> QED
  BY <1>4, <1>5 DEF CopyOut

(* The copies of a tool that has nothing left to copy. *)
LEMMA NothingLeft ==
  ASSUME SnapshotsTypeOK, ToolOK, tool.kind \in {"backup", "restore"}, tool.left = {}
  PROVE  /\ tool \in ToolRecords /\ Halfway
         /\ Present(tool.temporary) = Present(tool.was)
         /\ tool.quiet => tool.temporary = tool.was
<1>1. tool \in ToolRecords /\ Halfway
  BY AtWork DEF ToolOK
<1>2. Present(tool.temporary) = Present(tool.was)
  BY <1>1 DEF Halfway, Present
<1>3. ASSUME tool.quiet PROVE tool.temporary = tool.was
  <2>1. \A f \in Files : tool.temporary[f] = tool.was[f]
    BY <1>1, <1>3 DEF Halfway, Present
  <2>2. tool.temporary \in Directories /\ tool.was \in Directories
    BY <1>1 DEF ToolRecords
  <2> QED
    BY <2>1, <2>2 DEF Directories
<1> QED
  BY <1>1, <1>2, <1>3

LEMMA PublishKeeps ==
  ASSUME SnapshotsInv, Publish
  PROVE  SnapshotsInv'
<1>1. SnapshotsTypeOK /\ ToolOK
  BY SnapshotsInvParts
<1>2. tool \in ToolRecords /\ (tool.quiet => tool.temporary = tool.was)
  BY <1>1, NothingLeft DEF Publish
<1>3. BackingUp
  BY <1>1, AtWork DEF ToolOK, Publish
<1>4. PICK s : s = [files |-> tool.temporary, manifest |-> tool.temporary, was |-> tool.was, quiet |-> tool.quiet, altered |-> FALSE]
               /\ snapshot' = s
  BY DEF Publish
<1>5. s \in SnapshotRecords
  BY <1>2, <1>4 DEF ToolRecords, SnapshotRecords
<1>6. SnapshotsTypeOK' /\ ToolOK'
  BY <1>1, <1>4, <1>5 DEF SnapshotsTypeOK, Publish, ToolOK, SnapshotRecords
<1>7. SnapshotIsOneInstant'
  BY <1>2, <1>4 DEF SnapshotIsOneInstant
<1>8. s.manifest = tool.temporary
  BY <1>4
<1>9. ManifestInOrder'
  BY <1>3, <1>4, <1>8 DEF ManifestInOrder, BackingUp, CopiedInOrder, Committed, Publish
<1> QED
  BY <1>6, <1>7, <1>9, SnapshotsInvParts, SnapshotsInvParts2, ToolsLeaveCore
     DEF Publish, RestoredIsWhole, PreflightIsCurrent

LEMMA TamperedKeeps ==
  ASSUME SnapshotsInv, NEW f \in Files, NEW content \in FileContents \cup {None}, Tampered(f, content)
  PROVE  SnapshotsInv'
<1>1. SnapshotsTypeOK /\ ToolOK /\ SnapshotIsOneInstant /\ ManifestInOrder
  BY SnapshotsInvParts
<1>2. snapshot \in SnapshotRecords
  BY <1>1 DEF SnapshotsTypeOK, SnapshotRecords, Tampered
<1>3. PICK tree : tree = [snapshot.files EXCEPT ![f] = content]
  OBVIOUS
<1>4. PICK s : s = [snapshot EXCEPT !.files = tree, !.altered = TRUE] /\ snapshot' = s
  BY <1>2, <1>3 DEF Tampered, SnapshotRecords
<1>5. tree \in Directories
  BY <1>2, <1>3 DEF SnapshotRecords, Directories
<1>6. s \in SnapshotRecords /\ s.manifest = snapshot.manifest /\ s.was = snapshot.was /\ s.quiet = snapshot.quiet
  BY <1>2, <1>4, <1>5 DEF SnapshotRecords
<1>7. SnapshotIsOneInstant' /\ ManifestInOrder'
  BY <1>1, <1>4, <1>6 DEF SnapshotIsOneInstant, ManifestInOrder, CopiedInOrder, Committed, Tampered
<1>8. tool' = NoTool \/ tool' \in ToolRecords
  BY <1>1 DEF SnapshotsTypeOK, Tampered, NoTool, ToolRecords
<1>9. SnapshotsTypeOK'
  BY <1>1, <1>4, <1>6, <1>8 DEF SnapshotsTypeOK, Tampered, SnapshotRecords, ToolRecords
<1>10. ToolOK'
  <2> SUFFICES ASSUME tool' # NoTool PROVE ToolOK'
    BY DEF ToolOK
  <2>1. tool # NoTool /\ tool \in ToolRecords
    BY <1>1 DEF Tampered, SnapshotsTypeOK, NoTool, ToolRecords
  <2>2. Halfway /\ (tool.kind = "backup" => BackingUp)
    BY <1>1, <2>1 DEF ToolOK
  <2>3. CASE tool.kind = "restore"
    <3>1. PICK t : t = [tool EXCEPT !.quiet = FALSE] /\ tool' = t
      BY <2>3 DEF Tampered
    <3>2. t.kind = "restore" /\ ~t.quiet /\ t.was = tool.was /\ t.left = tool.left /\ t.temporary = tool.temporary
      BY <2>1, <2>3, <3>1 DEF ToolRecords
    <3> QED
      BY <2>2, <3>1, <3>2 DEF ToolOK, Halfway, Present, Restoring
  <2>4. CASE tool.kind # "restore"
    <3>1. tool' = tool /\ live' = live
      BY <2>4 DEF Tampered
    <3> QED
      BY <2>2, <2>4, <3>1 DEF ToolOK, Halfway, Present, BackingUp, CopiedInOrder, Committed
  <2> QED
    BY <2>3, <2>4
<1> QED
  BY <1>7, <1>9, <1>10, SnapshotsInvParts, SnapshotsInvParts2, ToolsLeaveCore
     DEF Tampered, RestoredIsWhole, PreflightIsCurrent

LEMMA SnapshotDeletedKeeps ==
  ASSUME SnapshotsInv, SnapshotDeleted
  PROVE  SnapshotsInv'
<1>1. SnapshotsTypeOK /\ SnapshotsTypeOK' /\ ToolOK
  BY SnapshotsInvParts DEF SnapshotsTypeOK, SnapshotDeleted
<1>2. ToolOK'
  BY <1>1 DEF ToolOK, Halfway, Present, BackingUp, CopiedInOrder, Committed, Restoring, SnapshotDeleted
<1> QED
  BY <1>1, <1>2, SnapshotsInvParts, SnapshotsInvParts2, ToolsLeaveCore
     DEF SnapshotDeleted, SnapshotIsOneInstant, RestoredIsWhole, PreflightIsCurrent, ManifestInOrder

LEMMA BeginRestoreKeeps ==
  ASSUME SnapshotsInv, BeginRestore
  PROVE  SnapshotsInv'
<1>1. SnapshotsTypeOK /\ Verified
  BY SnapshotsInvParts DEF BeginRestore
<1>2. snapshot \in SnapshotRecords
  BY <1>1 DEF SnapshotsTypeOK, SnapshotRecords, Verified
<1>3. PICK t : t = [kind |-> "restore", left |-> Present(snapshot.manifest), temporary |-> NoFiles,
                    was |-> snapshot.manifest, quiet |-> TRUE]
               /\ tool' = t
  BY DEF BeginRestore
<1>4. t \in ToolRecords
  BY <1>2, <1>3 DEF ToolRecords, SnapshotRecords, Present, NoFiles, Directories
<1>5. \A f \in Files : t.temporary[f] = None
  BY <1>3 DEF NoFiles
<1>6. ToolOK'
  BY <1>1, <1>3, <1>5 DEF ToolOK, Halfway, Restoring, Present, Verified, BeginRestore
<1>7. SnapshotsTypeOK'
  BY <1>1, <1>3, <1>4 DEF SnapshotsTypeOK, BeginRestore, ToolRecords
<1> QED
  BY <1>6, <1>7, SnapshotsInvParts, SnapshotsInvParts2, ToolsLeaveCore
     DEF BeginRestore, SnapshotIsOneInstant, RestoredIsWhole, PreflightIsCurrent, ManifestInOrder

LEMMA PlaceRestoredKeeps ==
  ASSUME SnapshotsInv, PlaceRestored
  PROVE  SnapshotsInv'
<1>1. SnapshotsTypeOK /\ ToolOK
  BY SnapshotsInvParts
<1>2. /\ tool \in ToolRecords /\ Halfway /\ Present(tool.temporary) = Present(tool.was)
      /\ tool.quiet => tool.temporary = tool.was
  BY <1>1, NothingLeft DEF PlaceRestored
<1>3. PICK r : r = [files |-> tool.temporary, was |-> tool.was, quiet |-> tool.quiet] /\ restored' = r
  BY DEF PlaceRestored
<1>4. r \in [files : Directories, was : Directories, quiet : BOOLEAN]
  BY <1>2, <1>3 DEF ToolRecords
<1>5. SnapshotsTypeOK' /\ ToolOK'
  BY <1>1, <1>3, <1>4 DEF SnapshotsTypeOK, PlaceRestored, ToolOK
<1>6. RestoredIsWhole'
  BY <1>2, <1>3 DEF RestoredIsWhole, Present, Halfway
<1> QED
  BY <1>5, <1>6, SnapshotsInvParts, SnapshotsInvParts2, ToolsLeaveCore
     DEF PlaceRestored, SnapshotIsOneInstant, PreflightIsCurrent, ManifestInOrder

(* The database of the manifest is the one of the data directory: had the       *)
(* manifest a log too, what Core has committed would be newer than both.        *)
LEMMA PreflightKeeps ==
  ASSUME SnapshotsInv, Preflight
  PROVE  SnapshotsInv'
<1>1. SnapshotsTypeOK /\ ToolOK /\ ManifestInOrder /\ LogIsNewer
  BY SnapshotsInvParts
<1>2. snapshot # None /\ snapshot \in SnapshotRecords /\ snapshot.manifest \in Directories /\ live \in Directories
  BY <1>1 DEF SnapshotsTypeOK, SnapshotRecords, Preflight, Verified
<1>3. PICK c : c = [data |-> live, snapshot |-> snapshot.manifest] /\ cleared' = c
  BY DEF Preflight
<1>4. c \in [data : Directories, snapshot : Directories] /\ c.data = live /\ c.snapshot = snapshot.manifest
  BY <1>2, <1>3
<1>5. ASSUME live[Wal] = None PROVE Committed(snapshot.manifest) = Committed(live)
  <2>1. CopiedInOrder(snapshot.manifest) /\ live[Database] = snapshot.manifest[Database]
    BY <1>1, <1>2 DEF ManifestInOrder, Preflight
  <2>2. /\ live[Database] \in Nat /\ Committed(live) = live[Database]
        /\ snapshot.manifest[Wal] # None => snapshot.manifest[Wal] \in Nat
    BY <1>1, <1>2, <1>5 DEF Directories, FileContents, Files, LogIsNewer, Committed
  <2>3. snapshot.manifest[Wal] = None
    BY <2>1, <2>2 DEF CopiedInOrder
  <2> QED
    BY <2>1, <2>2, <2>3 DEF Committed
<1>6. PreflightIsCurrent'
  BY <1>3, <1>4, <1>5 DEF PreflightIsCurrent, Committed
<1>7. SnapshotsTypeOK'
  BY <1>1, <1>3, <1>4 DEF SnapshotsTypeOK, Preflight
<1>8. ToolOK'
  BY <1>1 DEF ToolOK, Halfway, Present, BackingUp, CopiedInOrder, Committed, Restoring, Preflight
<1> QED
  BY <1>6, <1>7, <1>8, SnapshotsInvParts, SnapshotsInvParts2, ToolsLeaveCore
     DEF Preflight, SnapshotIsOneInstant, RestoredIsWhole, ManifestInOrder

LEMMA CoreTurnsKeeps ==
  ASSUME SnapshotsInv, CoreStarts \/ CoreIsKilled \/ UNCHANGED snapshots
  PROVE  SnapshotsInv'
<1>1. /\ coreUp' \in BOOLEAN
      /\ UNCHANGED <<live, newest, snapshot, restored, tool, cleared>>
  BY SnapshotsInvParts DEF CoreStarts, CoreIsKilled, snapshots, SnapshotsTypeOK
<1>2. SnapshotsTypeOK' /\ ToolOK'
  BY <1>1, SnapshotsInvParts
     DEF SnapshotsTypeOK, ToolOK, Halfway, Present, BackingUp, CopiedInOrder, Committed, Restoring
<1> QED
  BY <1>1, <1>2, SnapshotsInvParts, SnapshotsInvParts2, ToolsLeaveCore
     DEF SnapshotIsOneInstant, RestoredIsWhole, PreflightIsCurrent, ManifestInOrder

LEMMA SnapshotsInductive == SnapshotsInv /\ [SnapshotsNext]_snapshots => SnapshotsInv'
<1> SUFFICES ASSUME SnapshotsInv, [SnapshotsNext]_snapshots PROVE SnapshotsInv'
  OBVIOUS
<1>1. CASE CoreStarts \/ CoreIsKilled \/ UNCHANGED snapshots
  BY <1>1, CoreTurnsKeeps
<1>2. ASSUME NEW f \in Files \ {Database}, Commits(f) PROVE SnapshotsInv'
  BY <1>2, CommitsKeeps
<1>3. ASSUME NEW stop \in BOOLEAN, Checkpoints(stop) PROVE SnapshotsInv'
  BY <1>3, CheckpointsKeeps
<1>4. CASE BeginBackup
  BY <1>4, BeginBackupKeeps
<1>5. CASE Publish
  BY <1>5, PublishKeeps
<1>6. CASE ToolDies
  BY <1>6, EndsKeeps DEF ToolDies
<1>7. CASE SnapshotDeleted
  BY <1>7, SnapshotDeletedKeeps
<1>8. ASSUME NEW f \in Files, CopyIn(f) PROVE SnapshotsInv'
  BY <1>8, CopyInKeeps
<1>9. ASSUME NEW f \in Files, CopyOut(f) PROVE SnapshotsInv'
  BY <1>9, CopyOutKeeps
<1>10. ASSUME NEW f \in Files, NEW content \in FileContents \cup {None}, Tampered(f, content) PROVE SnapshotsInv'
  BY <1>10, TamperedKeeps
<1>11. CASE BeginRestore
  BY <1>11, BeginRestoreKeeps
<1>12. CASE PlaceRestored
  BY <1>12, PlaceRestoredKeeps
<1>13. CASE Preflight
  BY <1>13, PreflightKeeps
<1> QED
  BY <1>1, <1>2, <1>3, <1>4, <1>5, <1>6, <1>7, <1>8, <1>9, <1>10, <1>11, <1>12, <1>13 DEF SnapshotsNext

(***************************************************************************)
(* A published snapshot that Core did not write under is one instant of    *)
(* the data directory, a restored directory is never partial, and a        *)
(* snapshot that passed the preflight of a closed Core has its committed   *)
(* data, whatever dies and whenever Core runs beside the tools             *)
(* (createBackupSnapshot, restoreBackupSnapshot, checkUpgradePreflight).   *)
(***************************************************************************)
THEOREM SnapshotsStaySound == SnapshotsSpec => []SnapshotsSound
<1>1. SnapshotsInv => SnapshotsSound
  BY DEF SnapshotsInv
<1> QED
  BY <1>1, SnapshotsInitEstablishes, SnapshotsInductive, PTL DEF SnapshotsSpec

------------------------------------------------------------------------------
(***************************************************************************)
(* Theorem about NativeInstall: report, compensation and the order of the  *)
(* stages.  The strengthening: the stages made are among those applied and *)
(* not undone, and are all of them but those that somebody else changed;   *)
(* applied stages come before the current one; and as long as the          *)
(* execution goes on, every earlier stage is in place or was changed by    *)
(* somebody else.                                                          *)
(***************************************************************************)

Entries == [stage : StageNumbers, applied : BOOLEAN]

ExecutionRecords ==
  [phase : {"stage", "run", "undo", "ended"}, at : StageNumbers,
   ledger : Seq(Entries),
   undo : {"off", "handler", "no_handler"}, undone : Seq(StageNumbers),
   outcome : Outcomes \cup {None}]

(* The stages a ledger reports as applied, and those not undone yet. *)
Applied(ledger) == {entry.stage : entry \in {e \in ToSet(ledger) : e.applied}}

Undoable(x) == Applied(x.ledger) \ ToSet(x.undone)

(* What the report of execution x, the host h, the stages m that it made and    *)
(* the stages t that somebody else changed say of one another.                  *)
Truthful(m, t, x) == m \subseteq Undoable(x) /\ Undoable(x) \ t \subseteq m

UndoneLastFirst(m, x) ==
  /\ \A i \in ToSet(x.undone), k \in Undoable(x) : k < i
  /\ x.outcome = "undone" => m = {}

(* Before it ends, it has applied only earlier stages, and while it goes on     *)
(* every earlier stage is in place.                                             *)
InOrder(h, t, x) ==
  /\ x.phase # "ended" => x.outcome = None /\ \A i \in Applied(x.ledger) : i < x.at
  /\ x.phase \in {"stage", "run"} =>
        /\ x.undone = <<>>
        /\ \A i \in StageNumbers \ t : i < x.at => h[i] = "matching"

StartedLast(h, m, t) == Stages \in m => \A i \in StageNumbers \ t : h[i] = "matching"

ExecutionOK(h, m, t, x) ==
  /\ x \in ExecutionRecords
  /\ Truthful(m, t, x) /\ UndoneLastFirst(m, x) /\ InOrder(h, t, x) /\ StartedLast(h, m, t)

HostOK(h, m, t) == h \in [StageNumbers -> States] /\ m \subseteq StageNumbers /\ t \subseteq StageNumbers

InstallInv ==
  /\ HostOK(host, made, touched)
  /\ execution # NotInstalling => ExecutionOK(host, made, touched, execution)

LEMMA ToUndoIsUndoable == ToUndo = Undoable(execution)
BY DEF ToUndo, Undoable, AppliedStages, Applied

LEMMA InstallInvHolds == InstallInv => InstallSound
BY ToUndoIsUndoable
   DEF InstallInv, HostOK, ExecutionOK, ExecutionRecords, Entries, Truthful, UndoneLastFirst, InOrder, StartedLast,
       InstallSound, InstallTypeOK, LedgerIsTrue, ServiceStartsLast, UndoneInReverse

(* Before an execution and after it, the phase says which. *)
LEMMA Executing ==
  ASSUME InstallInv, execution.phase \in {"stage", "run", "undo"}
  PROVE  /\ execution # NotInstalling /\ execution \in ExecutionRecords
         /\ ExecutionOK(host, made, touched, execution)
BY DEF InstallInv, NotInstalling, ExecutionOK

Below == {p \in Nat \X Nat : p[1] < p[2]}

LEMMA BelowIsWellFounded == IsWellFoundedOn(Below, Nat)
<1>1. Below = OpToRel(<, Nat)
  BY DEF Below, OpToRel
<1> QED
  BY <1>1, NatLessThanWellFounded

(* There is a last stage to undo as long as there is one. *)
LEMMA LastStageExists ==
  ASSUME NEW S \in SUBSET StageNumbers, S # {}
  PROVE  LastStage(S) \in S /\ \A k \in S : k <= LastStage(S)
<1> DEFINE T == {Stages - i : i \in S}
<1>1. T \subseteq Nat /\ T # {}
  <2>1. \A i \in S : Stages - i \in Nat
    BY StagesAssumption DEF StageNumbers
  <2> QED
    BY <2>1
<1>2. PICK x \in T : \A y \in T : <<y, x>> \notin Below
  <2> HIDE DEF T
  <2> QED
    BY <1>1, WFMin, BelowIsWellFounded
<1>3. PICK i \in S : x = Stages - i
  OBVIOUS
<1>4. \A k \in S : k <= i
  <2> SUFFICES ASSUME NEW k \in S PROVE k <= i
    OBVIOUS
  <2>1. <<Stages - k, x>> \notin Below
    BY <1>2
  <2>2. Stages - k \in Nat /\ x \in Nat /\ ~(Stages - k < x)
    BY <1>1, <2>1 DEF Below
  <2> QED
    BY <1>3, <2>2, StagesAssumption DEF StageNumbers
<1> QED
  BY <1>4 DEF LastStage

LEMMA ToSetAppend ==
  ASSUME NEW T, NEW s \in Seq(T), NEW e \in T
  PROVE  Append(s, e) \in Seq(T) /\ ToSet(Append(s, e)) = ToSet(s) \cup {e}
<1>1. /\ Append(s, e) \in Seq(T) /\ Len(Append(s, e)) = Len(s) + 1
      /\ \A i \in 1 .. Len(s) : Append(s, e)[i] = s[i]
      /\ Append(s, e)[Len(s) + 1] = e
  BY AppendProperties
<1>2. DOMAIN s = 1 .. Len(s) /\ DOMAIN Append(s, e) = 1 .. Len(s) + 1 /\ Len(s) \in Nat
  BY <1>1
<1> QED
  BY <1>1, <1>2 DEF ToSet

LEMMA ToSetEmpty == ToSet(<<>>) = {}
BY DEF ToSet

(* A ledger with one more entry. *)
LEMMA AppliedAppend ==
  ASSUME NEW ledger \in Seq(Entries), NEW n \in StageNumbers, NEW b \in BOOLEAN
  PROVE  /\ Append(ledger, [stage |-> n, applied |-> b]) \in Seq(Entries)
         /\ Applied(Append(ledger, [stage |-> n, applied |-> b])) = Applied(ledger) \cup {i \in {n} : b}
<1>1. PICK e \in Entries : e = [stage |-> n, applied |-> b]
  BY DEF Entries
<1>2. e.stage = n /\ e.applied = b
  BY <1>1
<1>3. Append(ledger, e) \in Seq(Entries) /\ ToSet(Append(ledger, e)) = ToSet(ledger) \cup {e}
  BY ToSetAppend
<1>4. Applied(Append(ledger, e)) = Applied(ledger) \cup {i \in {n} : b}
  <2>1. PICK all : all = Append(ledger, e)
    OBVIOUS
  <2>2. ToSet(all) = ToSet(ledger) \cup {e}
    BY <1>3, <2>1
  <2>3. Applied(all) = Applied(ledger) \cup {i \in {n} : b}
    BY <1>2, <2>2 DEF Applied
  <2> QED
    BY <2>1, <2>3
<1> QED
  BY <1>1, <1>3, <1>4

LEMMA AppliedTyped ==
  ASSUME NEW x \in ExecutionRecords
  PROVE  Applied(x.ledger) \subseteq StageNumbers
<1>1. PICK ledger \in Seq(Entries) : ledger = x.ledger
  BY DEF ExecutionRecords
<1>2. \A i \in DOMAIN ledger : ledger[i] \in Entries
  OBVIOUS
<1>3. Applied(ledger) \subseteq StageNumbers
  BY <1>2 DEF Applied, ToSet, Entries
<1> QED
  BY <1>1, <1>3

(* The last stage is the last one to be applied. *)
LEMMA NotStartedYet ==
  ASSUME NEW x \in ExecutionRecords, ExecutionOK(host, made, touched, x), x.phase \in {"stage", "run", "undo"}
  PROVE  Stages \notin made
<1>1. \A i \in Applied(x.ledger) : i < x.at
  BY DEF ExecutionOK, InOrder
<1>2. x.at \in StageNumbers /\ made \subseteq Applied(x.ledger)
  BY DEF ExecutionRecords, ExecutionOK, Truthful, Undoable
<1> QED
  BY <1>1, <1>2, StagesAssumption DEF StageNumbers

LEMMA NativeInitEstablishes == NativeInit => InstallInv
BY DEF NativeInit, InstallInv, HostOK

LEMMA BeginInstallKeeps ==
  ASSUME InstallInv, NEW undo \in {"off", "handler", "no_handler"}, BeginInstall(undo)
  PROVE  InstallInv'
<1>1. PICK x : x = [phase |-> "stage", at |-> 1, ledger |-> <<>>, undo |-> undo, undone |-> <<>>, outcome |-> None]
               /\ execution' = x
  BY DEF BeginInstall
<1>2. x \in ExecutionRecords /\ x.phase = "stage" /\ x.at = 1 /\ x.ledger = <<>> /\ x.undone = <<>> /\ x.outcome = None
  <2>1. 1 \in StageNumbers
    BY StagesAssumption DEF StageNumbers
  <2>2. <<>> \in Seq(Entries) /\ <<>> \in Seq(StageNumbers)
    OBVIOUS
  <2> QED
    BY <1>1, <2>1, <2>2 DEF ExecutionRecords
<1>3. Applied(x.ledger) = {} /\ Undoable(x) = {}
  BY <1>2, ToSetEmpty DEF Applied, Undoable
<1>4. Stages \notin {} /\ \A i \in StageNumbers : ~(i < 1)
  BY StagesAssumption DEF StageNumbers
<1>5. HostOK(host', {}, {})
  BY DEF BeginInstall, InstallInv, HostOK
<1>6. InOrder(host', {}, x)
  BY <1>2, <1>3, <1>4 DEF InOrder
<1>7. Truthful({}, {}, x) /\ UndoneLastFirst({}, x) /\ StartedLast(host', {}, {})
  BY <1>2, <1>3 DEF Truthful, UndoneLastFirst, StartedLast
<1>8. ExecutionOK(host', {}, {}, x)
  BY <1>2, <1>6, <1>7 DEF ExecutionOK
<1> QED
  BY <1>1, <1>5, <1>8 DEF BeginInstall, InstallInv

(* An execution that ends leaves what it has done as it is. *)
LEMMA EndingKeeps ==
  ASSUME InstallInv, execution.phase \in {"stage", "run", "undo"}, UNCHANGED <<made, touched>>,
         NEW outcome \in {"failed", "refused", "handler-missing", "undone", "undo_failed", "died"}, ExecutionEnds(outcome),
         outcome = "undone" => made = {},
         host' \in [StageNumbers -> States]
  PROVE  InstallInv'
<1>1. execution \in ExecutionRecords /\ ExecutionOK(host, made, touched, execution)
  BY Executing
<1>2. PICK x : x = [execution EXCEPT !.phase = "ended", !.outcome = outcome] /\ execution' = x
  BY DEF ExecutionEnds
<1>3. /\ x \in ExecutionRecords /\ x.phase = "ended" /\ x.outcome = outcome
      /\ x.ledger = execution.ledger /\ x.undone = execution.undone
  BY <1>1, <1>2 DEF ExecutionRecords, Outcomes
<1>4. Undoable(x) = Undoable(execution)
  BY <1>3 DEF Undoable
<1>5. Stages \notin made
  BY <1>1, NotStartedYet
<1>6. Truthful(made, touched, x) /\ UndoneLastFirst(made, x) /\ InOrder(host', touched, x)
  BY <1>1, <1>3, <1>4 DEF ExecutionOK, Truthful, UndoneLastFirst, InOrder
<1>7. StartedLast(host', made, touched)
  BY <1>5 DEF StartedLast
<1>8. ExecutionOK(host', made, touched, x)
  BY <1>3, <1>6, <1>7 DEF ExecutionOK
<1> QED
  BY <1>2, <1>8 DEF InstallInv, HostOK

(* The next stage begins, or the plan is done, once stage "at" is in place.     *)
LEMMA EnteredKeeps ==
  ASSUME InstallInv, execution.phase \in {"stage", "run"}, NEW applied \in BOOLEAN, Entered(execution.at, applied),
         host' = [host EXCEPT ![execution.at] = "matching"],
         made' = made \cup {i \in {execution.at} : applied}, UNCHANGED touched
  PROVE  InstallInv'
<1>1. execution \in ExecutionRecords /\ ExecutionOK(host, made, touched, execution)
  BY Executing
<1>2. PICK n \in StageNumbers : n = execution.at
  BY <1>1 DEF ExecutionRecords
<1>3. PICK ledger : /\ ledger = Append(execution.ledger, [stage |-> n, applied |-> applied])
                    /\ ledger \in Seq(Entries)
                    /\ Applied(ledger) = Applied(execution.ledger) \cup {i \in {n} : applied}
  <2>1. execution.ledger \in Seq(Entries)
    BY <1>1 DEF ExecutionRecords
  <2>2. /\ Append(execution.ledger, [stage |-> n, applied |-> applied]) \in Seq(Entries)
        /\ Applied(Append(execution.ledger, [stage |-> n, applied |-> applied]))
             = Applied(execution.ledger) \cup {i \in {n} : applied}
    BY <2>1, AppliedAppend
  <2> QED
    BY <2>2
<1>4. PICK x : /\ execution' = x
               /\ x = IF n = Stages THEN [execution EXCEPT !.ledger = ledger, !.phase = "ended", !.outcome = "done"]
                      ELSE [execution EXCEPT !.ledger = ledger, !.phase = "stage", !.at = n + 1]
  BY <1>2, <1>3 DEF Entered
<1>5. n # Stages => n + 1 \in StageNumbers
  BY StagesAssumption DEF StageNumbers
<1>6. /\ x \in ExecutionRecords /\ x.ledger = ledger /\ x.undone = execution.undone
      /\ n = Stages => x.phase = "ended" /\ x.outcome = "done"
      /\ n # Stages => x.phase = "stage" /\ x.outcome = execution.outcome /\ x.at = n + 1
  BY <1>1, <1>3, <1>4, <1>5 DEF ExecutionRecords, Outcomes
<1>7. /\ execution.undone = <<>> /\ execution.outcome = None
      /\ \A i \in Applied(execution.ledger) : i < n
      /\ \A i \in StageNumbers \ touched : i < n => host[i] = "matching"
  BY <1>1, <1>2 DEF ExecutionOK, InOrder
<1>8. Undoable(execution) = Applied(execution.ledger) /\ Undoable(x) = Applied(ledger)
  BY <1>6, <1>7, ToSetEmpty DEF Undoable
<1>9. host \in [StageNumbers -> States] /\ host' \in [StageNumbers -> States]
      /\ \A i \in StageNumbers : host'[i] = IF i = n THEN "matching" ELSE host[i]
  BY <1>2 DEF InstallInv, HostOK, States
<1>10. made' = made \cup {i \in {n} : applied} /\ made' \subseteq StageNumbers
  BY <1>2 DEF InstallInv, HostOK
<1>11. Truthful(made', touched, x)
  BY <1>1, <1>3, <1>8, <1>10 DEF ExecutionOK, Truthful
<1>12. UndoneLastFirst(made', x)
  BY <1>6, <1>7, ToSetEmpty, StagesAssumption DEF UndoneLastFirst, Outcomes
<1>13. \A i \in StageNumbers \ touched : i <= n => host'[i] = "matching"
  BY <1>7, <1>9 DEF StageNumbers
<1>14. Applied(execution.ledger) \subseteq StageNumbers
  BY <1>1, AppliedTyped
<1>15. InOrder(host', touched, x)
  <2>1. ASSUME n # Stages, NEW i \in Applied(ledger) PROVE i < x.at
    BY <1>3, <1>6, <1>7, <1>14, <2>1 DEF StageNumbers
  <2>2. ASSUME n # Stages, NEW i \in StageNumbers \ touched, i < x.at PROVE host'[i] = "matching"
    BY <1>6, <1>13, <2>2 DEF StageNumbers
  <2> QED
    BY <1>6, <1>7, <2>1, <2>2 DEF InOrder
<1>16. StartedLast(host', made', touched)
  <2>1. CASE n = Stages
    BY <1>13, <2>1 DEF StartedLast, StageNumbers
  <2>2. CASE n # Stages
    BY <1>1, <1>2, <1>10, <2>2, NotStartedYet DEF StartedLast
  <2> QED
    BY <2>1, <2>2
<1>17. ExecutionOK(host', made', touched, x)
  BY <1>6, <1>11, <1>12, <1>15, <1>16 DEF ExecutionOK
<1> QED
  BY <1>4, <1>9, <1>10, <1>17 DEF InstallInv, HostOK

(* From one phase to another within a stage. *)
LEMMA TurnKeeps ==
  ASSUME InstallInv, execution.phase \in {"stage", "run"}, NEW phase \in {"run", "undo"},
         execution' = [execution EXCEPT !.phase = phase], UNCHANGED <<made, touched>>,
         host' \in [StageNumbers -> States],
         phase = "run" => host' = host
  PROVE  InstallInv'
<1>1. execution \in ExecutionRecords /\ ExecutionOK(host, made, touched, execution)
  BY Executing
<1>2. PICK x : x = [execution EXCEPT !.phase = phase] /\ execution' = x
  OBVIOUS
<1>3. /\ x \in ExecutionRecords /\ x.phase = phase /\ x.outcome = execution.outcome /\ x.at = execution.at
      /\ x.ledger = execution.ledger /\ x.undone = execution.undone
  BY <1>1, <1>2 DEF ExecutionRecords
<1>4. Undoable(x) = Undoable(execution)
  BY <1>3 DEF Undoable
<1>5. Truthful(made, touched, x) /\ UndoneLastFirst(made, x)
  BY <1>1, <1>3, <1>4 DEF ExecutionOK, Truthful, UndoneLastFirst
<1>6. InOrder(host', touched, x)
  BY <1>1, <1>3 DEF ExecutionOK, InOrder
<1>7. StartedLast(host', made, touched)
  BY <1>1, NotStartedYet DEF StartedLast
<1>8. ExecutionOK(host', made, touched, x)
  BY <1>3, <1>5, <1>6, <1>7 DEF ExecutionOK
<1> QED
  BY <1>2, <1>8 DEF InstallInv, HostOK

LEMMA InspectKeeps ==
  ASSUME InstallInv, Inspect
  PROVE  InstallInv'
<1>1. /\ execution.phase = "stage" /\ UNCHANGED <<host, made, touched>>
      /\ host \in [StageNumbers -> States] /\ execution.at \in StageNumbers
  BY Executing DEF Inspect, InstallInv, HostOK, ExecutionRecords
<1>2. CASE execution' = [execution EXCEPT !.phase = "run"]
  BY <1>1, <1>2, TurnKeeps
<1>3. CASE host[execution.at] = "matching" /\ Entered(execution.at, FALSE)
  <2>1. host' = [host EXCEPT ![execution.at] = "matching"] /\ made' = made \cup {i \in {execution.at} : FALSE}
    BY <1>1, <1>3
  <2> QED
    BY <1>1, <1>3, <2>1, EnteredKeeps
<1>4. CASE ExecutionEnds("refused")
  BY <1>1, <1>4, EndingKeeps
<1> QED
  BY <1>2, <1>3, <1>4 DEF Inspect

LEMMA CommandSucceedsKeeps ==
  ASSUME InstallInv, CommandSucceeds
  PROVE  InstallInv'
<1>1. made' = made \cup {i \in {execution.at} : TRUE}
  BY DEF CommandSucceeds
<1> QED
  BY <1>1, EnteredKeeps DEF CommandSucceeds

LEMMA CommandFailsKeeps ==
  ASSUME InstallInv, CommandFails
  PROVE  InstallInv'
<1>1. /\ execution.phase = "run" /\ UNCHANGED <<made, touched>>
      /\ host' \in [StageNumbers -> States]
  BY DEF CommandFails, InstallInv, HostOK, States
<1>2. CASE ExecutionEnds("failed")
  BY <1>1, <1>2, EndingKeeps
<1>3. CASE ExecutionEnds("handler-missing")
  BY <1>1, <1>3, EndingKeeps
<1>4. CASE execution' = [execution EXCEPT !.phase = "undo"]
  BY <1>1, <1>4, TurnKeeps
<1> QED
  BY <1>2, <1>3, <1>4 DEF CommandFails

(* The last stage that is left to undo comes before those already undone.       *)
LEMMA UndoKeeps ==
  ASSUME InstallInv, Undo
  PROVE  InstallInv'
<1>1. execution \in ExecutionRecords /\ ExecutionOK(host, made, touched, execution) /\ execution.phase = "undo"
  BY Executing DEF Undo
<1>2. Undoable(execution) \subseteq StageNumbers /\ Undoable(execution) # {}
  BY <1>1, AppliedTyped, ToUndoIsUndoable DEF Undo, Undoable
<1>3. PICK last \in Undoable(execution) : last = LastStage(ToUndo) /\ \A k \in Undoable(execution) : k <= last
  BY <1>2, LastStageExists, ToUndoIsUndoable
<1>4. last \in StageNumbers
  BY <1>2
<1>5. PICK undone : /\ undone = Append(execution.undone, last)
                    /\ undone \in Seq(StageNumbers) /\ ToSet(undone) = ToSet(execution.undone) \cup {last}
  <2>1. execution.undone \in Seq(StageNumbers)
    BY <1>1 DEF ExecutionRecords
  <2>2. /\ Append(execution.undone, last) \in Seq(StageNumbers)
        /\ ToSet(Append(execution.undone, last)) = ToSet(execution.undone) \cup {last}
    BY <1>4, <2>1, ToSetAppend
  <2> QED
    BY <2>2
<1>6. PICK x : x = [execution EXCEPT !.undone = undone] /\ execution' = x
  BY <1>3, <1>5 DEF Undo
<1>7. /\ x \in ExecutionRecords /\ x.phase = "undo" /\ x.outcome = execution.outcome /\ x.at = execution.at
      /\ x.ledger = execution.ledger /\ x.undone = undone
  BY <1>1, <1>5, <1>6 DEF ExecutionRecords
<1>8. Undoable(x) = Undoable(execution) \ {last}
  BY <1>5, <1>7 DEF Undoable
<1>9. made' = made \ {last} /\ touched' = touched /\ host' \in [StageNumbers -> States]
  BY <1>3, <1>4 DEF Undo, InstallInv, HostOK, States
<1>10. Truthful(made', touched, x)
  BY <1>1, <1>8, <1>9 DEF ExecutionOK, Truthful
<1>11. UndoneLastFirst(made', x)
  <2>1. \A k \in Undoable(x) : k < last
    BY <1>2, <1>3, <1>4, <1>8 DEF StageNumbers
  <2>2. \A i \in ToSet(undone), k \in Undoable(x) : k < i
    BY <1>1, <1>5, <1>8, <2>1 DEF ExecutionOK, UndoneLastFirst
  <2>3. x.outcome # "undone" \/ made' = {}
    BY <1>1, <1>7, <1>9 DEF ExecutionOK, UndoneLastFirst
  <2> QED
    BY <1>7, <2>2, <2>3 DEF UndoneLastFirst
<1>12. InOrder(host', touched, x)
  BY <1>1, <1>7 DEF ExecutionOK, InOrder
<1>13. StartedLast(host', made', touched)
  BY <1>1, <1>9, NotStartedYet DEF StartedLast
<1>14. ExecutionOK(host', made', touched, x)
  BY <1>7, <1>10, <1>11, <1>12, <1>13 DEF ExecutionOK
<1>15. HostOK(host', made', touched')
  BY <1>9 DEF InstallInv, HostOK
<1> QED
  BY <1>6, <1>9, <1>14, <1>15 DEF InstallInv

LEMMA UndoStopsKeeps ==
  ASSUME InstallInv, UndoFails \/ UndoEnds \/ InstallerDies
  PROVE  InstallInv'
<1>1. host' \in [StageNumbers -> States] /\ UNCHANGED <<made, touched>>
  BY DEF UndoFails, UndoEnds, InstallerDies, InstallInv, HostOK
<1>2. CASE UndoFails
  BY <1>1, <1>2, EndingKeeps DEF UndoFails
<1>3. CASE UndoEnds
  <2>1. ExecutionOK(host, made, touched, execution)
    BY <1>3, Executing DEF UndoEnds
  <2>2. made = {}
    BY <1>3, <2>1, ToUndoIsUndoable DEF UndoEnds, ExecutionOK, Truthful
  <2> QED
    BY <1>1, <1>3, <2>2, EndingKeeps DEF UndoEnds
<1>4. CASE InstallerDies
  <2>1. execution # NotInstalling
    BY <1>4 DEF InstallerDies, NotInstalling
  <2>2. execution \in ExecutionRecords
    BY <2>1 DEF InstallInv, ExecutionOK
  <2>3. execution.phase \in {"stage", "run", "undo"}
    BY <1>4, <2>2 DEF InstallerDies, ExecutionRecords
  <2> QED
    BY <1>1, <1>4, <2>3, EndingKeeps DEF InstallerDies
<1> QED
  BY <1>2, <1>3, <1>4

LEMMA ElsewhereKeeps ==
  ASSUME InstallInv, NEW i \in Ensured, NEW state \in States, Elsewhere(i, state)
  PROVE  InstallInv'
<1>1. i \in StageNumbers
  BY StagesAssumption DEF StageNumbers
<1>2. /\ made' = made \ {i} /\ touched' = touched \cup {i} /\ execution' = execution
      /\ host' \in [StageNumbers -> States] /\ \A k \in StageNumbers \ {i} : host'[k] = host[k]
  BY <1>1 DEF Elsewhere, InstallInv, HostOK
<1>3. ASSUME ExecutionOK(host, made, touched, execution) PROVE ExecutionOK(host', made', touched', execution)
  <2>1. Truthful(made', touched', execution) /\ UndoneLastFirst(made', execution)
    BY <1>2, <1>3 DEF ExecutionOK, Truthful, UndoneLastFirst
  <2>2. InOrder(host', touched', execution) /\ StartedLast(host', made', touched')
    BY <1>2, <1>3 DEF ExecutionOK, InOrder, StartedLast
  <2> QED
    BY <1>3, <2>1, <2>2 DEF ExecutionOK
<1>4. HostOK(host', made', touched')
  BY <1>1, <1>2 DEF InstallInv, HostOK
<1> QED
  BY <1>2, <1>3, <1>4 DEF InstallInv

LEMMA InstallInductive == InstallInv /\ [NativeNext]_installation => InstallInv'
<1> SUFFICES ASSUME InstallInv, [NativeNext]_installation PROVE InstallInv'
  OBVIOUS
<1>1. ASSUME NEW undo \in {"off", "handler", "no_handler"}, BeginInstall(undo) PROVE InstallInv'
  BY <1>1, BeginInstallKeeps
<1>2. CASE Inspect
  BY <1>2, InspectKeeps
<1>3. CASE CommandSucceeds
  BY <1>3, CommandSucceedsKeeps
<1>4. CASE CommandFails
  BY <1>4, CommandFailsKeeps
<1>5. CASE Undo
  BY <1>5, UndoKeeps
<1>6. CASE UndoFails \/ UndoEnds \/ InstallerDies
  BY <1>6, UndoStopsKeeps
<1>7. ASSUME NEW i \in Ensured, NEW state \in States, Elsewhere(i, state) PROVE InstallInv'
  BY <1>7, ElsewhereKeeps
<1>8. CASE UNCHANGED installation
  BY <1>8 DEF installation, InstallInv
<1> QED
  BY <1>1, <1>2, <1>3, <1>4, <1>5, <1>6, <1>7, <1>8 DEF NativeNext

(***************************************************************************)
(* For every number of stages: what an execution reports as applied and    *)
(* not undone is what it made, the service is started on a finished        *)
(* installation, and stages are undone last first                          *)
(* (executeNativeInstallActions).                                          *)
(***************************************************************************)
THEOREM InstallStaysSound == NativeSpec => []InstallSound
BY NativeInitEstablishes, InstallInductive, InstallInvHolds, PTL DEF NativeSpec

(***************************************************************************)
(* Both tools beside Core, side by side: what the platform's run checks of *)
(* them holds for any files and any plan.                                  *)
(***************************************************************************)
THEOREM ToolingStaysSound == ToolingSpec => []ToolingSound
BY SnapshotsStaySound, InstallStaysSound, PTL DEF ToolingSpec, ToolingSound

==============================================================================

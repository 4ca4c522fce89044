----------------------------- MODULE Components -----------------------------
(***************************************************************************)
(* One managed component: its signed installation                          *)
(* (src/src/component-release.ts, src/src/component-installer.ts), its two *)
(* tables (src/src/repository.ts), the health and activation routes of     *)
(* src/src/app.ts, the resolution of its files (src/src/components.ts) and *)
(* its runs (src/src/managed-component-runner.ts).                         *)
(*                                                                         *)
(* A checksum and the content it is the digest of are one value.  The      *)
(* handlers await nothing between requireAdmin and their answer, so that   *)
(* only Core's end and failing writes come between the steps of one.       *)
(***************************************************************************)
EXTENDS Nothing, Naturals, FiniteSets

CONSTANTS
  Versions, Contents,
  Signed,        \* Signed[v]: the content of the release signed for v
  Runs           \* runs of the component that can be under way (bound)

ASSUME ComponentsAssumption == Signed \in [Versions -> Contents] /\ None \notin Contents \cup Versions

VARIABLES
  active,        \* row of managed_components: [version, checksum, health, verified]
  versions,      \* rows of managed_component_versions, by version
  files,         \* files[v]: what is under components/<id>/<v>
  toolRun        \* toolRun[r]: [at, version, checksum, content]

components == <<active, versions, files, toolRun>>

NoRow == [checksum |-> None, health |-> "none", verified |-> FALSE]
NoActive == [version |-> None, row |-> NoRow]
IdleRun == [at |-> "idle", version |-> None, checksum |-> None, content |-> None]

ComponentsInit ==
  /\ active = NoActive
  /\ versions = [v \in Versions |-> NoRow]
  /\ files = [v \in Versions |-> None]
  /\ toolRun = [r \in Runs |-> IdleRun]

(***************************************************************************)
(* registerComponent(): the first version becomes the active one; the row  *)
(* of a version that is registered again starts over, the active row stays.*)
(***************************************************************************)
RegisterComponent(v, checksum, verified) ==
  LET row == [checksum |-> checksum, health |-> "unknown", verified |-> verified]
  IN  /\ active' = IF active = NoActive THEN [version |-> v, row |-> row] ELSE active
      /\ versions' = [versions EXCEPT ![v] = row]

(* POST /api/components: any checksum, never verified. *)
RegisterRoute(v, checksum) ==
  /\ RegisterComponent(v, checksum, FALSE)
  /\ UNCHANGED <<files, toolRun>>

(***************************************************************************)
(* installSignedComponentRelease() and the row it is followed by.  The     *)
(* staged artifact has the digest of the release or nothing happens; it is *)
(* copied beside its place and renamed; when Core ends while it copies,    *)
(* what is left has a name that nobody looks for.                          *)
(***************************************************************************)
InstallStaged(v) == files' = [files EXCEPT ![v] = Signed[v]]

Install(v) ==
  /\ files[v] = None                       \* or "already installed"
  /\ \/ InstallStaged(v) /\ RegisterComponent(v, Signed[v], TRUE)
     \/ InstallStaged(v) /\ UNCHANGED <<active, versions>>    \* Core or the write fails
  /\ UNCHANGED toolRun

(* Somebody outside Core changes the files. *)
Alter(v, content) ==
  /\ files[v] # None
  /\ files' = [files EXCEPT ![v] = content]
  /\ UNCHANGED <<active, versions, toolRun>>

(***************************************************************************)
(* Health and activation.                                                  *)
(***************************************************************************)
Digest(v) == files[v]
HealthOf(v, row) == IF Digest(v) # None /\ Digest(v) = row.checksum THEN "healthy" ELSE "unhealthy"

(* The active row is compared, and both rows get the result. *)
UpdateComponentHealth(health) ==
  /\ active' = [active EXCEPT !.row.health = health]
  /\ versions' = [versions EXCEPT ![active.version].health = health]

HealthRoute ==
  /\ active # NoActive
  /\ UpdateComponentHealth(HealthOf(active.version, active.row))
  /\ UNCHANGED <<files, toolRun>>

VersionHealthRoute(v) ==
  /\ versions[v] # NoRow
  /\ versions' = [versions EXCEPT ![v].health = HealthOf(v, versions[v])]
  /\ UNCHANGED <<active, files, toolRun>>

FaultyActivateComponentVersion(v) ==
  /\ versions[v].health = "healthy"
  /\ active' = [active EXCEPT !.version = v, !.row.checksum = versions[v].checksum]

(* Activating the active version succeeds without a change. *)
ActivateComponentVersion(v) ==
  /\ versions[v].health = "healthy"
  /\ active' = IF active.version = v THEN active ELSE [version |-> v, row |-> versions[v]]

ActivateRoute(v) ==
  /\ ActivateComponentVersion(v)
  /\ UNCHANGED <<versions, files, toolRun>>

(***************************************************************************)
(* Runs.  The row is read, the digest of the files is computed, and the    *)
(* tool is started from the same files in the next step.                   *)
(***************************************************************************)
BeginRun(r) ==
  /\ toolRun[r].at = "idle"
  /\ active.row.verified
  /\ files[active.version] # None
  /\ toolRun' = [toolRun EXCEPT ![r] =
       [at |-> "checking", version |-> active.version, checksum |-> active.row.checksum, content |-> None]]
  /\ UNCHANGED <<active, versions, files>>

Matches(r) == Digest(toolRun[r].version) = toolRun[r].checksum

(* DIGEST_MISMATCH ends the run before anything is started. *)
Spawn(r) ==
  /\ toolRun[r].at = "checking"
  /\ toolRun' = IF Matches(r)
                THEN [toolRun EXCEPT ![r] = [at |-> "running", version |-> toolRun[r].version,
                                               checksum |-> None, content |-> files[toolRun[r].version]]]
                ELSE [toolRun EXCEPT ![r] = IdleRun]
  /\ UNCHANGED <<active, versions, files>>

(* The timer, the caller's signal or too much output: the tool is told to  *)
(* end, once, and does so when it likes.                                   *)
Cut(r) ==
  /\ toolRun[r].at = "running"
  /\ toolRun' = [toolRun EXCEPT ![r].at = "cut"]
  /\ UNCHANGED <<active, versions, files>>

CloseTool(r) ==
  /\ toolRun[r].at \in {"running", "cut"}
  /\ toolRun' = [toolRun EXCEPT ![r] = IdleRun]
  /\ UNCHANGED <<active, versions, files>>

ComponentsNext ==
  \/ \E v \in Versions, c \in Contents : RegisterRoute(v, c)
  \/ \E v \in Versions : Install(v)
  \/ \E v \in Versions, c \in Contents \cup {None} : Alter(v, c)
  \/ HealthRoute
  \/ \E v \in Versions : VersionHealthRoute(v)
  \/ \E v \in Versions : ActivateRoute(v)
  \/ \E r \in Runs : BeginRun(r)
  \/ \E r \in Runs : Spawn(r)
  \/ \E r \in Runs : Cut(r)
  \/ \E r \in Runs : CloseTool(r)

ComponentsSpec == ComponentsInit /\ [][ComponentsNext]_components

Rows == [checksum : Contents \cup {None}, health : {"none", "unknown", "healthy", "unhealthy"},
         verified : BOOLEAN]

ComponentsTypeOK ==
  /\ active \in [version : Versions \cup {None}, row : Rows]
  /\ versions \in [Versions -> Rows]
  /\ files \in [Versions -> Contents \cup {None}]
  /\ toolRun \in [Runs -> [at : {"idle", "checking", "running", "cut"},
                           version : Versions \cup {None},
                           checksum : Contents \cup {None}, content : Contents \cup {None}]]

(***************************************************************************)
(* Whatever is registered, altered and activated in whatever order, a tool *)
(* that Core started is the content of a signed release of its version     *)
(* (runManagedComponent trusts the active row's verified flag and          *)
(* checksum, which come from registerComponent and activation).            *)
(***************************************************************************)
OnlySignedToolsRun ==
  \A r \in Runs : toolRun[r].at \in {"running", "cut"} => toolRun[r].content = Signed[toolRun[r].version]

(***************************************************************************)
(* The active version has a row among the versions, and a row may be       *)
(* verified only for the signed checksum (registerComponent, activation).  *)
(***************************************************************************)
RowsAgree ==
  /\ active # NoActive => active.version \in Versions /\ versions[active.version] # NoRow
  /\ active.row.verified => active.row.checksum = Signed[active.version]
  /\ \A v \in Versions : versions[v].verified => versions[v].checksum = Signed[v]

(* The managed components as a whole: rows that agree, signed tools only.  *)
ToolsSound == ComponentsTypeOK /\ OnlySignedToolsRun /\ RowsAgree
=============================================================================

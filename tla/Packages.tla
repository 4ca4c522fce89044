------------------------------ MODULE Packages ------------------------------
(***************************************************************************)
(* The signed packages of one plugin and its installations: the staged     *)
(* directory that becomes a version's                                      *)
(* (src/src/plugin-package-installer.ts), the rows of                      *)
(* src/src/repository.ts, and the routes and the start of src/src/app.ts,  *)
(* which give the supervisor a factory for each version.  Nothing is       *)
(* awaited while a package is installed; only an upgrade waits, for its    *)
(* drain, after it has prepared its package (PluginUpgrade).               *)
(***************************************************************************)
EXTENDS Nothing

CONSTANTS
  Releases,      \* signed releases, [version, digest]
  Installs       \* installations

ASSUME PackagesAssumption ==
  \A r \in Releases : r = [version |-> r.version, digest |-> r.digest] /\ r.version # None /\ r.digest # None

VARIABLES
  directory,     \* directory[r]: plugins/<id>/<version>/<digest>: "none", "intact" or "altered"
  package,       \* package[v]: the digest of the row of verified_plugin_packages
  factory,       \* factory[v]: the digest of the directory that workers of v run from
  install,       \* install[i]: [status, version, moved]; moved: was upgraded (history)
  target         \* target[i]: the version that an upgrade has prepared

packages == <<directory, package, factory, install, target>>

PackageVersions == {r.version : r \in Releases}
PackageDigests == {r.digest : r \in Releases}
NoInstall == [status |-> "none", version |-> None, moved |-> FALSE]

PackagesInit ==
  /\ directory = [r \in Releases |-> "none"]
  /\ package = [v \in PackageVersions |-> None]
  /\ factory = [v \in PackageVersions |-> None]
  /\ install = [i \in Installs |-> NoInstall]
  /\ target = [i \in Installs |-> None]

ReleaseOf(v, digest) == [version |-> v, digest |-> digest]

(* verifyInstalledPluginPackage(), for the package that has a row. *)
Intact(v) == package[v] # None /\ directory[ReleaseOf(v, package[v])] = "intact"

(* registerVerifiedPluginRuntime(): a factory that is there stays. *)
Registered(v) == IF Intact(v) /\ factory[v] = None THEN [factory EXCEPT ![v] = package[v]] ELSE factory

(* installStagedPluginPackage(): the digest of what is staged is compared, *)
(* it is copied beside its place and renamed; an earlier one is in the way.*)
InstallStagedPackage(r) ==
  /\ directory[r] = "none"
  /\ directory' = [directory EXCEPT ![r] = "intact"]

RegisterPackage(r) == package' = [package EXCEPT ![r.version] = r.digest]

(***************************************************************************)
(* What an installation and an upgrade do with a release that has no row:  *)
(* directory, row, factory.  Core may end after each.                      *)
(***************************************************************************)
PutPackage(r) ==
  /\ InstallStagedPackage(r)
  /\ RegisterPackage(r)
  /\ factory' = IF factory[r.version] = None THEN [factory EXCEPT ![r.version] = r.digest]
                ELSE factory                   \* register() refuses a second one

FaultyUnknown(r) == package[r.version] # r.digest

Unknown(r) == package[r.version] = None

Prepare(r) == IF Unknown(r) THEN PutPackage(r)
              ELSE Intact(r.version) /\ factory' = Registered(r.version) /\ UNCHANGED <<directory, package>>

(* installPlugin(): a row and its application, in one transaction. *)
InstallPluginRow(i, v) ==
  /\ install[i] = NoInstall
  /\ \A j \in Installs : install[j].version = v => install[j].status = "uninstalled"
  /\ install' = [install EXCEPT ![i] = [NoInstall EXCEPT !.status = "installed", !.version = v]]

(* POST /api/plugins/packages/install: not for a version that has any row, *)
(* one that was uninstalled included.  A release of another digest than    *)
(* the row's installs what the row has.                                    *)
InstallRelease(i, r) ==
  /\ \A j \in Installs : install[j].version # r.version
  /\ Prepare(r)
  /\ InstallPluginRow(i, r.version)
  /\ UNCHANGED target

(* The same, but Core ends after the directory, or after the row.  The     *)
(* directory without its row is in the way of every later attempt.         *)
InstallBreaks(r) ==
  /\ Unknown(r)
  /\ InstallStagedPackage(r)
  /\ RegisterPackage(r) \/ UNCHANGED package
  /\ factory' = [v \in PackageVersions |-> IF Intact(v) THEN package[v] ELSE None]'
  /\ target' = [i \in Installs |-> None]
  /\ UNCHANGED install

(* POST /api/plugins: a signed manifest alone. *)
InstallManifest(i, v) ==
  /\ InstallPluginRow(i, v)
  /\ UNCHANGED <<directory, package, factory, target>>

(***************************************************************************)
(* POST /api/plugins/:id/upgrade: the package first; then, after the       *)
(* drain, the row; and back, when the probe failed.                        *)
(***************************************************************************)
PrepareUpgrade(i, r) ==
  /\ install[i].status = "installed" /\ install[i].version # r.version
  /\ target[i] = None
  /\ package[r.version] \in {None, r.digest}
  /\ Prepare(r)
  /\ target' = [target EXCEPT ![i] = r.version]
  /\ UNCHANGED install

UpgradePlugin(i) ==
  /\ target[i] # None
  /\ target' = [target EXCEPT ![i] = None]
  /\ \/ /\ install[i].status = "installed"
        /\ install' = [install EXCEPT ![i].version = target[i], ![i].moved = TRUE]
     \/ UNCHANGED install                       \* rejected, or rolled back
  /\ UNCHANGED <<directory, package, factory>>

ChangeInstall(i, from, to) ==
  /\ install[i].status = from
  /\ install' = [install EXCEPT ![i].status = to]
  /\ UNCHANGED <<directory, package, factory, target>>

(* pluginUiHandler(): files of an intact package, whatever its worker is.  *)
ServesUi(i) == install[i].status = "installed" /\ Intact(install[i].version)

(* Somebody outside Core changes a directory. *)
AlterPackage(r) ==
  /\ directory[r] = "intact"
  /\ directory' = [directory EXCEPT ![r] = "altered"]
  /\ UNCHANGED <<package, factory, install, target>>

(* Core ends and starts: factories for the rows whose files are intact. *)
BootPackages ==
  /\ factory' = [v \in PackageVersions |-> IF Intact(v) THEN package[v] ELSE None]
  /\ target' = [i \in Installs |-> None]
  /\ UNCHANGED <<directory, package, install>>

PackagesNext ==
  \/ \E i \in Installs, r \in Releases : InstallRelease(i, r)
  \/ \E r \in Releases : InstallBreaks(r)
  \/ \E i \in Installs, v \in PackageVersions : InstallManifest(i, v)
  \/ \E i \in Installs, r \in Releases : PrepareUpgrade(i, r)
  \/ \E i \in Installs : UpgradePlugin(i)
  \/ \E i \in Installs : ChangeInstall(i, "installed", "disabled")
  \/ \E i \in Installs : ChangeInstall(i, "disabled", "installed")
  \/ \E i \in Installs : ChangeInstall(i, "disabled", "uninstalled")
  \/ \E r \in Releases : AlterPackage(r)
  \/ BootPackages

PackagesSpec == PackagesInit /\ [][PackagesNext]_packages

PackagesTypeOK ==
  /\ directory \in [Releases -> {"none", "intact", "altered"}]
  /\ package \in [PackageVersions -> PackageDigests \cup {None}]
  /\ factory \in [PackageVersions -> PackageDigests \cup {None}]
  /\ install \in [Installs -> [status : {"none", "installed", "disabled", "uninstalled"},
                               version : PackageVersions \cup {None}, moved : BOOLEAN]]
  /\ target \in [Installs -> PackageVersions \cup {None}]

(***************************************************************************)
(* The workers of a version run from the directory its row names, which is *)
(* that of a signed release and where its user interface comes from, also  *)
(* when two releases of a version are signed, when Core ends in the middle *)
(* of an installation, and when an upgrade waits; a row whose files are    *)
(* intact has its factory.                                                 *)
(***************************************************************************)
WorkersFollowPackages ==
  /\ \A v \in PackageVersions : factory[v] # None => factory[v] = package[v]
  /\ \A v \in PackageVersions : package[v] # None =>
        ReleaseOf(v, package[v]) \in Releases /\ directory[ReleaseOf(v, package[v])] # "none"
  /\ \A v \in PackageVersions : Intact(v) => factory[v] # None
  /\ \A i \in Installs : target[i] # None => package[target[i]] # None
  /\ \A i \in Installs : ServesUi(i) => factory[install[i].version] = package[install[i].version]

(***************************************************************************)
(* No two installations have the same version, unless one of them came to  *)
(* it by an upgrade, which does not ask (installPlugin, upgradePlugin).    *)
(***************************************************************************)
VersionsInstalledOnce ==
  \A i, j \in Installs : (i # j /\ install[i].status \in {"installed", "disabled"}
                           /\ install[j].status \in {"installed", "disabled"}
                           /\ install[i].version = install[j].version) => install[i].moved \/ install[j].moved

(* Packages, their rows and their factories as a whole.                    *)
PackagesSound == PackagesTypeOK /\ WorkersFollowPackages /\ VersionsInstalledOnce
=============================================================================

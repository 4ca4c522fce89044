------------------------------- MODULE Snapshots -------------------------------
(* backup-service.ts and upgrade-preflight.ts.  A snapshot is copied file by    *)
(* file into a directory with a random name, gets its manifest, and is renamed  *)
(* to its destination; a restore verifies the manifest and copies the other     *)
(* way.  "Stop Core before calling this" is a request: nothing keeps Core from  *)
(* running, so its commits and checkpoints interleave with the copies.          *)
EXTENDS Nothing, Naturals

CONSTANTS
  Database, Wal,   \* carmediahub.sqlite and carmediahub.sqlite-wal
  OtherFiles,      \* the keys, credentials.json and what components/, plugins/ hold
  MaxContent       \* bound on the contents a file goes through

ASSUME SnapshotsAssumption == Database # Wal /\ MaxContent \in Nat \ {0} /\ None \notin 1..MaxContent

Files == {Database, Wal} \cup OtherFiles

FileContents == 1..MaxContent

Directories == [Files -> FileContents \cup {None}]

NoFiles == [f \in Files |-> None]

VARIABLES
  live,       \* the data directory
  coreUp,
  newest,     \* the last content Core wrote
  snapshot,   \* the destination of the backup: its files and its manifest
  restored,   \* the directory a snapshot is restored into
  tool,       \* the backup-cli process
  cleared     \* what the last upgrade preflight that passed had looked at

snapshots == <<live, coreUp, newest, snapshot, restored, tool, cleared>>

NoTool == [kind |-> "none"]

Present(tree) == {f \in Files : tree[f] # None}

(* What a Core opening these files reads: the log over the main file. *)
Committed(tree) == IF tree[Wal] # None THEN tree[Wal] ELSE tree[Database]

SnapshotsInit ==
  /\ live = [f \in Files |-> IF f = Wal THEN None ELSE 1]
  /\ coreUp = FALSE
  /\ newest = 1
  /\ snapshot = None
  /\ restored = None
  /\ tool = NoTool
  /\ cleared = None

--------------------------------------------------------------------------------
(* Core, which the tools run beside.                                            *)

Disturbed == tool' = IF tool.kind = "backup" THEN [tool EXCEPT !.quiet = FALSE] ELSE tool

CoreStarts == /\ ~coreUp /\ coreUp' = TRUE
              /\ UNCHANGED <<live, newest, snapshot, restored, tool, cleared>>

Commits(f) ==
  /\ coreUp
  /\ newest < MaxContent
  /\ newest' = newest + 1
  /\ live' = [live EXCEPT ![f] = newest + 1]
  /\ Disturbed
  /\ UNCHANGED <<coreUp, snapshot, restored, cleared>>

Checkpoints(stop) ==
  /\ coreUp
  /\ live[Wal] # None \/ stop
  /\ live' = [live EXCEPT ![Database] = Committed(live), ![Wal] = None]
  /\ coreUp' = ~stop
  /\ Disturbed
  /\ UNCHANGED <<newest, snapshot, restored, cleared>>

CoreIsKilled == /\ coreUp /\ coreUp' = FALSE
                /\ UNCHANGED <<live, newest, snapshot, restored, tool, cleared>>

--------------------------------------------------------------------------------
(* createBackupSnapshot                                                         *)

(* "was" and "quiet" only record, for the properties, the data directory at the *)
(* start and whether Core has changed it since.                                 *)
BeginBackup ==
  /\ tool = NoTool
  /\ snapshot = None
  /\ tool' = [kind |-> "backup", left |-> Present(live), temporary |-> NoFiles,
              was |-> live, quiet |-> TRUE]
  /\ UNCHANGED <<live, coreUp, newest, snapshot, restored, cleared>>

(* The next file: the manifest and the copies follow managedFiles, in which the *)
(* database comes before its log, and only then the directories.                *)
NextFile(f) ==
  /\ f \in tool.left
  /\ f # Database => Database \notin tool.left
  /\ f \notin {Database, Wal} => Wal \notin tool.left

CopyIn(f) ==
  /\ tool.kind = "backup"
  /\ NextFile(f)
  /\ tool' = IF live[f] = None THEN NoTool
             ELSE [tool EXCEPT !.left = @ \ {f}, !.temporary[f] = live[f]]
  /\ UNCHANGED <<live, coreUp, newest, snapshot, restored, cleared>>

(* The manifest lists the digests of the copies. *)
FaultyPublish ==
  /\ tool.kind = "backup"
  /\ snapshot' = [files |-> tool.temporary, manifest |-> tool.temporary,
                  was |-> tool.was, quiet |-> tool.quiet, altered |-> FALSE]
  /\ tool' = NoTool
  /\ UNCHANGED <<live, coreUp, newest, restored, cleared>>

Publish ==
  /\ tool.kind = "backup"
  /\ tool.left = {}
  /\ snapshot' = [files |-> tool.temporary, manifest |-> tool.temporary,
                  was |-> tool.was, quiet |-> tool.quiet, altered |-> FALSE]
  /\ tool' = NoTool
  /\ UNCHANGED <<live, coreUp, newest, restored, cleared>>

(* A full disk, a kill or a power loss ends either tool where it is; what it    *)
(* had copied lies under a name nobody looks for.                               *)
ToolDies ==
  /\ tool # NoTool
  /\ tool' = NoTool
  /\ UNCHANGED <<live, coreUp, newest, snapshot, restored, cleared>>

(* Somebody edits, truncates or removes a file of the snapshot, or all of it. *)
Tampered(f, content) ==
  /\ snapshot # None
  /\ snapshot.files[f] # content
  /\ snapshot' = [snapshot EXCEPT !.files[f] = content, !.altered = TRUE]
  /\ tool' = IF tool.kind = "restore" THEN [tool EXCEPT !.quiet = FALSE] ELSE tool
  /\ UNCHANGED <<live, coreUp, newest, restored, cleared>>

SnapshotDeleted ==
  /\ snapshot # None
  /\ snapshot' = None
  /\ UNCHANGED <<live, coreUp, newest, restored, tool, cleared>>

--------------------------------------------------------------------------------
(* verifyBackupSnapshot, restoreBackupSnapshot, checkUpgradePreflight           *)

Verified ==
  /\ snapshot # None
  /\ \A f \in Present(snapshot.manifest) : snapshot.files[f] = snapshot.manifest[f]
  /\ Database \in Present(snapshot.manifest)

BeginRestore ==
  /\ tool = NoTool
  /\ Verified
  /\ restored = None
  /\ tool' = [kind |-> "restore", left |-> Present(snapshot.manifest), temporary |-> NoFiles,
              was |-> snapshot.manifest, quiet |-> TRUE]
  /\ UNCHANGED <<live, coreUp, newest, snapshot, restored, cleared>>

CopyOut(f) ==
  /\ tool.kind = "restore"
  /\ NextFile(f)
  /\ tool' = IF snapshot = None THEN NoTool
             ELSE IF snapshot.files[f] = None THEN NoTool
             ELSE [tool EXCEPT !.left = @ \ {f}, !.temporary[f] = snapshot.files[f]]
  /\ UNCHANGED <<live, coreUp, newest, snapshot, restored, cleared>>

PlaceRestored ==
  /\ tool.kind = "restore"
  /\ tool.left = {}
  /\ restored' = [files |-> tool.temporary, was |-> tool.was, quiet |-> tool.quiet]
  /\ tool' = NoTool
  /\ UNCHANGED <<live, coreUp, newest, snapshot, cleared>>

(* Only the main database file is compared with the data directory. *)
Preflight ==
  /\ Verified
  /\ live[Database] = snapshot.manifest[Database]
  /\ cleared' = [data |-> live, snapshot |-> snapshot.manifest]
  /\ UNCHANGED <<live, coreUp, newest, snapshot, restored, tool>>

SnapshotsNext ==
  \/ CoreStarts \/ CoreIsKilled
  \/ \E f \in Files \ {Database} : Commits(f)
  \/ \E stop \in BOOLEAN : Checkpoints(stop)
  \/ BeginBackup \/ Publish \/ ToolDies \/ SnapshotDeleted
  \/ \E f \in Files : CopyIn(f) \/ CopyOut(f)
  \/ \E f \in Files, content \in FileContents \cup {None} : Tampered(f, content)
  \/ BeginRestore \/ PlaceRestored \/ Preflight

SnapshotsSpec == SnapshotsInit /\ [][SnapshotsNext]_snapshots

--------------------------------------------------------------------------------
SnapshotsTypeOK ==
  /\ live \in Directories /\ coreUp \in BOOLEAN /\ newest \in FileContents
  /\ \/ snapshot = None
     \/ snapshot \in [files : Directories, manifest : Directories, was : Directories,
                      quiet : BOOLEAN, altered : BOOLEAN]
  /\ \/ restored = None
     \/ restored \in [files : Directories, was : Directories, quiet : BOOLEAN]
  /\ \/ tool = NoTool
     \/ tool \in [kind : {"backup", "restore"}, left : SUBSET Files, temporary : Directories,
                  was : Directories, quiet : BOOLEAN]
  /\ cleared = None \/ cleared \in [data : Directories, snapshot : Directories]

(* A snapshot that Core did not write under is the data directory at one        *)
(* instant, whatever died in between.                                           *)
SnapshotIsOneInstant ==
  snapshot # None => (snapshot.quiet => snapshot.manifest = snapshot.was)

(* A restored directory is never partial: it is the verified snapshot, database *)
(* included, unless the snapshot was altered while it was being copied.         *)
RestoredIsWhole ==
  restored # None =>
    /\ Present(restored.files) = Present(restored.was)
    /\ Database \in Present(restored.files)
    /\ restored.quiet => restored.files = restored.was

(* When Core had been closed and not killed, a snapshot that passed the upgrade *)
(* preflight gives back the committed data the upgrade starts from, even when   *)
(* Core was running while it was taken: a log copied after its database is      *)
(* newer than it, and the database no longer is that one once the log is gone.  *)
PreflightIsCurrent ==
  cleared # None => (cleared.data[Wal] = None => Committed(cleared.snapshot) = Committed(cleared.data))

(* The backup tools: complete snapshots, complete restores, and a preflight     *)
(* that vouches for the snapshot of a closed Core.                              *)
SnapshotsSound == SnapshotsTypeOK /\ SnapshotIsOneInstant /\ RestoredIsWhole /\ PreflightIsCurrent
================================================================================

------------------------------- MODULE Tooling -------------------------------
(* The tools beside Core: the backup tools and the native installer, which     *)
(* share nothing with one another.                                             *)
EXTENDS Snapshots, NativeInstall

ToolingSpec == SnapshotsSpec /\ NativeSpec

(***************************************************************************)
(* What the tools beside Core leave behind: whole snapshots and restores   *)
(* (backup-service.ts, upgrade-preflight.ts), and an installation whose    *)
(* report and compensation are true (native-install-executor.mjs).         *)
(***************************************************************************)
ToolingSound == SnapshotsSound /\ InstallSound
==============================================================================

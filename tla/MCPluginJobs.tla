---------------------------- MODULE MCPluginJobs ----------------------------
(* PluginJobs with one installation used by two users. *)
EXTENDS PluginJobs

CONSTANTS alice, bob

MCScopes == {alice, bob}
MCTypes == {"transform", "other"}
MCHandled == {"transform"}
MCMedia == {"transform"}
MCRequests == {"request"}
MCRunLimits == {2}
(* alice is revoked as a user; the installation is disabled for both. *)
MCGroups == {{alice}, {alice, bob}}

(* One fixed choice for the columns of rows that do not exist yet. *)
MCInit ==
  /\ JobsInit
  /\ scopeOf = [j \in JobIds |-> alice]
  /\ typeOf = [j \in JobIds |-> "other"]
MCSpec == MCInit /\ [][JobsNext]_vars
MCFairSpec == MCSpec /\ JobsFairness
=============================================================================

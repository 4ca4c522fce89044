----------------------------- MODULE MCPlatform -----------------------------
(***************************************************************************)
(* The parts of Core that share no state with one another, checked side by *)
(* side: "focus" picks the part that moves in a behaviour, the others stay *)
(* in their initial state, so that the state spaces add up.  The accounts  *)
(* are looked at twice: two sessions without keys, and keys with one       *)
(* session.                                                                *)
(***************************************************************************)
EXTENDS RateLimits, Accounts, Components, CredentialVault, PluginData, ServiceBindings,
        MediaLibrary, RemoteMedia, PlatformRecords, Schema, Packages, Tooling

MCLimit == "login" :> [failures |-> 2, window |-> 2, lock |-> 3] @@ "entry" :> [failures |-> 3, window |-> 2, lock |-> 2]
MCCodes == [b \in 1..1 |-> {"code"}]
MCSigned == [v \in Versions |-> IF v = "v1" THEN "signed1" ELSE "signed2"]
MCOf == "c1" :> "i1" @@ "c2" :> "i2"
MCBatches == {<<[version |-> 1, name |-> "a"], [version |-> 2, name |-> "b"]>>,
              <<[version |-> 1, name |-> "a"], [version |-> 1, name |-> "b"]>>,
              <<[version |-> 2, name |-> "a"]>>}
MCLists == [m \in Manifests |-> IF m = "listing" THEN BindingNames ELSE {}]
MCSize == "short" :> 2 @@ "long" :> 3
MCReleases == {[version |-> "v", digest |-> "a"], [version |-> "v", digest |-> "b"], [version |-> "w", digest |-> "a"]}

VARIABLE focus

platform == <<focus, limits, accounts, components, vault, pluginData, bindings, media, remote, records,
              schema, packages, snapshots, installation>>

(* Databases, hosts and media of every kind for the parts about them, one for the others. *)
Init ==
  /\ focus \in {"limits", "sessions", "keys", "components", "vault", "pluginData", "bindings", "media",
               "remote", "records", "schema", "packages", "snapshots", "installation"}
  /\ IF focus = "schema" THEN SchemaInit ELSE StartsWith(NewDatabase)
  /\ NativeInit
  /\ focus # "installation" => host = [i \in StageNumbers |-> "missing"]
  /\ focus # "media" => edition = [r \in Roots |-> "short"]
  /\ LimitsInit /\ AccountsInit /\ ComponentsInit /\ VaultInit /\ PluginDataInit /\ BindingsInit
  /\ MediaInit /\ RemoteInit /\ RecordsInit /\ PackagesInit /\ SnapshotsInit

(* Every part but the one in focus stays as it is. *)
Resting ==
  /\ UNCHANGED focus
  /\ IF focus = "limits" THEN TRUE ELSE UNCHANGED limits
  /\ IF focus \in {"sessions", "keys"} THEN TRUE ELSE UNCHANGED accounts
  /\ IF focus = "components" THEN TRUE ELSE UNCHANGED components
  /\ IF focus = "vault" THEN TRUE ELSE UNCHANGED vault
  /\ IF focus = "pluginData" THEN TRUE ELSE UNCHANGED pluginData
  /\ IF focus = "bindings" THEN TRUE ELSE UNCHANGED bindings
  /\ IF focus = "media" THEN TRUE ELSE UNCHANGED media
  /\ IF focus = "remote" THEN TRUE ELSE UNCHANGED remote
  /\ IF focus = "records" THEN TRUE ELSE UNCHANGED records
  /\ IF focus = "schema" THEN TRUE ELSE UNCHANGED schema
  /\ IF focus = "packages" THEN TRUE ELSE UNCHANGED packages
  /\ IF focus = "snapshots" THEN TRUE ELSE UNCHANGED snapshots
  /\ IF focus = "installation" THEN TRUE ELSE UNCHANGED installation

Next ==
  /\ \/ focus = "limits" /\ LimitsNext
     \/ focus = "sessions" /\ AccountsNext /\ entryKey' = entryKey
     \/ focus = "keys" /\ AccountsNext /\ Cardinality({s \in Sessions : session'[s] # NoSession}) <= 1
     \/ focus = "components" /\ ComponentsNext
     \/ focus = "vault" /\ VaultNext
     \/ focus = "pluginData" /\ PluginDataNext
     \/ focus = "bindings" /\ BindingsNext
     \/ focus = "media" /\ MediaNext
     \/ focus = "remote" /\ RemoteNext
     \/ focus = "records" /\ RecordsNext
     \/ focus = "schema" /\ SchemaNext
     \/ focus = "packages" /\ PackagesNext
     \/ focus = "snapshots" /\ SnapshotsNext
     \/ focus = "installation" /\ NativeNext
  /\ Resting

Spec == Init /\ [][Next]_platform
=============================================================================

--------------------------- MODULE ServiceBindings ---------------------------
(***************************************************************************)
(* Service bindings: names under which plugins reach HTTP services.  The   *)
(* rows and their two readings, the one that admits a request              *)
(* (serviceBindingByName) and the one that tells administrators whom a     *)
(* binding admits (serviceBindingGrants), both of src/src/repository.ts,   *)
(* with the installations whose manifests and status they depend on.       *)
(***************************************************************************)
EXTENDS Nothing, Naturals, FiniteSets

CONSTANTS
  BindingIds, BindingNames, Plugins, Manifests,
  Lists          \* Lists[m]: the service bindings that manifest m asks for

ASSUME BindingsAssumption == Lists \in [Manifests -> SUBSET BindingNames] /\ None \notin BindingNames \cup Plugins

VARIABLES
  binding,       \* binding[b]: [name, owner]; owner None: of Core; NoBinding: no row
  plugin         \* plugin[i]: [status, manifest]

bindings == <<binding, plugin>>

NoBinding == [name |-> None, owner |-> None]
NoPlugin == [status |-> "none", manifest |-> None]

BindingsInit ==
  /\ binding = [b \in BindingIds |-> NoBinding]
  /\ plugin = [i \in Plugins |-> NoPlugin]

Installed(i) == plugin[i].status = "installed"
Listed(i, name) == Installed(i) /\ name \in Lists[plugin[i].manifest]

(* The index on name and installation keeps names unique within each. *)
Bind(b, name, owner) ==
  /\ binding[b] = NoBinding
  /\ owner # None => Installed(owner)
  /\ \A q \in BindingIds : binding[q] # [name |-> name, owner |-> owner]
  /\ binding' = [binding EXCEPT ![b] = [name |-> name, owner |-> owner]]
  /\ UNCHANGED plugin

Unbind(b) ==
  /\ binding[b] # NoBinding
  /\ binding' = [binding EXCEPT ![b] = NoBinding]
  /\ UNCHANGED plugin

(***************************************************************************)
(* The two readings.                                                       *)
(***************************************************************************)
Owned(name, owner) == {b \in BindingIds : binding[b] = [name |-> name, owner |-> owner]}

FaultyByName(name, i) == IF Owned(name, i) # {} THEN Owned(name, i) ELSE Owned(name, None)

ServiceBindingByName(name, i) ==
  IF Owned(name, i) = {} /\ Listed(i, name) THEN Owned(name, None) ELSE Owned(name, i)

Authorized(b) == IF binding[b].owner = None THEN {i \in Plugins : Listed(i, binding[b].name)} ELSE {}

(***************************************************************************)
(* Installations.                                                          *)
(***************************************************************************)
InstallPlugin(i, m) ==
  /\ plugin[i] = NoPlugin
  /\ plugin' = [plugin EXCEPT ![i] = [status |-> "installed", manifest |-> m]]
  /\ UNCHANGED binding

(* upgradePlugin() and rollbackPlugin() *)
ChangeManifest(i, m) ==
  /\ Installed(i) /\ plugin[i].manifest # m
  /\ plugin' = [plugin EXCEPT ![i].manifest = m]
  /\ UNCHANGED binding

DisablePlugin(i) ==
  /\ Installed(i)
  /\ plugin' = [plugin EXCEPT ![i].status = "disabled"]
  /\ UNCHANGED binding

EnablePlugin(i) ==
  /\ plugin[i].status = "disabled"
  /\ plugin' = [plugin EXCEPT ![i].status = "installed"]
  /\ UNCHANGED binding

UninstallPlugin(i) ==
  /\ plugin[i].status = "disabled"
  /\ plugin' = [plugin EXCEPT ![i].status = "uninstalled"]
  /\ binding' = [b \in BindingIds |-> IF binding[b].owner = i THEN NoBinding ELSE binding[b]]

BindingsNext ==
  \/ \E b \in BindingIds, name \in BindingNames, owner \in Plugins \cup {None} : Bind(b, name, owner)
  \/ \E b \in BindingIds : Unbind(b)
  \/ \E i \in Plugins, m \in Manifests : InstallPlugin(i, m)
  \/ \E i \in Plugins, m \in Manifests : ChangeManifest(i, m)
  \/ \E i \in Plugins : DisablePlugin(i)
  \/ \E i \in Plugins : EnablePlugin(i)
  \/ \E i \in Plugins : UninstallPlugin(i)

BindingsSpec == BindingsInit /\ [][BindingsNext]_bindings

BindingsTypeOK ==
  /\ binding \in [BindingIds -> [name : BindingNames \cup {None}, owner : Plugins \cup {None}]]
  /\ plugin \in [Plugins -> [status : {"none", "installed", "disabled", "uninstalled"},
                             manifest : Manifests \cup {None}]]

(***************************************************************************)
(* What administrators are told is what happens (serviceBindingGrants      *)
(* against serviceBindingByName): a plugin gets a binding of Core exactly  *)
(* when it is listed for it and has none of its own by that name, at most  *)
(* one binding answers, and no binding outlives its installation.          *)
(***************************************************************************)
GrantsTellTheTruth ==
  /\ BindingsTypeOK
  /\ \A i \in Plugins, name \in BindingNames :
        /\ Cardinality(ServiceBindingByName(name, i)) <= 1
        /\ \A b \in Owned(name, None) :
              b \in ServiceBindingByName(name, i) <=> (i \in Authorized(b) /\ Owned(name, i) = {})
  /\ \A b \in BindingIds : binding[b].owner # None => plugin[binding[b].owner].status \in {"installed", "disabled"}
=============================================================================

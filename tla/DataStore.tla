----------------------------- MODULE DataStore -----------------------------
(***************************************************************************)
(* What the SDK's PluginDataStore promises a plugin about its own rows,    *)
(* whatever backend Core chose (src/src/plugin-data-provider.ts): a write  *)
(* is one step, a batch of migrations is all or nothing and never renames  *)
(* a version, and deleting a scope's data takes all of it.                 *)
(***************************************************************************)
CONSTANTS Scopes, Keys, MigrationVersions, None

VARIABLES
  table,         \* table[<<s, x>>]: record x, or the name of migration x; None: no row
  asked          \* batches that were asked for: [scope, inputs]

OfScope(s) == {s} \X (Keys \cup MigrationVersions)

OnlyIn(cells) == \A cell \in DOMAIN table \ cells : table'[cell] = table[cell]

Write(s) == \E k \in Keys : OnlyIn({<<s, k>>})

(* All the migrations of one batch, and an applied one keeps its name.     *)
Migrate(s) ==
  \E q \in asked :
     /\ q.scope = s
     /\ OnlyIn({<<s, q.inputs[n].version>> : n \in DOMAIN q.inputs})
     /\ \A n \in DOMAIN q.inputs : LET cell == <<s, q.inputs[n].version>> IN
           table[cell] \in {None, q.inputs[n].name} /\ table'[cell] = q.inputs[n].name

Delete(s) == OnlyIn(OfScope(s)) /\ \A cell \in OfScope(s) : table'[cell] = None

DataInit == \A cell \in DOMAIN table : table[cell] = None

DataNext ==
  /\ DOMAIN table' = DOMAIN table
  /\ \/ UNCHANGED table
     \/ \E s \in Scopes : Write(s) \/ Migrate(s) \/ Delete(s)

DataSpec == DataInit /\ [][DataNext]_<<table, asked>>
=============================================================================

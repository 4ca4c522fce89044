----------------------------- MODULE PluginData -----------------------------
(***************************************************************************)
(* The logical data of plugins, statement by statement: the worker         *)
(* requests data.* and the data routes of src/src/app.ts, the provider     *)
(* (src/src/plugin-data-provider.ts) and its adapters.  Core's SQLite      *)
(* adapter (src/src/data-service.ts) awaits nothing, so that one operation *)
(* ends before the next begins; the statements of the PostgreSQL and MySQL *)
(* adapters each go to the client they were given, which is a pool.        *)
(***************************************************************************)
EXTENDS Nothing, Naturals, Sequences

CONSTANTS
  Scopes, Keys, Values, MigrationVersions, Names,
  Batches,       \* sequences of [version, name] that plugins ask for
  Connections,   \* of the client; SQLite has one
  Overlapping,   \* operations may overlap: not with SQLite
  Operations

ASSUME PluginDataAssumption ==
  /\ Overlapping \in BOOLEAN /\ Connections # {} /\ None \notin Names
  /\ Batches \subseteq Seq([version : MigrationVersions, name : Names])

VARIABLES
  rows,          \* rows[<<s, x>>], as committed: a record, or the name of migration x
  pending,       \* pending[c]: what the open transaction of c has written
  open,          \* connections that have an open transaction
  granted,       \* scopes whose installation has the capability db
  operation      \* operation[o]: [kind, scope, inputs, next]; next: its next statement

pluginData == <<rows, pending, open, granted, operation>>

Cells == Scopes \X (Keys \cup MigrationVersions)
NoRows == [cell \in {} |-> None]
NoOperation == [kind |-> "none", scope |-> None, inputs |-> <<>>, next |-> 0]

PluginDataInit ==
  /\ rows = [cell \in Cells |-> None]
  /\ pending = [c \in Connections |-> NoRows]
  /\ open = {}
  /\ granted = {}
  /\ operation = [o \in Operations |-> NoOperation]

Free(o) == operation[o].kind = "none"
Quiet == Overlapping \/ \A o \in Operations : Free(o)

(* What was written, over what was there. *)
Over(written, table) ==
  [cell \in DOMAIN written \cup DOMAIN table |-> IF cell \in DOMAIN written THEN written[cell] ELSE table[cell]]

View(c) == Over(pending[c], rows)

(* A statement that writes, on connection c. *)
Execute(c, written) ==
  IF c \in open THEN pending' = [pending EXCEPT ![c] = Over(written, @)] /\ UNCHANGED rows
                ELSE rows' = Over(written, rows) /\ UNCHANGED pending

(* put(), delete() and migrate() are one statement that writes.            *)
Put(s, k, c, value) ==
  /\ Quiet
  /\ Execute(c, [cell \in {<<s, k>>} |-> value])
  /\ UNCHANGED <<open, granted, operation>>

(* migrateBatch() and the deletion of a scope open a transaction.          *)
Started(o, s, kind, inputs) ==
  /\ Quiet /\ Free(o)
  /\ operation' = [operation EXCEPT ![o] = [kind |-> kind, scope |-> s, inputs |-> inputs, next |-> 1]]

BeginBatch(o, s, c, inputs) ==
  /\ Started(o, s, "batch", inputs)
  /\ open' = open \cup {c}
  /\ UNCHANGED <<rows, pending, granted>>

(* onWorkerRequest, data.*: with the capability db.                        *)
DataRequest(s, c) ==
  /\ s \in granted
  /\ \/ \E k \in Keys, value \in Values \cup {None} : Put(s, k, c, value)
     \/ \E o \in Operations, inputs \in Batches : BeginBatch(o, s, c, inputs)

(* DELETE /api/plugins/:id/data, by the user.                              *)
BeginDelete(o, s, c) ==
  /\ Started(o, s, "delete", <<>>)
  /\ open' = open \cup {c}
  /\ UNCHANGED <<rows, pending, granted>>

Now(o) == operation[o].inputs[operation[o].next]
Cell(o) == <<operation[o].scope, Now(o).version>>
Going(o, kind) == operation[o].kind = kind /\ operation[o].next > 0
Advance(o) == operation' = [operation EXCEPT ![o].next = @ + 1]
Broken(o) == operation' = [operation EXCEPT ![o].next = 0]

(* The SELECT of a migration, and the INSERT that follows if it is new.    *)
MigrateOne(o, c) ==
  /\ Going(o, "batch") /\ operation[o].next <= Len(operation[o].inputs)
  /\ \/ View(c)[Cell(o)] = None /\ Execute(c, [cell \in {Cell(o)} |-> Now(o).name]) /\ Advance(o)
     \/ View(c)[Cell(o)] = Now(o).name /\ UNCHANGED <<rows, pending>> /\ Advance(o)
     \/ View(c)[Cell(o)] \notin {None, Now(o).name} /\ UNCHANGED <<rows, pending>> /\ Broken(o)
  /\ UNCHANGED <<open, granted>>

(* First the records of the scope, then its migrations.                    *)
DeletePart(o, c) ==
  /\ Going(o, "delete") /\ operation[o].next <= 2
  /\ LET part == IF operation[o].next = 1 THEN Keys ELSE MigrationVersions
     IN  Execute(c, [cell \in {operation[o].scope} \X part |-> None])
  /\ Advance(o)
  /\ UNCHANGED <<open, granted>>

(* A statement that fails: a full disk, a lock, a lost server.             *)
StatementFails(o) ==
  /\ operation[o].next > 0
  /\ Broken(o)
  /\ UNCHANGED <<rows, pending, open, granted>>

Finished(o, c) ==
  /\ operation' = [operation EXCEPT ![o] = NoOperation]
  /\ open' = open \ {c}
  /\ pending' = [pending EXCEPT ![c] = NoRows]
  /\ UNCHANGED granted

Commit(o, c) ==
  /\ \/ Going(o, "batch") /\ operation[o].next > Len(operation[o].inputs)
     \/ Going(o, "delete") /\ operation[o].next > 2
  /\ rows' = View(c)
  /\ Finished(o, c)

FaultyRollback(o, c) ==
  /\ ~Free(o) /\ operation[o].next = 0
  /\ rows' = View(c)
  /\ Finished(o, c)

Rollback(o, c) ==
  /\ ~Free(o) /\ operation[o].next = 0
  /\ Finished(o, c)
  /\ UNCHANGED rows

(* The capability, with the installation and the user behind it.           *)
Grant(s) ==
  /\ Quiet
  /\ granted' = IF s \in granted THEN granted \ {s} ELSE granted \cup {s}
  /\ UNCHANGED <<rows, pending, open, operation>>

DataCrash ==
  /\ operation' = [o \in Operations |-> NoOperation]
  /\ open' = {} /\ pending' = [c \in Connections |-> NoRows]
  /\ UNCHANGED <<rows, granted>>

PluginDataNext ==
  \/ \E s \in Scopes, c \in Connections : DataRequest(s, c)
  \/ \E o \in Operations, s \in Scopes, c \in Connections : BeginDelete(o, s, c)
  \/ \E o \in Operations, c \in Connections : MigrateOne(o, c) \/ DeletePart(o, c)
  \/ \E o \in Operations : StatementFails(o)
  \/ \E o \in Operations, c \in Connections : Commit(o, c)
  \/ \E o \in Operations, c \in Connections : Rollback(o, c)
  \/ \E s \in Scopes : Grant(s)
  \/ DataCrash

PluginDataSpec == PluginDataInit /\ [][PluginDataNext]_pluginData

PluginDataTypeOK ==
  /\ rows \in [Cells -> Values \cup Names \cup {None}]
  /\ \A c \in Connections : DOMAIN pending[c] \subseteq Cells
  /\ open \subseteq Connections /\ granted \subseteq Scopes
  /\ \A o \in Operations : operation[o].scope \in Scopes \cup {None} /\ operation[o].next \in Nat

(***************************************************************************)
(* What is committed changes as the plugin's store promises, when          *)
(* statements fail and when Core ends between two of them: "migration      *)
(* batches use one transaction and roll back conflicts"                    *)
(* (src/src/postgres-data-service.test.ts:84).  This holds of one          *)
(* connection without overlap, which is SQLite; a pool breaks it.          *)
(***************************************************************************)
Data == INSTANCE DataStore
          WITH table <- rows,
               asked <- {[scope |-> operation[o].scope, inputs |-> operation[o].inputs] :
                            o \in {q \in Operations : operation[q].kind = "batch"}}
ImplementsDataStore == Data!DataSpec
=============================================================================

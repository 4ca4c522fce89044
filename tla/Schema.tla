------------------------------- MODULE Schema -------------------------------
(***************************************************************************)
(* openDatabase() of src/src/database.ts: what it does to a database that  *)
(* an earlier release left, statement by statement.  Core may end, or a    *)
(* statement fail, between any two; what is not in a transaction stays.    *)
(*                                                                         *)
(* Two tables are rebuilt because their key changed.  The tables of        *)
(* components and of their versions stand for those that are only created  *)
(* or backfilled.                                                          *)
(***************************************************************************)
EXTENDS Naturals

CONSTANTS
  TableRows,     \* rows that a table may hold
  SchemaVersion, \* CORE_SCHEMA_VERSION
  NewestVersion  \* bound: the newest version that a database may be of

ASSUME SchemaAssumption == NewestVersion \in Nat /\ SchemaVersion \in 0 .. NewestVersion

VARIABLES
  stage,         \* what is done next: [step, table]
  work,          \* the database as this connection sees it
  disk,          \* what is there after Core ends
  first,         \* history: the database that was found
  known          \* history: rows that are, or were stored since

schema == <<stage, work, disk, first, known>>

Rebuilt == {"packages", "bindings"}
Tables == Rebuilt \cup {"components", "versions"}
KeyColumn == [packages |-> "runtime_entry", bindings |-> "installation_id"]
Columns == {"runtime_entry", "installation_id", "verified"}   \* the last for all the others

Databases ==
  [version : 0 .. NewestVersion, key : [Rebuilt -> {"missing", "old", "new"}], columns : SUBSET Columns,
   rows : [Tables -> SUBSET TableRows], copied : [Rebuilt -> SUBSET TableRows], index : BOOLEAN, ledger : BOOLEAN]

(* Databases of earlier releases, and of later ones. *)
Left(db) ==
  /\ db.copied = [t \in Rebuilt |-> {}]
  /\ \A t \in Rebuilt : db.key[t] = "missing" => db.rows[t] = {} /\ KeyColumn[t] \notin db.columns
  /\ db.key["bindings"] # "new" => ~db.index
  /\ db.version > SchemaVersion => db.columns = Columns /\ db.index /\ db.ledger

At(step, table) == [step |-> step, table |-> table]
Closed == At("closed", "all")
Opened == At("opened", "all")

StartsWith(db) ==
  /\ disk = db /\ work = db /\ first = db
  /\ known = db.rows
  /\ stage = Closed

NewDatabase ==
  [version |-> 0, key |-> [t \in Rebuilt |-> "missing"], columns |-> {}, rows |-> [t \in Tables |-> {}],
   copied |-> [t \in Rebuilt |-> {}], index |-> FALSE, ledger |-> FALSE]

SchemaInit == \E db \in Databases : Left(db) /\ StartsWith(db)

FaultyInTransaction(where) == where.step \in {"copy", "drop"}
InTransaction(where) == where.step \in {"copy", "drop", "rename", "commit"}

(* One statement at the step "from"; "db" is what it leaves. *)
Statement(from, to, db) ==
  /\ stage = from /\ stage' = to
  /\ work' = db
  /\ disk' = IF InTransaction(to) THEN disk ELSE db
  /\ UNCHANGED <<first, known>>

CheckVersion ==
  Statement(Closed, IF work.version > SchemaVersion THEN At("refused", "all") ELSE At("create", "all"), work)

(* CREATE TABLE IF NOT EXISTS: what is there is left as it is. *)
CreateTables ==
  LET missing == {t \in Rebuilt : work.key[t] = "missing"}
  IN  Statement(At("create", "all"), At("column", "packages"),
        [work EXCEPT !.key = [t \in Rebuilt |-> IF t \in missing THEN "new" ELSE @[t]],
                     !.columns = @ \cup {KeyColumn[t] : t \in missing}])

AddKeyColumn(t) ==
  Statement(At("column", t), At("begin", t), [work EXCEPT !.columns = @ \cup {KeyColumn[t]}])

After(t) == IF t = "packages" THEN At("column", "bindings") ELSE At("index", "all")

(* A table with the old key is copied, dropped and replaced by its copy.   *)
BeginRebuild(t) ==
  Statement(At("begin", t), IF work.key[t] = "old" THEN At("copy", t) ELSE After(t), work)

CopyRows(t) ==
  /\ KeyColumn[t] \in work.columns               \* or the SELECT fails
  /\ Statement(At("copy", t), At("drop", t), [work EXCEPT !.copied[t] = work.rows[t]])

DropTable(t) ==
  Statement(At("drop", t), At("rename", t),
    [work EXCEPT !.key[t] = "missing", !.rows[t] = {}, !.index = @ /\ t # "bindings"])

RenameTable(t) ==
  Statement(At("rename", t), At("commit", t),
    [work EXCEPT !.key[t] = "new", !.rows[t] = work.copied[t], !.copied[t] = {}])

CommitRebuild(t) == Statement(At("commit", t), After(t), work)

CreateIndex == Statement(At("index", "all"), At("columns", "all"), [work EXCEPT !.index = TRUE])

AddColumns == Statement(At("columns", "all"), At("backfill", "all"), [work EXCEPT !.columns = Columns])

(* INSERT OR IGNORE *)
Backfill ==
  Statement(At("backfill", "all"), At("ledger", "all"),
    [work EXCEPT !.rows["versions"] = @ \cup work.rows["components"]])

RecordMigration == Statement(At("ledger", "all"), At("version", "all"), [work EXCEPT !.ledger = TRUE])

SetVersion == Statement(At("version", "all"), Opened, [work EXCEPT !.version = SchemaVersion])

(* Core ends, or a statement throws: its transaction is rolled back. *)
StopOpening ==
  /\ stage # Closed
  /\ stage' = Closed
  /\ work' = disk
  /\ UNCHANGED <<disk, first, known>>

(* Core stores rows once it has opened the database. *)
StoreRow(t, x) ==
  /\ stage = Opened
  /\ work' = [work EXCEPT !.rows[t] = @ \cup {x}]
  /\ disk' = work'
  /\ known' = [known EXCEPT ![t] = @ \cup {x}]
  /\ UNCHANGED <<stage, first>>

SchemaNext ==
  \/ CheckVersion \/ CreateTables
  \/ \E t \in Rebuilt :
        \/ AddKeyColumn(t) \/ BeginRebuild(t) \/ CopyRows(t)
        \/ DropTable(t) \/ RenameTable(t) \/ CommitRebuild(t)
  \/ CreateIndex \/ AddColumns \/ Backfill \/ RecordMigration \/ SetVersion
  \/ StopOpening
  \/ \E t \in Rebuilt, x \in TableRows : StoreRow(t, x)

SchemaSpec == SchemaInit /\ [][SchemaNext]_schema

SchemaTypeOK ==
  /\ stage.step \in {"closed", "refused", "create", "column", "begin", "copy", "drop", "rename", "commit",
                     "index", "columns", "backfill", "ledger", "version", "opened"}
  /\ stage.table \in Rebuilt \cup {"all"}
  /\ work \in Databases /\ disk \in Databases /\ first \in Databases
  /\ known \in [Tables -> SUBSET TableRows]

(* Wherever Core ends, and however often, no row that was stored is lost.  *)
RowsSurvive == \A t \in Tables : known[t] \subseteq disk.rows[t]

(***************************************************************************)
(* A database that was opened has the schema of this release, whatever the *)
(* release and the interrupted attempts before it left.                    *)
(***************************************************************************)
OpenedIsComplete ==
  stage = Opened =>
    /\ work.key = [t \in Rebuilt |-> "new"] /\ work.columns = Columns /\ work.index
    /\ work.ledger /\ work.version = SchemaVersion
    /\ work.rows["components"] \subseteq work.rows["versions"]

(* A database of a later release is not touched (database.test.ts:34).     *)
NewerIsUntouched == first.version > SchemaVersion => disk = first /\ stage # Opened

(***************************************************************************)
(* Opening the database, interrupted anywhere and repeated by this or a    *)
(* later release (openDatabase, database.ts 18-387).                     *)
(***************************************************************************)
SchemaSound == SchemaTypeOK /\ RowsSurvive /\ OpenedIsComplete /\ NewerIsUntouched
=============================================================================

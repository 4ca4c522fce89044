--------------------------- MODULE PlatformRecords ---------------------------
(***************************************************************************)
(* What plugins leave with the platform for their user: history            *)
(* (src/src/history-service.ts), catalog entries                           *)
(* (src/src/catalog-service.ts) and notifications                          *)
(* (src/src/notification-service.ts), with the worker requests, which act  *)
(* in the scope of one user and installation, and the routes, which act    *)
(* for a user.  Every operation is one statement.                          *)
(***************************************************************************)
EXTENDS Nothing, FiniteSets

CONSTANTS
  Owners, Makers,   \* users and installations
  Ids,              \* identifiers of rows
  Chosen,           \* identifiers that plugins choose for catalog entries themselves
  Categories

ASSUME RecordsAssumption == Chosen \subseteq Ids /\ None \notin Owners \cup Makers

VARIABLES
  entry,            \* entry[x]: [kind, user, of, category, read]; kind "gone": deleted
  actor             \* history: [user, of] of the last operation; of = None: a route

records == <<entry, actor>>

Kinds == {"history", "catalog", "notification"}
NoEntry == [kind |-> "none", user |-> None, of |-> None, category |-> None, read |-> FALSE]

RecordsInit ==
  /\ entry = [x \in Ids |-> NoEntry]
  /\ actor = [user |-> None, of |-> None]

By(u, i) == actor' = [user |-> u, of |-> i]
Within(x, kind, u) == entry[x].kind = kind /\ entry[x].user = u
InScope(x, kind, u, i) == Within(x, kind, u) /\ entry[x].of = i

Row(kind, u, i, category) == [kind |-> kind, user |-> u, of |-> i, category |-> category, read |-> FALSE]

(* history.record and notifications.publish make a new identifier. *)
Insert(x, kind, u, i, category) ==
  /\ x \notin Chosen
  /\ entry[x] = NoEntry
  /\ entry' = [entry EXCEPT ![x] = Row(kind, u, i, category)]
  /\ By(u, i)

(* INSERT OR REPLACE by the identifier alone.  A plugin knows those of its *)
(* own scope, and those that it chose.                                     *)
RegisterEntry(x, u, i, category) ==
  /\ \/ entry[x] = NoEntry /\ x \notin Chosen
     \/ InScope(x, "catalog", u, i)
     \/ x \in Chosen
  /\ entry' = [entry EXCEPT ![x] = Row("catalog", u, i, category)]
  /\ By(u, i)

(* Rows of these categories; of all, where none is asked for. *)
InCategory(which) == {x \in Ids : which # {} => entry[x].category \in which}

Deleted(xs) ==
  entry' = [x \in Ids |-> IF x \in xs THEN [NoEntry EXCEPT !.kind = "gone"] ELSE entry[x]]

FaultyClearHistory(u, i, which) ==
  Deleted({x \in InCategory(which) : Within(x, "history", u)}) /\ By(u, i)

(* history.clear: one category, or all of the scope. *)
ClearHistory(u, i, which) ==
  Deleted({x \in InCategory(which) : InScope(x, "history", u, i)}) /\ By(u, i)

(* DELETE /api/history: of the user, of one plugin or of all. *)
ClearUser(u, which, of) ==
  /\ Deleted({x \in InCategory(which) : Within(x, "history", u) /\ (of # None => entry[x].of = of)})
  /\ By(u, None)

RemoveEntry(u, i, x) == Deleted({y \in {x} : InScope(y, "catalog", u, i)}) /\ By(u, i)

Marked(xs) == entry' = [x \in Ids |-> IF x \in xs THEN [entry[x] EXCEPT !.read = TRUE] ELSE entry[x]]

(* markRead, markAllRead *)
Mark(u, i, xs) == Marked({x \in xs : InScope(x, "notification", u, i)}) /\ By(u, i)

(* POST /api/notifications/:id/read and read-all *)
MarkUser(u, xs) == Marked({x \in xs : Within(x, "notification", u)}) /\ By(u, None)

OneOrAll == {{x} : x \in Ids} \cup {Ids}
Filters == {{c} : c \in Categories} \cup {{}}

(***************************************************************************)
(* onWorkerRequest, in the scope of a worker's credential, and the routes. *)
(***************************************************************************)
HistoryRequest(u, i) ==
  \/ \E x \in Ids, c \in Categories : Insert(x, "history", u, i, c)
  \/ \E which \in Filters : ClearHistory(u, i, which)

CatalogRequest(u, i) ==
  \/ \E x \in Ids, c \in Categories : RegisterEntry(x, u, i, c)
  \/ \E x \in Ids : RemoveEntry(u, i, x)

NotificationRequest(u, i) ==
  \/ \E x \in Ids, c \in Categories : Insert(x, "notification", u, i, c)
  \/ \E xs \in OneOrAll : Mark(u, i, xs)

HistoryRoute(u) == \E i \in Makers \cup {None}, which \in Filters : ClearUser(u, which, i)

NotificationRoute(u) == \E xs \in OneOrAll : MarkUser(u, xs)

RecordsNext ==
  \E u \in Owners :
     \/ \E i \in Makers : HistoryRequest(u, i)
     \/ \E i \in Makers : CatalogRequest(u, i)
     \/ \E i \in Makers : NotificationRequest(u, i)
     \/ HistoryRoute(u)
     \/ NotificationRoute(u)

RecordsSpec == RecordsInit /\ [][RecordsNext]_records

RecordsTypeOK ==
  /\ entry \in [Ids -> [kind : Kinds \cup {"none", "gone"}, user : Owners \cup {None},
                        of : Makers \cup {None}, category : Categories \cup {None}, read : BOOLEAN]]
  /\ actor \in [user : Owners \cup {None}, of : Makers \cup {None}]

(***************************************************************************)
(* A row changes by its own scope or its own user only, never returns once *)
(* deleted, and is never unread again.  An entry whose identifier a plugin *)
(* chose is the exception: any scope that chooses the same takes it        *)
(* (catalog-service.ts: INSERT OR REPLACE by id).                          *)
(***************************************************************************)
RecordsKept ==
  [][\A x \in Ids \ Chosen : entry'[x] # entry[x] /\ entry[x] # NoEntry =>
        /\ entry[x].kind # "gone"
        /\ actor'.user = entry[x].user /\ actor'.of \in {None, entry[x].of}
        /\ entry'[x].read \/ ~entry[x].read \/ entry'[x].kind = "gone"]_records
=============================================================================

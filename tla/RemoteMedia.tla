----------------------------- MODULE RemoteMedia -----------------------------
(***************************************************************************)
(* Remote media sources (src/src/remote-webdav-provider.ts): a row and an  *)
(* entry of a map in memory for each, the items that were listed and the   *)
(* playback sessions, which are only in memory, with the routes and the    *)
(* worker requests of src/src/app.ts.  A request to the server is awaited  *)
(* after its source, binding and credential were looked up.                *)
(***************************************************************************)
EXTENDS Nothing, FiniteSets

CONSTANTS
  Sources,       \* sources, of one user and one installation
  Keyed,         \* those that are asked with a credential
  Found,         \* items that a directory request can expose
  Tickets,       \* playback sessions
  Fetches        \* requests under way (bound)

ASSUME RemoteAssumption == Keyed \subseteq Sources /\ None \notin Sources \cup Found

VARIABLES
  sourceRow,     \* sourceRow[h]: none, live or revoked
  held,          \* the map of sources
  item,          \* item[x]: the source that exposed x, or None
  ticket,        \* ticket[t]: [source, item, late]
  fetch,         \* fetch[f]: [kind, source], with the source looked up before the await
  secret,        \* the credential of the keyed sources resolves
  place,         \* the status of the installation
  withdrawn      \* history: sources whose revocation was answered

remote == <<sourceRow, held, item, ticket, fetch, secret, place, withdrawn>>
inMemory == <<item, ticket>>

NoTicket == [source |-> None, item |-> None, late |-> FALSE]
NoFetch == [kind |-> "none", source |-> None]

RemoteInit ==
  /\ sourceRow = [h \in Sources |-> "none"]
  /\ held = {} /\ withdrawn = {}
  /\ item = [x \in Found |-> None]
  /\ ticket = [t \in Tickets |-> NoTicket]
  /\ fetch = [f \in Fetches |-> NoFetch]
  /\ secret = TRUE
  /\ place = "installed"

(***************************************************************************)
(* Routes of administrators.                                               *)
(***************************************************************************)
Register(h) ==
  /\ sourceRow' = [sourceRow EXCEPT ![h] = "live"]
  /\ held' = held \cup {h}

RegisterSource(h) ==
  /\ sourceRow[h] = "none"
  /\ place = "installed" /\ (h \in Keyed => secret)
  /\ Register(h)
  /\ UNCHANGED <<inMemory, fetch, secret, place, withdrawn>>

FaultyRevokeSource(h) ==
  /\ h \in held
  /\ held' = held \ {h}
  /\ withdrawn' = withdrawn \cup {h}
  /\ UNCHANGED <<inMemory, fetch, secret, place, sourceRow>>

(* The entry of the map goes first; if the row cannot be changed then, the *)
(* route fails and the next start brings the source back.                  *)
Unregister(h, saved) ==
  /\ held' = held \ {h}
  /\ sourceRow' = IF saved THEN [sourceRow EXCEPT ![h] = "revoked"] ELSE sourceRow

RevokeSource(h) ==
  /\ h \in held
  /\ \/ Unregister(h, TRUE) /\ withdrawn' = withdrawn \cup {h}
     \/ Unregister(h, FALSE) /\ UNCHANGED withdrawn
  /\ UNCHANGED <<inMemory, fetch, secret, place>>

(***************************************************************************)
(* Requests of a worker, and the health route.                             *)
(***************************************************************************)
Ask(f, kind, h) ==
  /\ fetch[f] = NoFetch
  /\ h \in held /\ (h \in Keyed => secret)
  /\ fetch' = [fetch EXCEPT ![f] = [kind |-> kind, source |-> h]]

List(f, h) ==
  /\ Ask(f, "list", h)
  /\ UNCHANGED <<sourceRow, held, inMemory, secret, place, withdrawn>>

(* health() asks for administrators, whatever became of the installation. *)
Health(f, h) ==
  /\ Ask(f, "health", h)
  /\ UNCHANGED <<sourceRow, held, inMemory, secret, place, withdrawn>>

Probe(f, x) ==
  /\ item[x] # None
  /\ Ask(f, "probe", item[x])
  /\ UNCHANGED <<sourceRow, held, inMemory, secret, place, withdrawn>>

(* createPlayback() asks for the item only. *)
CreateTicket(t, x) ==
  /\ ticket[t] = NoTicket /\ item[x] # None
  /\ ticket' = [ticket EXCEPT ![t] = [source |-> item[x], item |-> x, late |-> FALSE]]
  /\ UNCHANGED <<sourceRow, held, item, fetch, secret, place, withdrawn>>

TicketExpires(t) ==
  /\ ticket[t] # NoTicket
  /\ ticket' = [ticket EXCEPT ![t].late = TRUE]
  /\ UNCHANGED <<sourceRow, held, item, fetch, secret, place, withdrawn>>

ReadTicket(f, t) ==
  /\ ticket[t] # NoTicket /\ ~ticket[t].late
  /\ item[ticket[t].item] = ticket[t].source
  /\ Ask(f, "read", ticket[t].source)
  /\ UNCHANGED <<sourceRow, held, inMemory, secret, place, withdrawn>>

(* The items of a directory get identifiers of their own each time.        *)
Expose(source, exposed) ==
  /\ \A x \in exposed : item[x] = None
  /\ item' = [x \in Found |-> IF x \in exposed THEN source ELSE item[x]]

(* The server answers, or does not in time. *)
Answered(f, exposed) ==
  /\ fetch[f] # NoFetch
  /\ fetch' = [fetch EXCEPT ![f] = NoFetch]
  /\ exposed # {} => fetch[f].kind = "list"
  /\ Expose(fetch[f].source, exposed)
  /\ UNCHANGED <<sourceRow, held, ticket, secret, place, withdrawn>>

(* onWorkerRequest, for mediaSource.*: the capability of an installation   *)
(* that is installed.                                                      *)
SourceRequest(f) ==
  /\ place = "installed"
  /\ \/ \E h \in Sources : List(f, h)
     \/ \E x \in Found : Probe(f, x)
     \/ \E t \in Tickets, x \in Found : CreateTicket(t, x)
     \/ \E t \in Tickets : ReadTicket(f, t)

(***************************************************************************)
(* The installation and its credentials.                                   *)
(***************************************************************************)
DisablePlace ==
  /\ place = "installed"
  /\ place' = "disabled" /\ secret' = FALSE
  /\ UNCHANGED <<sourceRow, held, inMemory, fetch, withdrawn>>

EnablePlace ==
  /\ place = "disabled"
  /\ place' = "installed"
  /\ UNCHANGED <<sourceRow, held, inMemory, fetch, secret, withdrawn>>

(* The repository revokes the rows; the map is not told.                   *)
UninstallPlace ==
  /\ place = "disabled"
  /\ place' = "uninstalled"
  /\ sourceRow' = [h \in Sources |-> IF sourceRow[h] = "live" THEN "revoked" ELSE sourceRow[h]]
  /\ UNCHANGED <<held, inMemory, fetch, secret, withdrawn>>

(***************************************************************************)
(* Core ends and starts again.                                             *)
(***************************************************************************)
Restore == {h \in Sources : sourceRow[h] = "live"}

Restart ==
  /\ held' = Restore
  /\ item' = [x \in Found |-> None]
  /\ ticket' = [t \in Tickets |-> NoTicket]
  /\ fetch' = [f \in Fetches |-> NoFetch]
  /\ UNCHANGED <<sourceRow, secret, place, withdrawn>>

RemoteNext ==
  \/ \E h \in Sources : RegisterSource(h)
  \/ \E h \in Sources : RevokeSource(h)
  \/ \E f \in Fetches : SourceRequest(f)
  \/ \E f \in Fetches, h \in Sources : Health(f, h)
  \/ \E t \in Tickets : TicketExpires(t)
  \/ \E f \in Fetches, exposed \in SUBSET Found : Answered(f, exposed)
  \/ DisablePlace \/ EnablePlace \/ UninstallPlace
  \/ Restart

RemoteSpec == RemoteInit /\ [][RemoteNext]_remote

RemoteTypeOK ==
  /\ sourceRow \in [Sources -> {"none", "live", "revoked"}]
  /\ held \subseteq Sources /\ withdrawn \subseteq Sources
  /\ item \in [Found -> Sources \cup {None}]
  /\ ticket \in [Tickets -> [source : Sources \cup {None}, item : Found \cup {None}, late : BOOLEAN]]
  /\ fetch \in [Fetches -> [kind : {"none", "list", "health", "probe", "read"}, source : Sources \cup {None}]]
  /\ secret \in BOOLEAN /\ place \in {"installed", "disabled", "uninstalled"}

(***************************************************************************)
(* The map is never more than the rows, except after the installation is   *)
(* gone and nobody can ask; a revocation that was answered outlives every  *)
(* restart; and what a session names was exposed by its source (revoke,    *)
(* restore, read, and uninstallPlugin, which knows nothing of the map).    *)
(***************************************************************************)
SourcesFollowRows ==
  /\ RemoteTypeOK
  /\ \A h \in held : sourceRow[h] = "live" \/ place = "uninstalled"
  /\ \A h \in withdrawn : h \notin held /\ sourceRow[h] = "revoked"
  /\ \A t \in Tickets : ticket[t] # NoTicket => item[ticket[t].item] = ticket[t].source
=============================================================================

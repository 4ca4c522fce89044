------------------------------ MODULE Accounts ------------------------------
(***************************************************************************)
(* Users, their sessions, one-time codes and entry keys: the rows of       *)
(* src/src/repository.ts and the routes of src/src/app.ts that change them.*)
(*                                                                         *)
(* A route first awaits requireUser or requireAdmin and works on the user  *)
(* it got, so that others may act in between: acting[r] is the user that   *)
(* request r was authenticated as.  The password and logout routes await   *)
(* nothing.  Counting of failed attempts is in RateLimits.                 *)
(***************************************************************************)
EXTENDS Nothing, Naturals, FiniteSets

CONSTANTS
  Users, Sessions, EntryKeys, Apps, Requests,
  Codes,         \* Codes[b]: the recovery codes of batch b
  MaxBatch, MaxPassword   \* bounds: batches of codes, password changes

ASSUME AccountsAssumption ==
  /\ MaxBatch \in Nat /\ MaxPassword \in Nat
  /\ IsFiniteSet(Users)
  /\ \A b, c \in 1 .. MaxBatch : b # c => Codes[b] \cap Codes[c] = {}     \* random codes
  /\ None \notin Users /\ None \notin EntryKeys

VARIABLES
  account,       \* account[u]: [status, role, password, totp, unused]
  session,       \* session[s]: [status, user, under]; "overdue" is a row that
                 \* is not revoked and past its expiry; under: the password the
                 \* session knew last (history)
  entryKey,      \* entryKey[k]: [status, user, app, line]; line: the first
                 \* key of the chain of rotations (history)
  app,           \* app[a]: the installation of application a
  acting,
  batch,         \* batches of recovery codes that were issued
  spent          \* history: recovery codes that admitted somebody

accounts == <<account, session, entryKey, app, acting, batch, spent>>

NoAccount == [status |-> "none", role |-> "member", password |-> 0, totp |-> "off", unused |-> {}]
NoSession == [status |-> "none", user |-> None, under |-> 0]
NoKey == [status |-> "none", user |-> None, app |-> None, line |-> None]

AccountsInit ==
  /\ account = [u \in Users |-> NoAccount]
  /\ session = [s \in Sessions |-> NoSession]
  /\ entryKey = [k \in EntryKeys |-> NoKey]
  /\ app = [a \in Apps |-> "installed"]
  /\ acting = [r \in Requests |-> None]
  /\ batch = 0
  /\ spent = {}

Initialized == \E u \in Users : account[u].status # "none"
Active(u) == account[u].status = "active"
ActiveAdmins == {u \in Users : Active(u) /\ account[u].role = "admin"}

(* session(), sessionContext(): the token opens a row that is not revoked, *)
(* of a user who is not revoked, before its expiry.                        *)
Valid(s) == session[s].status = "live" /\ Active(session[s].user)

AddUser(u, role) ==
  /\ account[u].status = "none"
  /\ account' = [account EXCEPT ![u].status = "active", ![u].role = role]

Bootstrap(u) ==
  /\ ~Initialized
  /\ AddUser(u, "admin")
  /\ UNCHANGED <<session, entryKey, app, acting, batch, spent>>

(***************************************************************************)
(* Sign-in.  The right password is needed, and with TOTP on a code of the  *)
(* device or an unused recovery code.                                      *)
(***************************************************************************)
Open(s, u) ==
  /\ session[s].status = "none"
  /\ session' = [session EXCEPT ![s] = [status |-> "live", user |-> u, under |-> account[u].password]]

Consume(u, c) ==
  /\ account' = [account EXCEPT ![u].unused = @ \ {c}]
  /\ spent' = spent \cup {c}

Login(s, u) ==
  /\ Active(u)
  /\ Open(s, u)
  /\ \/ UNCHANGED <<account, spent>>                 \* no TOTP, or a device's code
     \/ account[u].totp = "on" /\ \E c \in account[u].unused : Consume(u, c)
  /\ UNCHANGED <<entryKey, app, acting, batch>>

Logout(s) ==
  /\ session[s].status # "none"
  /\ session' = [session EXCEPT ![s].status = "revoked"]
  /\ UNCHANGED <<account, entryKey, app, acting, batch, spent>>

SessionExpires(s) ==
  /\ session[s].status = "live"
  /\ session' = [session EXCEPT ![s].status = "overdue"]
  /\ UNCHANGED <<account, entryKey, app, acting, batch, spent>>

RevokedSessions(gone) ==
  [s \in Sessions |-> IF session[s].status \in {"live", "overdue"} /\ s \in gone
                      THEN [session[s] EXCEPT !.status = "revoked"] ELSE session[s]]

(* One transaction: the new hash, and every other session of the user.     *)
ChangePassword(s) ==
  LET u == session[s].user
      others == {q \in Sessions : session[q].user = u /\ q # s}
  IN  /\ account' = [account EXCEPT ![u].password = @ + 1]
      /\ session' = [RevokedSessions(others) EXCEPT ![s].under = account[u].password + 1]

Password(s) ==
  /\ Valid(s)
  /\ account[session[s].user].password < MaxPassword
  /\ ChangePassword(s)
  /\ UNCHANGED <<entryKey, app, acting, batch, spent>>

(***************************************************************************)
(* Routes behind requireAdmin.                                             *)
(***************************************************************************)
RequireAdmin(r, s) ==
  /\ acting[r] = None
  /\ Valid(s)
  /\ account[session[s].user].role = "admin"
  /\ acting' = [acting EXCEPT ![r] = session[s].user]
  /\ UNCHANGED <<account, session, entryKey, app, batch, spent>>

Acts(r) ==
  /\ acting[r] # None
  /\ acting' = [acting EXCEPT ![r] = None]

(* A request that is refused ends without a change. *)
Refused(r) ==
  /\ Acts(r)
  /\ UNCHANGED <<account, session, entryKey, app, batch, spent>>

CreateUser(r, u, role) ==
  /\ Acts(r)
  /\ AddUser(u, role)
  /\ UNCHANGED <<session, entryKey, app, batch, spent>>

Revocable(u) == Active(u) /\ (account[u].role = "admin" => Cardinality(ActiveAdmins) > 1)

RevokedKeys(gone) ==
  [k \in EntryKeys |-> IF entryKey[k].status \in {"live", "overdue"} /\ k \in gone
                       THEN [entryKey[k] EXCEPT !.status = "revoked"] ELSE entryKey[k]]

(* revokeUser(): one transaction over the user, sessions and entry keys.   *)
RevokeUser(u) ==
  /\ Revocable(u)
  /\ account' = [account EXCEPT ![u].status = "revoked"]
  /\ session' = RevokedSessions({s \in Sessions : session[s].user = u})
  /\ entryKey' = RevokedKeys({k \in EntryKeys : entryKey[k].user = u})

Revoke(r, u) ==
  /\ Acts(r)
  /\ RevokeUser(u)
  /\ UNCHANGED <<app, batch, spent>>

(* A new secret turns TOTP off until a code of it was shown. *)
BeginTotpSetup(r) ==
  /\ Acts(r)
  /\ account' = [account EXCEPT ![acting[r]].totp = "setup"]
  /\ UNCHANGED <<session, entryKey, app, batch, spent>>

(* The new batch of recovery codes replaces those that are left. *)
EnableTotp(u) ==
  /\ account[u].totp # "off"
  /\ batch < MaxBatch
  /\ batch' = batch + 1
  /\ account' = [account EXCEPT ![u].totp = "on", ![u].unused = Codes[batch + 1]]

TotpRoute(r) ==
  /\ Acts(r)
  /\ EnableTotp(acting[r])
  /\ UNCHANGED <<session, entryKey, app, spent>>

(***************************************************************************)
(* Entry keys.                                                             *)
(***************************************************************************)
FaultyCreatable(u, a) == app[a] = "installed"

Creatable(u, a) == app[a] = "installed" /\ Active(u)

CreateEntryKey(r, k, a) ==
  /\ Acts(r)
  /\ entryKey[k].status = "none"
  /\ Creatable(acting[r], a)
  /\ entryKey' = [entryKey EXCEPT ![k] = [status |-> "live", user |-> acting[r], app |-> a, line |-> k]]
  /\ UNCHANGED <<account, session, app, batch, spent>>

KeyExpires(k) ==
  /\ entryKey[k].status = "live"
  /\ entryKey' = [entryKey EXCEPT ![k].status = "overdue"]
  /\ UNCHANGED <<account, session, app, acting, batch, spent>>

RevokeKeyRoute(r, k) ==
  /\ Acts(r)
  /\ entryKey[k].user = acting[r] /\ entryKey[k].status \in {"live", "overdue"}
  /\ entryKey' = [entryKey EXCEPT ![k].status = "revoked"]
  /\ UNCHANGED <<account, session, app, batch, spent>>

(* The replacement may have any expiry, also when the old key is overdue.  *)
RotateEntryKey(k, new, u) ==
  /\ entryKey[k].user = u /\ entryKey[k].status \in {"live", "overdue"}
  /\ entryKey[new].status = "none"
  /\ entryKey' = [entryKey EXCEPT ![k].status = "revoked",
                                  ![new] = [entryKey[k] EXCEPT !.status = "live"]]

RotateRoute(r, k, new) ==
  /\ Acts(r)
  /\ RotateEntryKey(k, new, acting[r])
  /\ UNCHANGED <<account, session, app, batch, spent>>

(* resolveEntryKey(): no clause about the user; revokeUser took the keys.  *)
Resolves(k) == entryKey[k].status = "live" /\ app[entryKey[k].app] = "installed"

(***************************************************************************)
(* The application's installation; disable and uninstall take its keys.    *)
(***************************************************************************)
DisableInstallation(a) ==
  /\ app' = [app EXCEPT ![a] = "disabled"]
  /\ entryKey' = RevokedKeys({k \in EntryKeys : entryKey[k].app = a})

DisableRoute(r, a) ==
  /\ Acts(r)
  /\ app[a] = "installed"
  /\ DisableInstallation(a)
  /\ UNCHANGED <<account, session, batch, spent>>

EnableRoute(r, a) ==
  /\ Acts(r)
  /\ app[a] = "disabled"
  /\ app' = [app EXCEPT ![a] = "installed"]
  /\ UNCHANGED <<account, session, entryKey, batch, spent>>

AdminNext(r) ==
  \/ \E s \in Sessions : RequireAdmin(r, s)
  \/ Refused(r)
  \/ \E u \in Users, role \in {"admin", "member"} : CreateUser(r, u, role)
  \/ \E u \in Users : Revoke(r, u)
  \/ BeginTotpSetup(r)
  \/ TotpRoute(r)
  \/ \E k \in EntryKeys, a \in Apps : CreateEntryKey(r, k, a)
  \/ \E k \in EntryKeys : RevokeKeyRoute(r, k)
  \/ \E k, new \in EntryKeys : RotateRoute(r, k, new)
  \/ \E a \in Apps : DisableRoute(r, a)
  \/ \E a \in Apps : EnableRoute(r, a)

AccountsNext ==
  \/ \E u \in Users : Bootstrap(u)
  \/ \E s \in Sessions, u \in Users : Login(s, u)
  \/ \E s \in Sessions : Logout(s)
  \/ \E s \in Sessions : SessionExpires(s)
  \/ \E s \in Sessions : Password(s)
  \/ \E k \in EntryKeys : KeyExpires(k)
  \/ \E r \in Requests : AdminNext(r)

AccountsSpec == AccountsInit /\ [][AccountsNext]_accounts

AllCodes == UNION {Codes[b] : b \in 1 .. MaxBatch}

AccountsTypeOK ==
  /\ account \in [Users -> [status : {"none", "active", "revoked"}, role : {"admin", "member"},
                            password : 0 .. MaxPassword, totp : {"off", "setup", "on"},
                            unused : SUBSET AllCodes]]
  /\ session \in [Sessions -> [status : {"none", "live", "overdue", "revoked"},
                               user : Users \cup {None}, under : 0 .. MaxPassword]]
  /\ entryKey \in [EntryKeys -> [status : {"none", "live", "overdue", "revoked"},
                                 user : Users \cup {None}, app : Apps \cup {None},
                                 line : EntryKeys \cup {None}]]
  /\ app \in [Apps -> {"installed", "disabled"}]
  /\ acting \in [Requests -> Users \cup {None}]
  /\ batch \in 0 .. MaxBatch /\ spent \subseteq AllCodes

(***************************************************************************)
(* A session that is still open belongs to an active user and was opened   *)
(* with, or itself set, the user's present password (changePassword,       *)
(* revokeUser, and whatever sign-in runs between them).                    *)
(***************************************************************************)
SessionsCurrent ==
  \A s \in Sessions : session[s].status \in {"live", "overdue"} =>
     Active(session[s].user) /\ session[s].under = account[session[s].user].password

(***************************************************************************)
(* A key that would still open its application belongs to an active user   *)
(* although resolveEntryKey never looks at the user, and of a chain of     *)
(* rotations at most one key is not revoked: also for requests that were   *)
(* authenticated before their user or the installation was revoked.        *)
(***************************************************************************)
KeysCurrent ==
  /\ \A k \in EntryKeys : Resolves(k) => Active(entryKey[k].user)
  /\ \A k \in EntryKeys : entryKey[k].status \in {"live", "overdue"} => app[entryKey[k].app] = "installed"
  /\ \A k, q \in EntryKeys :
        (entryKey[k].status \in {"live", "overdue"} /\ entryKey[q].status \in {"live", "overdue"}
          /\ entryKey[k].line = entryKey[q].line) => k = q

(* A recovery code admits once (consumeRecoveryCode, enableTotp).          *)
CodesAdmitOnce == \A u \in Users : account[u].unused \cap spent = {}

(***************************************************************************)
(* Once there are users there is an active administrator, however two      *)
(* administrators revoke each other at the same time (revokeUser).         *)
(***************************************************************************)
AdministratorRemains == Initialized => ActiveAdmins # {}

(***************************************************************************)
(* The accounts as a whole (repository.ts 34-138, 188-208, 607-661).       *)
(***************************************************************************)
AccountsSound ==
  AccountsTypeOK /\ SessionsCurrent /\ KeysCurrent /\ CodesAdmitOnce /\ AdministratorRemains
=============================================================================

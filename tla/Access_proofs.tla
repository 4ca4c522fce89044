---------------------------- MODULE Access_proofs ----------------------------
(* Who may do what: users and their sessions (Accounts), credentials and where  *)
(* they are kept (CredentialVault), the limits on attempts (RateLimits) and      *)
(* which plugin a service is bound to (ServiceBindings).                        *)
EXTENDS Accounts, CredentialVault, RateLimits, ServiceBindings, FiniteSetTheorems, TLAPS

------------------------------------------------------------------------------
(***************************************************************************)
(* Theorems about Accounts: for any number of users, sessions, keys and    *)
(* requests under way at once, what is open belongs to active users.       *)
(*                                                                         *)
(* The strengthening: open keys belong to active users (not only those     *)
(* that resolve), the first key of a chain has been used, unused recovery  *)
(* codes are of batches that were issued and of one user each, and a       *)
(* request acts for a user who exists.                                     *)
(***************************************************************************)

AccountRows == [status : {"none", "active", "revoked"}, role : {"admin", "member"},
                password : 0 .. MaxPassword, totp : {"off", "setup", "on"}, unused : SUBSET AllCodes]
SessionRows == [status : {"none", "live", "overdue", "revoked"}, user : Users \cup {None},
                under : 0 .. MaxPassword]
KeyRows == [status : {"none", "live", "overdue", "revoked"}, user : Users \cup {None},
            app : Apps \cup {None}, line : EntryKeys \cup {None}]

(* The recovery codes of the first n batches.                              *)
Issued(n) == UNION {Codes[b] : b \in 1 .. n}

(* Each part is stated for the values it looks at, so that a step needs    *)
(* only what it changed.                                                   *)
CodesOK(acc, n, used) ==
  /\ acc \in [Users -> AccountRows]
  /\ n \in 0 .. MaxBatch
  /\ used \subseteq Issued(n)
  /\ \A u \in Users : acc[u].unused \subseteq Issued(n) /\ acc[u].unused \cap used = {}
  /\ \A u, w \in Users : u # w => acc[u].unused \cap acc[w].unused = {}

SessionsOK(ses, acc) ==
  /\ ses \in [Sessions -> SessionRows]
  /\ \A s \in Sessions : ses[s].status # "none" => ses[s].user \in Users
  /\ \A s \in Sessions : ses[s].status \in {"live", "overdue"} =>
       acc[ses[s].user].status = "active" /\ ses[s].under = acc[ses[s].user].password

OpenKey(keys, k) == keys[k].status \in {"live", "overdue"}

KeysOK(keys, acc, ap) ==
  /\ keys \in [EntryKeys -> KeyRows]
  /\ \A k \in EntryKeys : keys[k].status # "none" =>
       /\ keys[k].user \in Users /\ keys[k].app \in Apps /\ keys[k].line \in EntryKeys
       /\ keys[keys[k].line].status # "none"
  /\ \A k \in EntryKeys : OpenKey(keys, k) =>
       acc[keys[k].user].status = "active" /\ ap[keys[k].app] = "installed"
  /\ \A k, q \in EntryKeys : OpenKey(keys, k) /\ OpenKey(keys, q) /\ keys[k].line = keys[q].line => k = q

ActingOK(ap, act, acc) ==
  /\ ap \in [Apps -> {"installed", "disabled"}]
  /\ act \in [Requests -> Users \cup {None}]
  /\ \A r \in Requests : act[r] # None => acc[act[r]].status # "none"

AdminsOK(acc) ==
  (\E u \in Users : acc[u].status # "none") => \E u \in Users : acc[u].status = "active" /\ acc[u].role = "admin"

AccountsInv ==
  /\ CodesOK(account, batch, spent)
  /\ SessionsOK(session, account)
  /\ KeysOK(entryKey, account, app)
  /\ ActingOK(app, acting, account)
  /\ AdminsOK(account)

LEMMA AccountsInvHolds == AccountsInv => AccountsSound
<1> SUFFICES ASSUME AccountsInv PROVE AccountsSound
  OBVIOUS
<1>1. Issued(batch) \subseteq AllCodes
  BY AccountsAssumption DEF AccountsInv, CodesOK, Issued, AllCodes
<1>2. AccountsTypeOK
  BY <1>1 DEF AccountsInv, CodesOK, SessionsOK, KeysOK, ActingOK, AccountsTypeOK, AccountRows, SessionRows, KeyRows
<1>3. SessionsCurrent
  BY DEF AccountsInv, SessionsOK, SessionsCurrent, Active
<1>4. KeysCurrent
  BY DEF AccountsInv, KeysOK, OpenKey, KeysCurrent, Resolves, Active
<1>5. CodesAdmitOnce
  BY DEF AccountsInv, CodesOK, CodesAdmitOnce
<1>6. AdministratorRemains
  BY DEF AccountsInv, AdminsOK, AdministratorRemains, Initialized, ActiveAdmins, Active
<1> QED
  BY <1>2, <1>3, <1>4, <1>5, <1>6 DEF AccountsSound

(***************************************************************************)
(* Rows of users that change in ways the other tables do not notice.       *)
(***************************************************************************)
Keeps(acc, new) ==
  \A u \in Users :
    /\ acc[u].status = "active" => new[u].status = "active"
    /\ acc[u].status # "none" => new[u].status # "none"
    /\ new[u].password = acc[u].password

LEMMA OthersKept ==
  ASSUME NEW acc, NEW new, Keeps(acc, new), NEW ses, NEW keys, NEW ap, NEW act,
         SessionsOK(ses, acc), KeysOK(keys, acc, ap), ActingOK(ap, act, acc)
  PROVE  SessionsOK(ses, new) /\ KeysOK(keys, new, ap) /\ ActingOK(ap, act, new)
<1>1. SessionsOK(ses, new)
  BY DEF Keeps, SessionsOK
<1>2. KeysOK(keys, new, ap)
  BY DEF Keeps, KeysOK, OpenKey
<1>3. ActingOK(ap, act, new)
  BY AccountsAssumption DEF Keeps, ActingOK
<1> QED
  BY <1>1, <1>2, <1>3

LEMMA AddUserSteps ==
  ASSUME CodesOK(account, batch, spent), NEW u \in Users, NEW role \in {"admin", "member"}, AddUser(u, role)
  PROVE  /\ CodesOK(account', batch, spent) /\ Keeps(account, account')
         /\ account'[u].status = "active" /\ account'[u].role = role
         /\ \A w \in Users \ {u} : account'[w] = account[w]
<1>1. PICK row \in AccountRows : row = account[u]
  BY DEF CodesOK
<1>2. PICK added : added = [row EXCEPT !.status = "active", !.role = role]
  OBVIOUS
<1>3. /\ added \in AccountRows /\ added.status = "active" /\ added.role = role
      /\ added.password = row.password /\ added.unused = row.unused
  BY <1>2 DEF AccountRows
<1>4. account' = [account EXCEPT ![u] = added]
  BY <1>1, <1>2 DEF CodesOK, AddUser
<1>5. CodesOK(account', batch, spent)
  BY <1>1, <1>3, <1>4 DEF CodesOK
<1>6. Keeps(account, account')
  BY <1>1, <1>3, <1>4 DEF CodesOK, Keeps
<1> QED
  BY <1>3, <1>4, <1>5, <1>6 DEF CodesOK

LEMMA ConsumeSteps ==
  ASSUME CodesOK(account, batch, spent), NEW u \in Users, NEW c \in account[u].unused, Consume(u, c)
  PROVE  /\ CodesOK(account', batch, spent') /\ Keeps(account, account')
         /\ \A w \in Users : account'[w].status = account[w].status /\ account'[w].role = account[w].role
<1>1. account' \in [Users -> AccountRows]
  BY DEF CodesOK, Consume, AccountRows
<1>2. \A w \in Users : account'[w].unused = IF w = u THEN account[w].unused \ {c} ELSE account[w].unused
  BY DEF CodesOK, Consume, AccountRows
<1>3. spent' = spent \cup {c}
  BY DEF Consume
<1>4. \A w \in Users : account'[w].status = account[w].status /\ account'[w].role = account[w].role
                       /\ account'[w].password = account[w].password
  BY DEF CodesOK, Consume, AccountRows
<1>5. CodesOK(account', batch, spent')
  BY <1>1, <1>2, <1>3 DEF CodesOK
<1> QED
  BY <1>4, <1>5 DEF Keeps

LEMMA SetupSteps ==
  ASSUME CodesOK(account, batch, spent), NEW u \in Users,
         account' = [account EXCEPT ![u].totp = "setup"]
  PROVE  /\ CodesOK(account', batch, spent) /\ Keeps(account, account')
         /\ \A w \in Users : account'[w].status = account[w].status /\ account'[w].role = account[w].role
BY DEF CodesOK, Keeps, AccountRows

(* A new batch has no code in common with what was issued before it.       *)
LEMMA NextBatch ==
  ASSUME NEW n \in 0 .. MaxBatch, n < MaxBatch
  PROVE  /\ n + 1 \in 0 .. MaxBatch
         /\ Codes[n + 1] \subseteq Issued(n + 1) /\ Issued(n) \subseteq Issued(n + 1)
         /\ Codes[n + 1] \cap Issued(n) = {}
         /\ Codes[n + 1] \subseteq AllCodes
<1> USE AccountsAssumption
<1>1. n + 1 \in 0 .. MaxBatch /\ n + 1 \in 1 .. n + 1 /\ n + 1 \in 1 .. MaxBatch
  OBVIOUS
<1>2. \A b \in 1 .. n : b \in 1 .. n + 1 /\ b \in 1 .. MaxBatch /\ b # n + 1
  OBVIOUS
<1>3. Codes[n + 1] \subseteq Issued(n + 1) /\ Codes[n + 1] \subseteq AllCodes
  BY <1>1 DEF Issued, AllCodes
<1>4. Issued(n) \subseteq Issued(n + 1)
  BY <1>2 DEF Issued
<1>5. Codes[n + 1] \cap Issued(n) = {}
  BY <1>1, <1>2 DEF Issued
<1> QED
  BY <1>1, <1>3, <1>4, <1>5

LEMMA EnableSteps ==
  ASSUME CodesOK(account, batch, spent), NEW u \in Users, EnableTotp(u)
  PROVE  /\ CodesOK(account', batch', spent) /\ Keeps(account, account')
         /\ \A w \in Users : account'[w].status = account[w].status /\ account'[w].role = account[w].role
<1>1. batch \in 0 .. MaxBatch /\ batch < MaxBatch /\ batch' = batch + 1
  BY DEF CodesOK, EnableTotp
<1>2. PICK new : new = Codes[batch + 1]
  OBVIOUS
<1>3. /\ batch' \in 0 .. MaxBatch /\ new \subseteq Issued(batch') /\ Issued(batch) \subseteq Issued(batch')
      /\ new \cap Issued(batch) = {} /\ new \in SUBSET AllCodes
  BY <1>1, <1>2, NextBatch
<1>4. account' = [account EXCEPT ![u].totp = "on", ![u].unused = new]
  BY <1>2 DEF EnableTotp
<1>5. account' \in [Users -> AccountRows]
  <2>1. account \in [Users -> AccountRows] /\ new \in SUBSET AllCodes
    BY <1>3 DEF CodesOK
  <2>2. PICK row \in AccountRows : row = account[u]
    BY <2>1
  <2>3. PICK enabled : enabled = [row EXCEPT !.totp = "on", !.unused = new]
    OBVIOUS
  <2>4. enabled \in AccountRows
    BY <2>1, <2>3 DEF AccountRows
  <2>5. account' = [account EXCEPT ![u] = enabled]
    BY <1>4, <2>1, <2>2, <2>3
  <2> QED
    BY <2>1, <2>4, <2>5
<1>6. \A w \in Users : account'[w].unused = IF w = u THEN new ELSE account[w].unused
  BY <1>4 DEF CodesOK, AccountRows
<1>7. CodesOK(account', batch', spent)
  BY <1>3, <1>5, <1>6 DEF CodesOK
<1>8. \A w \in Users : account'[w].status = account[w].status /\ account'[w].role = account[w].role
                       /\ account'[w].password = account[w].password
  BY <1>4 DEF CodesOK, AccountRows
<1> QED
  BY <1>7, <1>8 DEF Keeps

LEMMA SameAdmins ==
  ASSUME NEW acc, NEW new, AdminsOK(acc),
         \A w \in Users : new[w].status = acc[w].status /\ new[w].role = acc[w].role
  PROVE  AdminsOK(new)
BY DEF AdminsOK

(***************************************************************************)
(* Sessions.                                                               *)
(***************************************************************************)
LEMMA OpenSteps ==
  ASSUME CodesOK(account, batch, spent), SessionsOK(session, account),
         NEW s \in Sessions, NEW u \in Users, Active(u), Open(s, u)
  PROVE  SessionsOK(session', account)
<1>1. PICK new : new = [status |-> "live", user |-> u, under |-> account[u].password]
  OBVIOUS
<1>2. new \in SessionRows
  BY <1>1 DEF CodesOK, SessionRows, AccountRows
<1>3. session' = [session EXCEPT ![s] = new]
  BY <1>1 DEF Open
<1> QED
  BY <1>1, <1>2, <1>3 DEF SessionsOK, Active

(* Revoking some of the open sessions, whichever.                          *)
Closed(ses, new) ==
  /\ new \in [Sessions -> SessionRows]
  /\ \A s \in Sessions : new[s] = ses[s] \/ (new[s].status = "revoked" /\ new[s].user = ses[s].user
                                             /\ ses[s].status # "none")

LEMMA RevokedSessionsClosed ==
  ASSUME session \in [Sessions -> SessionRows], NEW gone \in SUBSET Sessions
  PROVE  /\ Closed(session, RevokedSessions(gone))
         /\ \A s \in Sessions : s \in gone => RevokedSessions(gone)[s].status \notin {"live", "overdue"}
<1> DEFINE new == RevokedSessions(gone)
<1>1. new = [s \in Sessions |-> IF session[s].status \in {"live", "overdue"} /\ s \in gone
                                THEN [session[s] EXCEPT !.status = "revoked"] ELSE session[s]]
  BY DEF RevokedSessions
<1> HIDE DEF new
<1>2. ASSUME NEW s \in Sessions
      PROVE  /\ new[s] \in SessionRows
             /\ new[s] = session[s] \/ (new[s].status = "revoked" /\ new[s].user = session[s].user
                                       /\ session[s].status # "none")
             /\ s \in gone => new[s].status \notin {"live", "overdue"}
  <2>1. PICK row \in SessionRows : row = session[s]
    OBVIOUS
  <2>2. [row EXCEPT !.status = "revoked"] \in SessionRows /\ [row EXCEPT !.status = "revoked"].status = "revoked"
        /\ [row EXCEPT !.status = "revoked"].user = row.user
    BY DEF SessionRows
  <2>3. CASE row.status \in {"live", "overdue"} /\ s \in gone
    BY <1>1, <2>1, <2>2, <2>3
  <2>4. CASE ~(row.status \in {"live", "overdue"} /\ s \in gone)
    BY <1>1, <2>1, <2>4
  <2> QED
    BY <2>3, <2>4
<1>3. new \in [Sessions -> SessionRows]
  BY <1>1, <1>2
<1> QED
  BY <1>2, <1>3 DEF new, Closed

LEMMA ClosedKeepsSessions ==
  ASSUME NEW ses, NEW new, NEW acc, SessionsOK(ses, acc), Closed(ses, new)
  PROVE  SessionsOK(new, acc)
BY DEF SessionsOK, Closed

LEMMA PasswordSteps ==
  ASSUME AccountsInv, NEW s \in Sessions, Password(s)
  PROVE  /\ CodesOK(account', batch, spent) /\ SessionsOK(session', account')
         /\ \A w \in Users : account'[w].status = account[w].status /\ account'[w].role = account[w].role
<1>1. PICK u \in Users : u = session[s].user
  BY DEF AccountsInv, SessionsOK, Password, Valid
<1>2. account[u].password \in 0 .. MaxPassword /\ account[u].password < MaxPassword
  BY <1>1 DEF AccountsInv, CodesOK, AccountRows, Password
<1>3. PICK p : p = account[u].password + 1
  OBVIOUS
<1>4. p \in 0 .. MaxPassword
  BY <1>2, <1>3, AccountsAssumption
<1>5. account' = [account EXCEPT ![u].password = p]
  BY <1>1, <1>3 DEF AccountsInv, CodesOK, Password, ChangePassword
<1>6. /\ CodesOK(account', batch, spent)
      /\ \A w \in Users : account'[w].status = account[w].status /\ account'[w].role = account[w].role
      /\ account'[u].password = p
      /\ \A w \in Users \ {u} : account'[w].password = account[w].password
  BY <1>4, <1>5 DEF AccountsInv, CodesOK, AccountRows
<1> DEFINE others == {q \in Sessions : session[q].user = u /\ q # s}
           rest == RevokedSessions(others)
<1>7. session' = [rest EXCEPT ![s].under = p]
  BY <1>1, <1>3 DEF Password, ChangePassword
<1>8. session \in [Sessions -> SessionRows]
  BY DEF AccountsInv, SessionsOK
<1>9. /\ Closed(session, rest)
      /\ \A q \in Sessions : q \in others => rest[q].status \notin {"live", "overdue"}
  BY <1>8, RevokedSessionsClosed
<1>10. rest[s] = session[s]
  BY <1>8 DEF RevokedSessions
<1> HIDE DEF rest
<1>11. SessionsOK(rest, account)
  BY <1>9, ClosedKeepsSessions DEF AccountsInv
<1>12. session' \in [Sessions -> SessionRows]
  BY <1>4, <1>7, <1>9 DEF Closed, SessionRows
<1>13. /\ session'[s].status = session[s].status /\ session'[s].user = u /\ session'[s].under = p
       /\ \A q \in Sessions \ {s} : session'[q] = rest[q]
  BY <1>1, <1>7, <1>9, <1>10 DEF Closed, SessionRows
<1>14. session[s].status = "live" /\ account[u].status = "active"
  BY <1>1 DEF Password, Valid, Active
<1>15. ASSUME NEW q \in Sessions, session'[q].status \in {"live", "overdue"}
       PROVE  session'[q].user \in Users /\ account'[session'[q].user].status = "active"
              /\ session'[q].under = account'[session'[q].user].password
  <2>1. CASE q = s
    BY <1>6, <1>13, <1>14, <2>1
  <2>2. CASE q # s
    <3>1. rest[q].status \in {"live", "overdue"} /\ session'[q] = rest[q]
      BY <1>13, <1>15, <2>2
    <3>2. rest[q].user # u
      BY <1>9, <2>2, <3>1 DEF Closed, others
    <3>3. rest[q].user \in Users /\ account[rest[q].user].status = "active"
          /\ rest[q].under = account[rest[q].user].password
      BY <1>11, <3>1 DEF SessionsOK
    <3> QED
      BY <1>6, <3>1, <3>2, <3>3
  <2> QED
    BY <2>1, <2>2
<1>16. \A q \in Sessions : session'[q].status # "none" => session'[q].user \in Users
  BY <1>11, <1>13 DEF SessionsOK
<1>17. SessionsOK(session', account')
  BY <1>12, <1>15, <1>16 DEF SessionsOK
<1> QED
  BY <1>6, <1>17

(***************************************************************************)
(* Entry keys.                                                             *)
(***************************************************************************)
ClosedKeys(keys, new) ==
  /\ new \in [EntryKeys -> KeyRows]
  /\ \A k \in EntryKeys :
       \/ new[k] = keys[k]
       \/ /\ new[k].status = "revoked" /\ keys[k].status # "none" /\ new[k].user = keys[k].user
          /\ new[k].app = keys[k].app /\ new[k].line = keys[k].line

LEMMA RevokedRow ==
  ASSUME NEW row \in KeyRows, NEW status \in {"overdue", "revoked", "live"}
  PROVE  LET new == [row EXCEPT !.status = status]
         IN  new \in KeyRows /\ new.status = status /\ new.user = row.user /\ new.app = row.app
             /\ new.line = row.line
BY DEF KeyRows

LEMMA RevokedKeysClosed ==
  ASSUME entryKey \in [EntryKeys -> KeyRows], NEW gone \in SUBSET EntryKeys
  PROVE  /\ ClosedKeys(entryKey, RevokedKeys(gone))
         /\ \A k \in gone : RevokedKeys(gone)[k].status \notin {"live", "overdue"}
<1> DEFINE new == RevokedKeys(gone)
<1>1. new = [k \in EntryKeys |-> IF entryKey[k].status \in {"live", "overdue"} /\ k \in gone
                                 THEN [entryKey[k] EXCEPT !.status = "revoked"] ELSE entryKey[k]]
  BY DEF RevokedKeys
<1> HIDE DEF new
<1>2. ASSUME NEW k \in EntryKeys
      PROVE  /\ new[k] \in KeyRows
             /\ \/ new[k] = entryKey[k]
                \/ /\ new[k].status = "revoked" /\ entryKey[k].status # "none" /\ new[k].user = entryKey[k].user
                   /\ new[k].app = entryKey[k].app /\ new[k].line = entryKey[k].line
             /\ k \in gone => new[k].status \notin {"live", "overdue"}
  <2>1. PICK row \in KeyRows : row = entryKey[k]
    OBVIOUS
  <2>2. PICK closed : closed = [row EXCEPT !.status = "revoked"]
    OBVIOUS
  <2>3. /\ closed \in KeyRows /\ closed.status = "revoked" /\ closed.user = row.user
        /\ closed.app = row.app /\ closed.line = row.line
    BY <2>2 DEF KeyRows
  <2>4. CASE row.status \in {"live", "overdue"} /\ k \in gone
    BY <1>1, <2>1, <2>2, <2>3, <2>4
  <2>5. CASE ~(row.status \in {"live", "overdue"} /\ k \in gone)
    BY <1>1, <2>1, <2>5
  <2> QED
    BY <2>4, <2>5
<1>3. new \in [EntryKeys -> KeyRows]
  BY <1>1, <1>2
<1> QED
  BY <1>2, <1>3 DEF new, ClosedKeys

(* Keys that only stop being open.                                         *)
LEMMA FewerKeysOpen ==
  ASSUME NEW keys, NEW new, NEW acc, NEW ap, KeysOK(keys, acc, ap),
         new \in [EntryKeys -> KeyRows],
         \A k \in EntryKeys : /\ new[k].user = keys[k].user /\ new[k].app = keys[k].app /\ new[k].line = keys[k].line
                              /\ new[k].status # "none" <=> keys[k].status # "none"
                              /\ OpenKey(new, k) => OpenKey(keys, k)
  PROVE  KeysOK(new, acc, ap)
BY DEF KeysOK

LEMMA ClosedKeepsKeys ==
  ASSUME NEW keys, NEW new, NEW acc, NEW ap, KeysOK(keys, acc, ap), ClosedKeys(keys, new)
  PROVE  KeysOK(new, acc, ap)
<1>1. \A k \in EntryKeys : /\ new[k].user = keys[k].user /\ new[k].app = keys[k].app /\ new[k].line = keys[k].line
                           /\ new[k].status # "none" <=> keys[k].status # "none"
                           /\ OpenKey(new, k) => OpenKey(keys, k)
  BY DEF ClosedKeys, OpenKey
<1> QED
  BY <1>1, FewerKeysOpen DEF ClosedKeys

LEMMA KeyExpiresSteps ==
  ASSUME NEW acc, NEW ap, KeysOK(entryKey, acc, ap), NEW k \in EntryKeys,
         entryKey[k].status \in {"live", "overdue"},
         NEW status \in {"overdue", "revoked"},
         entryKey' = [entryKey EXCEPT ![k].status = status]
  PROVE  KeysOK(entryKey', acc, ap)
<1>1. entryKey' \in [EntryKeys -> KeyRows]
  BY DEF KeysOK, KeyRows
<1>2. /\ entryKey'[k].status = status /\ entryKey'[k].user = entryKey[k].user
      /\ entryKey'[k].app = entryKey[k].app /\ entryKey'[k].line = entryKey[k].line
      /\ \A q \in EntryKeys \ {k} : entryKey'[q] = entryKey[q]
  BY DEF KeysOK, KeyRows
<1>3. \A q \in EntryKeys : /\ entryKey'[q].user = entryKey[q].user /\ entryKey'[q].app = entryKey[q].app
                           /\ entryKey'[q].line = entryKey[q].line
                           /\ entryKey'[q].status # "none" <=> entryKey[q].status # "none"
                           /\ OpenKey(entryKey', q) => OpenKey(entryKey, q)
  BY <1>2 DEF OpenKey
<1> QED
  BY <1>1, <1>3, FewerKeysOpen

LEMMA CreateKeySteps ==
  ASSUME NEW acc, NEW ap, KeysOK(entryKey, acc, ap), NEW k \in EntryKeys, NEW u \in Users, NEW a \in Apps,
         entryKey[k].status = "none", acc[u].status = "active", ap[a] = "installed",
         entryKey' = [entryKey EXCEPT ![k] = [status |-> "live", user |-> u, app |-> a, line |-> k]]
  PROVE  KeysOK(entryKey', acc, ap)
<1>1. entryKey' \in [EntryKeys -> KeyRows]
  BY DEF KeysOK, KeyRows
<1>2. /\ entryKey'[k].status = "live" /\ entryKey'[k].user = u /\ entryKey'[k].app = a /\ entryKey'[k].line = k
      /\ \A q \in EntryKeys \ {k} : entryKey'[q] = entryKey[q]
  BY DEF KeysOK
<1>3. \A q \in EntryKeys \ {k} : OpenKey(entryKey', q) => OpenKey(entryKey, q) /\ entryKey'[q].line # k
  BY <1>2 DEF KeysOK, OpenKey
<1>4. \A q \in EntryKeys : OpenKey(entryKey', q) => acc[entryKey'[q].user].status = "active" /\ ap[entryKey'[q].app] = "installed"
  BY <1>2, <1>3 DEF KeysOK
<1>5. \A p, q \in EntryKeys : OpenKey(entryKey', p) /\ OpenKey(entryKey', q)
                              /\ entryKey'[p].line = entryKey'[q].line => p = q
  BY <1>2, <1>3 DEF KeysOK
<1>6. \A q \in EntryKeys : entryKey'[q].status # "none" =>
         /\ entryKey'[q].user \in Users /\ entryKey'[q].app \in Apps /\ entryKey'[q].line \in EntryKeys
         /\ entryKey'[entryKey'[q].line].status # "none"
  BY <1>2 DEF KeysOK
<1> QED
  BY <1>1, <1>4, <1>5, <1>6 DEF KeysOK

LEMMA RotateSteps ==
  ASSUME NEW acc, NEW ap, KeysOK(entryKey, acc, ap), NEW k \in EntryKeys, NEW new \in EntryKeys, NEW u \in Users,
         RotateEntryKey(k, new, u)
  PROVE  KeysOK(entryKey', acc, ap)
<1>1. k # new /\ entryKey[k].status \in {"live", "overdue"} /\ entryKey[new].status = "none"
  BY DEF RotateEntryKey
<1>2. PICK row : row = [entryKey[k] EXCEPT !.status = "live"]
  OBVIOUS
<1>3. /\ row \in KeyRows /\ row.status = "live" /\ row.user = entryKey[k].user
      /\ row.app = entryKey[k].app /\ row.line = entryKey[k].line
  BY <1>2 DEF KeysOK, KeyRows
<1>4. entryKey' = [entryKey EXCEPT ![k].status = "revoked", ![new] = row]
  BY <1>2 DEF RotateEntryKey
<1>5. entryKey' \in [EntryKeys -> KeyRows]
  BY <1>3, <1>4 DEF KeysOK, KeyRows
<1>6. /\ entryKey'[new] = row
      /\ entryKey'[k].status = "revoked" /\ entryKey'[k].user = entryKey[k].user
      /\ entryKey'[k].app = entryKey[k].app /\ entryKey'[k].line = entryKey[k].line
      /\ \A q \in EntryKeys \ {k, new} : entryKey'[q] = entryKey[q]
  BY <1>1, <1>4 DEF KeysOK, KeyRows
<1>7. OpenKey(entryKey, k) /\ ~OpenKey(entryKey', k)
  BY <1>1, <1>6 DEF OpenKey
<1>8. \A q \in EntryKeys \ {k, new} : OpenKey(entryKey', q) => OpenKey(entryKey, q) /\ entryKey'[q].line # row.line
  BY <1>3, <1>6, <1>7 DEF KeysOK, OpenKey
<1>9. \A q \in EntryKeys : OpenKey(entryKey', q) => acc[entryKey'[q].user].status = "active" /\ ap[entryKey'[q].app] = "installed"
  BY <1>3, <1>6, <1>7, <1>8 DEF KeysOK
<1>10. \A p, q \in EntryKeys : OpenKey(entryKey', p) /\ OpenKey(entryKey', q)
                               /\ entryKey'[p].line = entryKey'[q].line => p = q
  BY <1>6, <1>7, <1>8 DEF KeysOK
<1>11. \A q \in EntryKeys : entryKey[q].status # "none" => entryKey'[q].status # "none"
  BY <1>1, <1>6
<1>12. \A q \in EntryKeys \ {new} : entryKey'[q].line = entryKey[q].line /\ entryKey'[q].user = entryKey[q].user
                                    /\ entryKey'[q].app = entryKey[q].app
                                    /\ (entryKey'[q].status # "none" => entryKey[q].status # "none")
  BY <1>1, <1>6
<1>13. \A q \in EntryKeys : entryKey'[q].status # "none" =>
         /\ entryKey'[q].user \in Users /\ entryKey'[q].app \in Apps /\ entryKey'[q].line \in EntryKeys
         /\ entryKey'[entryKey'[q].line].status # "none"
  BY <1>1, <1>3, <1>6, <1>11, <1>12 DEF KeysOK
<1> QED
  BY <1>5, <1>9, <1>10, <1>13 DEF KeysOK

(***************************************************************************)
(* revokeUser(): the last administrator stays, and what the user had open  *)
(* is closed.                                                              *)
(***************************************************************************)
LEMMA RevokeUserSteps ==
  ASSUME AccountsInv, NEW u \in Users, RevokeUser(u)
  PROVE  /\ CodesOK(account', batch, spent) /\ SessionsOK(session', account')
         /\ KeysOK(entryKey', account', app) /\ AdminsOK(account')
         /\ \A w \in Users : account[w].status # "none" => account'[w].status # "none"
<1>1. /\ CodesOK(account', batch, spent)
      /\ account'[u].status = "revoked"
      /\ \A w \in Users : account'[w].password = account[w].password /\ account'[w].role = account[w].role
      /\ \A w \in Users \ {u} : account'[w].status = account[w].status
  BY DEF AccountsInv, CodesOK, AccountRows, RevokeUser
<1>2. SessionsOK(session', account) /\ \A s \in Sessions : session[s].user = u => session'[s].status \notin {"live", "overdue"}
  <2>1. PICK gone \in SUBSET Sessions : gone = {s \in Sessions : session[s].user = u}
    OBVIOUS
  <2>2. session' = RevokedSessions(gone)
    BY <2>1 DEF RevokeUser
  <2>3. session \in [Sessions -> SessionRows]
    BY DEF AccountsInv, SessionsOK
  <2>4. Closed(session, session') /\ \A s \in gone : session'[s].status \notin {"live", "overdue"}
    BY <2>2, <2>3, RevokedSessionsClosed
  <2> QED
    BY <2>1, <2>4, ClosedKeepsSessions DEF AccountsInv
<1>3. SessionsOK(session', account')
  <2>1. \A s \in Sessions : session'[s].user = session[s].user
    <3>1. session \in [Sessions -> SessionRows]
      BY DEF AccountsInv, SessionsOK
    <3>2. Closed(session, session')
      BY <3>1, RevokedSessionsClosed DEF RevokeUser
    <3> QED
      BY <3>2 DEF Closed
  <2> QED
    BY <1>1, <1>2, <2>1 DEF SessionsOK
<1>4. KeysOK(entryKey', account, app) /\ \A k \in EntryKeys : OpenKey(entryKey', k) => entryKey'[k].user # u
  <2>1. PICK gone \in SUBSET EntryKeys : gone = {k \in EntryKeys : entryKey[k].user = u}
    OBVIOUS
  <2>2. entryKey' = RevokedKeys(gone)
    BY <2>1 DEF RevokeUser
  <2>3. entryKey \in [EntryKeys -> KeyRows]
    BY DEF AccountsInv, KeysOK
  <2>4. ClosedKeys(entryKey, entryKey') /\ \A k \in gone : entryKey'[k].status \notin {"live", "overdue"}
    BY <2>2, <2>3, RevokedKeysClosed
  <2>5. \A k \in EntryKeys : OpenKey(entryKey', k) => entryKey'[k].user # u
    BY <2>1, <2>4 DEF ClosedKeys, OpenKey
  <2> QED
    BY <2>4, <2>5, ClosedKeepsKeys DEF AccountsInv
<1>5. KeysOK(entryKey', account', app)
  BY <1>1, <1>4 DEF KeysOK, OpenKey
<1>6. AdminsOK(account')
  <2>1. CASE account[u].role = "admin"
    <3>1. Cardinality(ActiveAdmins) > 1
      BY <2>1 DEF RevokeUser, Revocable
    <3>2. PICK w \in ActiveAdmins : w # u
      <4>1. SUFFICES ASSUME ActiveAdmins \subseteq {u} PROVE FALSE
        OBVIOUS
      <4>2. IsFiniteSet({u}) /\ Cardinality({u}) = 1
        BY FS_Singleton
      <4>3. Cardinality(ActiveAdmins) <= 1 /\ Cardinality(ActiveAdmins) \in Nat
        BY <4>1, <4>2, FS_Subset, FS_CardinalityType
      <4> QED
        BY <3>1, <4>3
    <3>3. w \in Users /\ account'[w].status = "active" /\ account'[w].role = "admin"
      BY <1>1, <3>2 DEF ActiveAdmins, Active
    <3> QED
      BY <3>3 DEF AdminsOK
  <2>2. CASE account[u].role # "admin"
    <3>1. account[u].status # "none"
      BY DEF RevokeUser, Revocable, Active
    <3>2. PICK w \in Users : account[w].status = "active" /\ account[w].role = "admin"
      BY <3>1 DEF AccountsInv, AdminsOK
    <3>3. account'[w].status = "active" /\ account'[w].role = "admin"
      BY <1>1, <2>2, <3>2
    <3> QED
      BY <3>3 DEF AdminsOK
  <2> QED
    BY <2>1, <2>2
<1> QED
  BY <1>1, <1>3, <1>5, <1>6

(* An installation without users satisfies the invariant.                *)
THEOREM AccountsInitially == AccountsInit => AccountsInv
<1> SUFFICES ASSUME AccountsInit PROVE AccountsInv
  OBVIOUS
<1> USE AccountsAssumption
<1>1. NoAccount \in AccountRows /\ NoAccount.unused = {} /\ NoAccount.status = "none"
  BY DEF NoAccount, AccountRows
<1>2. CodesOK(account, batch, spent)
  BY <1>1 DEF AccountsInit, CodesOK
<1>3. SessionsOK(session, account)
  BY DEF AccountsInit, NoSession, SessionsOK, SessionRows
<1>4. KeysOK(entryKey, account, app)
  BY DEF AccountsInit, NoKey, KeysOK, OpenKey, KeyRows
<1>5. ActingOK(app, acting, account)
  BY DEF AccountsInit, ActingOK
<1>6. AdminsOK(account)
  BY <1>1 DEF AccountsInit, AdminsOK
<1> QED
  BY <1>2, <1>3, <1>4, <1>5, <1>6 DEF AccountsInv

(* A request that ends leaves the others as they are.                      *)
LEMMA RequestEnds ==
  ASSUME NEW acc, NEW ap, ActingOK(ap, acting, acc), NEW r \in Requests, Acts(r)
  PROVE  ActingOK(ap, acting', acc) /\ acting[r] \in Users /\ acc[acting[r]].status # "none"
BY AccountsAssumption DEF ActingOK, Acts

(* Steps that change no user.                                              *)
LEMMA UsersStay ==
  ASSUME AccountsInv, UNCHANGED <<account, batch, spent>>,
         SessionsOK(session', account), KeysOK(entryKey', account, app'), ActingOK(app', acting', account)
  PROVE  AccountsInv'
BY DEF AccountsInv

LEMMA AdminSteps ==
  ASSUME AccountsInv, NEW r \in Requests, AdminNext(r)
  PROVE  AccountsInv'
<1> USE DEF AccountsInv
<1>1. ASSUME NEW s \in Sessions, RequireAdmin(r, s) PROVE AccountsInv'
  <2>1. PICK u \in Users : u = session[s].user /\ account[u].status = "active"
    BY <1>1 DEF RequireAdmin, Valid, Active, SessionsOK
  <2>2. ActingOK(app, acting', account)
    BY <1>1, <2>1, AccountsAssumption DEF RequireAdmin, ActingOK
  <2> QED
    BY <1>1, <2>2, UsersStay DEF RequireAdmin
<1>2. ASSUME Refused(r) PROVE AccountsInv'
  BY <1>2, RequestEnds, UsersStay DEF Refused
<1>3. ASSUME NEW u \in Users, NEW role \in {"admin", "member"}, CreateUser(r, u, role) PROVE AccountsInv'
  <2>1. /\ CodesOK(account', batch, spent) /\ Keeps(account, account')
        /\ \A w \in Users \ {u} : account'[w] = account[w]
    BY <1>3, AddUserSteps DEF CreateUser
  <2>2. /\ ActingOK(app, acting', account) /\ acting[r] \in Users /\ account[acting[r]].status # "none"
    BY <1>3, RequestEnds DEF CreateUser
  <2>3. SessionsOK(session, account') /\ KeysOK(entryKey, account', app) /\ ActingOK(app, acting', account')
    BY <2>1, <2>2, OthersKept
  <2>4. PICK w \in Users : account[w].status = "active" /\ account[w].role = "admin"
    BY <2>2 DEF AdminsOK
  <2>5. w # u
    BY <1>3, <2>4 DEF CreateUser, AddUser
  <2>6. AdminsOK(account')
    BY <2>1, <2>4, <2>5 DEF AdminsOK
  <2> QED
    BY <1>3, <2>1, <2>3, <2>6 DEF CreateUser
<1>4. ASSUME NEW u \in Users, Revoke(r, u) PROVE AccountsInv'
  <2>1. /\ CodesOK(account', batch, spent) /\ SessionsOK(session', account')
        /\ KeysOK(entryKey', account', app) /\ AdminsOK(account')
        /\ \A w \in Users : account[w].status # "none" => account'[w].status # "none"
    BY <1>4, RevokeUserSteps DEF Revoke
  <2>2. ActingOK(app, acting', account)
    BY <1>4, RequestEnds DEF Revoke
  <2>3. ActingOK(app, acting', account')
    BY <2>1, <2>2, AccountsAssumption DEF ActingOK
  <2> QED
    BY <1>4, <2>1, <2>3 DEF Revoke
<1>5. ASSUME BeginTotpSetup(r) PROVE AccountsInv'
  <2>1. ActingOK(app, acting', account) /\ acting[r] \in Users
    BY <1>5, RequestEnds DEF BeginTotpSetup
  <2>2. /\ CodesOK(account', batch, spent) /\ Keeps(account, account')
        /\ \A w \in Users : account'[w].status = account[w].status /\ account'[w].role = account[w].role
    BY <1>5, <2>1, SetupSteps DEF BeginTotpSetup
  <2>3. SessionsOK(session, account') /\ KeysOK(entryKey, account', app) /\ ActingOK(app, acting', account')
    BY <2>1, <2>2, OthersKept
  <2>4. AdminsOK(account')
    BY <2>2, SameAdmins
  <2> QED
    BY <1>5, <2>2, <2>3, <2>4 DEF BeginTotpSetup
<1>6. ASSUME TotpRoute(r) PROVE AccountsInv'
  <2>1. ActingOK(app, acting', account) /\ acting[r] \in Users
    BY <1>6, RequestEnds DEF TotpRoute
  <2>2. /\ CodesOK(account', batch', spent) /\ Keeps(account, account')
        /\ \A w \in Users : account'[w].status = account[w].status /\ account'[w].role = account[w].role
    BY <1>6, <2>1, EnableSteps DEF TotpRoute
  <2>3. SessionsOK(session, account') /\ KeysOK(entryKey, account', app) /\ ActingOK(app, acting', account')
    BY <2>1, <2>2, OthersKept
  <2>4. AdminsOK(account')
    BY <2>2, SameAdmins
  <2> QED
    BY <1>6, <2>2, <2>3, <2>4 DEF TotpRoute
<1>7. ASSUME NEW k \in EntryKeys, NEW a \in Apps, CreateEntryKey(r, k, a) PROVE AccountsInv'
  <2>1. ActingOK(app, acting', account) /\ acting[r] \in Users
    BY <1>7, RequestEnds DEF CreateEntryKey
  <2>2. KeysOK(entryKey', account, app)
    BY <1>7, <2>1, CreateKeySteps DEF CreateEntryKey, Creatable, Active
  <2> QED
    BY <1>7, <2>1, <2>2, UsersStay DEF CreateEntryKey
<1>8. ASSUME NEW k \in EntryKeys, RevokeKeyRoute(r, k) PROVE AccountsInv'
  <2>1. ActingOK(app, acting', account)
    BY <1>8, RequestEnds DEF RevokeKeyRoute
  <2>2. KeysOK(entryKey', account, app)
    BY <1>8, KeyExpiresSteps DEF RevokeKeyRoute
  <2> QED
    BY <1>8, <2>1, <2>2, UsersStay DEF RevokeKeyRoute
<1>9. ASSUME NEW k \in EntryKeys, NEW new \in EntryKeys, RotateRoute(r, k, new) PROVE AccountsInv'
  <2>1. ActingOK(app, acting', account) /\ acting[r] \in Users
    BY <1>9, RequestEnds DEF RotateRoute
  <2>2. KeysOK(entryKey', account, app)
    BY <1>9, <2>1, RotateSteps DEF RotateRoute
  <2> QED
    BY <1>9, <2>1, <2>2, UsersStay DEF RotateRoute
<1>10. ASSUME NEW a \in Apps, DisableRoute(r, a) PROVE AccountsInv'
  <2>1. ActingOK(app, acting', account)
    BY <1>10, RequestEnds DEF DisableRoute
  <2>2. app' = [app EXCEPT ![a] = "disabled"] /\ ActingOK(app', acting', account)
    BY <1>10, <2>1 DEF DisableRoute, DisableInstallation, ActingOK
  <2>3. PICK gone \in SUBSET EntryKeys : gone = {k \in EntryKeys : entryKey[k].app = a}
    OBVIOUS
  <2>4. entryKey' = RevokedKeys(gone)
    BY <1>10, <2>3 DEF DisableRoute, DisableInstallation
  <2>5. ClosedKeys(entryKey, entryKey') /\ \A k \in gone : entryKey'[k].status \notin {"live", "overdue"}
    BY <2>4, RevokedKeysClosed DEF KeysOK
  <2>6. KeysOK(entryKey', account, app)
    BY <2>5, ClosedKeepsKeys
  <2>7. \A k \in EntryKeys : OpenKey(entryKey', k) => entryKey'[k].app # a
    BY <2>3, <2>5 DEF ClosedKeys, OpenKey
  <2>8. KeysOK(entryKey', account, app')
    BY <2>2, <2>6, <2>7 DEF KeysOK, OpenKey, ActingOK
  <2> QED
    BY <1>10, <2>2, <2>8, UsersStay DEF DisableRoute
<1>11. ASSUME NEW a \in Apps, EnableRoute(r, a) PROVE AccountsInv'
  <2>1. ActingOK(app, acting', account)
    BY <1>11, RequestEnds DEF EnableRoute
  <2>2. ActingOK(app', acting', account)
    BY <1>11, <2>1 DEF EnableRoute, ActingOK
  <2>3. KeysOK(entryKey, account, app')
    BY <1>11 DEF EnableRoute, KeysOK, OpenKey, ActingOK
  <2> QED
    BY <1>11, <2>2, <2>3, UsersStay DEF EnableRoute
<1> QED
  BY <1>1, <1>2, <1>3, <1>4, <1>5, <1>6, <1>7, <1>8, <1>9, <1>10, <1>11 DEF AdminNext

(* Every request, authenticated before or not, keeps sessions, keys and  *)
(* administrators in agreement (repository.ts, app.ts).                  *)
THEOREM AccountsInductive == AccountsInv /\ [AccountsNext]_accounts => AccountsInv'
<1> SUFFICES ASSUME AccountsInv, [AccountsNext]_accounts PROVE AccountsInv'
  OBVIOUS
<1> USE DEF AccountsInv
<1>1. ASSUME NEW u \in Users, Bootstrap(u) PROVE AccountsInv'
  <2>1. /\ CodesOK(account', batch, spent) /\ Keeps(account, account')
        /\ account'[u].status = "active" /\ account'[u].role = "admin"
    BY <1>1, AddUserSteps DEF Bootstrap
  <2>2. SessionsOK(session, account') /\ KeysOK(entryKey, account', app) /\ ActingOK(app, acting, account')
    BY <2>1, OthersKept
  <2>3. AdminsOK(account')
    BY <2>1 DEF AdminsOK
  <2> QED
    BY <1>1, <2>1, <2>2, <2>3 DEF Bootstrap
<1>2. ASSUME NEW s \in Sessions, NEW u \in Users, Login(s, u) PROVE AccountsInv'
  <2>1. SessionsOK(session', account)
    BY <1>2, OpenSteps DEF Login
  <2>2. CASE UNCHANGED <<account, spent>>
    BY <1>2, <2>1, <2>2, UsersStay DEF Login
  <2>3. ASSUME NEW c \in account[u].unused, Consume(u, c) PROVE AccountsInv'
    <3>1. /\ CodesOK(account', batch, spent') /\ Keeps(account, account')
          /\ \A w \in Users : account'[w].status = account[w].status /\ account'[w].role = account[w].role
      BY <2>3, ConsumeSteps
    <3>2. SessionsOK(session', account') /\ KeysOK(entryKey, account', app) /\ ActingOK(app, acting, account')
      BY <2>1, <3>1, OthersKept
    <3>3. AdminsOK(account')
      BY <3>1, SameAdmins
    <3> QED
      BY <1>2, <3>1, <3>2, <3>3 DEF Login
  <2> QED
    BY <1>2, <2>2, <2>3 DEF Login
<1>3. ASSUME NEW s \in Sessions, Logout(s) PROVE AccountsInv'
  <2>1. SessionsOK(session', account)
    BY <1>3 DEF Logout, SessionsOK, SessionRows
  <2> QED
    BY <1>3, <2>1, UsersStay DEF Logout
<1>4. ASSUME NEW s \in Sessions, SessionExpires(s) PROVE AccountsInv'
  <2>1. SessionsOK(session', account)
    BY <1>4 DEF SessionExpires, SessionsOK, SessionRows
  <2> QED
    BY <1>4, <2>1, UsersStay DEF SessionExpires
<1>5. ASSUME NEW s \in Sessions, Password(s) PROVE AccountsInv'
  <2>1. /\ CodesOK(account', batch, spent) /\ SessionsOK(session', account')
        /\ \A w \in Users : account'[w].status = account[w].status /\ account'[w].role = account[w].role
    BY <1>5, PasswordSteps
  <2>2. KeysOK(entryKey, account', app) /\ ActingOK(app, acting, account')
    BY <2>1, AccountsAssumption DEF KeysOK, OpenKey, ActingOK
  <2>3. AdminsOK(account')
    BY <2>1, SameAdmins
  <2> QED
    BY <1>5, <2>1, <2>2, <2>3 DEF Password
<1>6. ASSUME NEW k \in EntryKeys, KeyExpires(k) PROVE AccountsInv'
  <2>1. KeysOK(entryKey', account, app)
    BY <1>6, KeyExpiresSteps DEF KeyExpires
  <2> QED
    BY <1>6, <2>1, UsersStay DEF KeyExpires
<1>7. CASE UNCHANGED accounts
  BY <1>7 DEF accounts
<1> QED
  BY <1>1, <1>2, <1>3, <1>4, <1>5, <1>6, <1>7, AdminSteps DEF AccountsNext

(***************************************************************************)
(* For any number of users, sessions, keys and concurrent requests: open   *)
(* sessions and keys belong to active users and installed applications,    *)
(* recovery codes admit once, and an administrator remains (repository.ts  *)
(* 34-138, 188-208, 607-661).                                              *)
(***************************************************************************)
THEOREM AccountsStaySound == AccountsSpec => []AccountsSound
<1> QED
  BY AccountsInitially, AccountsInductive, AccountsInvHolds, PTL DEF AccountsSpec

------------------------------------------------------------------------------
(***************************************************************************)
(* Theorems about CredentialVault: answered revocations last, and the two  *)
(* steps of a save implement the one step of CredentialStore.              *)
(*                                                                         *)
(* The strengthening relates three versions of every record: in the file,  *)
(* in memory and in the change under way.  The file lags behind memory     *)
(* only by records whose creation is being saved, or failed; a change only *)
(* revokes live records and adds absent ones of installed holders.         *)
(***************************************************************************)

Saving == saving.at \in {"writing", "written", "renamed"}

FileFollowsMemory ==
  saving.at \in {"no", "writing", "written"} =>
     \A c \in Credentials : saved[c] = memory[c] \/ (saved[c] = "absent" /\ memory[c] = "live")

ChangeIsSmall ==
  Saving =>
    \A c \in Credentials :
      /\ \/ saving.next[c] = memory[c]
         \/ memory[c] = "live" /\ saving.next[c] = "revoked"
         \/ memory[c] = "absent" /\ saving.next[c] = "live" /\ holder[Of[c]] = "installed"
      /\ c \in saving.gone => saving.next[c] = "revoked"
      /\ Of[c] \in saving.of => saving.next[c] # "live"

ChangeIsPlaced ==
  /\ saving.at = "renamed" => saved = saving.next
  /\ ~Saving => saving.of = {}
  /\ saving.at = "down" => \A c \in Credentials : memory[c] = "absent"

ToldIsRevoked ==
  \A c \in told : saved[c] = "revoked" /\ (saving.at # "down" => memory[c] = "revoked")

FileOfEnabled ==
  saving.at = "down" =>
    \A c \in Credentials : saved[c] = "live" /\ holder[Of[c]] # "installed" => Of[c] \in missed

VaultInv ==
  /\ VaultTypeOK
  /\ FileFollowsMemory
  /\ ChangeIsSmall
  /\ ChangeIsPlaced
  /\ ToldIsRevoked
  /\ CredentialsOfEnabled
  /\ FileOfEnabled

LEMMA VaultInvHolds == VaultInv => CredentialsSound
<1> SUFFICES ASSUME VaultInv PROVE CredentialsSound
  OBVIOUS
<1>1. RevokedStaysRevoked
  BY DEF VaultInv, VaultTypeOK, ToldIsRevoked, RevokedStaysRevoked, Resolvable, Usable
<1> QED
  BY <1>1 DEF VaultInv, CredentialsSound

(* A vault without a file satisfies the invariant (CredentialVault).     *)
THEOREM VaultInitially == VaultInit => VaultInv
<1> SUFFICES ASSUME VaultInit PROVE VaultInv
  OBVIOUS
<1> USE DEF VaultInit, Statuses
<1>1. VaultTypeOK
  BY DEF VaultTypeOK
<1>2. FileFollowsMemory /\ ChangeIsSmall /\ ChangeIsPlaced /\ ToldIsRevoked
  BY DEF FileFollowsMemory, ChangeIsSmall, ChangeIsPlaced, ToldIsRevoked, Saving
<1>3. CredentialsOfEnabled /\ FileOfEnabled
  BY DEF CredentialsOfEnabled, FileOfEnabled
<1> QED
  BY <1>1, <1>2, <1>3 DEF VaultInv

(* A new change, from a vault at rest.                                     *)
LEMMA BeginSteps ==
  ASSUME VaultInv, Idle,
         NEW next \in [Credentials -> Statuses], NEW gone \in SUBSET Credentials, NEW of \in SUBSET Installations,
         Begin(next, gone, of),
         memory' \in [Credentials -> Statuses],
         \A c \in Credentials : saved[c] = memory'[c] \/ (saved[c] = "absent" /\ memory'[c] = "live"),
         holder' \in [Installations -> {"installed", "disabled", "uninstalled"}],
         \A c \in Credentials :
           /\ \/ next[c] = memory'[c]
              \/ memory'[c] = "live" /\ next[c] = "revoked"
              \/ memory'[c] = "absent" /\ next[c] = "live" /\ holder'[Of[c]] = "installed"
           /\ c \in gone => next[c] = "revoked"
           /\ Of[c] \in of => next[c] # "live",
         \A c \in Credentials : memory'[c] = "live" /\ holder'[Of[c]] # "installed" => Of[c] \in of \cup missed,
         UNCHANGED <<saved, overdue, told, missed>>
  PROVE  VaultInv'
<1>1. saving' = [at |-> "writing", next |-> next, gone |-> gone, of |-> of]
  BY DEF Begin
<1>2. VaultTypeOK'
  BY <1>1 DEF VaultInv, VaultTypeOK
<1>3. FileFollowsMemory' /\ ChangeIsSmall' /\ ChangeIsPlaced'
  BY <1>1 DEF FileFollowsMemory, ChangeIsSmall, ChangeIsPlaced, Saving
<1>4. ToldIsRevoked'
  BY <1>1 DEF VaultInv, VaultTypeOK, ToldIsRevoked
<1>5. CredentialsOfEnabled' /\ FileOfEnabled'
  BY <1>1 DEF CredentialsOfEnabled, FileOfEnabled
<1> QED
  BY <1>2, <1>3, <1>4, <1>5 DEF VaultInv

(* The new list of a revocation.                                           *)
LEMMA WithoutIs ==
  ASSUME VaultTypeOK, NEW gone \in SUBSET Credentials
  PROVE  /\ Without(gone) \in [Credentials -> Statuses]
         /\ \A c \in Credentials : Without(gone)[c] = IF c \in gone THEN "revoked" ELSE memory[c]
BY DEF VaultTypeOK, Without, Statuses

LEMMA RevokingSteps ==
  ASSUME VaultInv, Idle,
         NEW gone \in SUBSET Credentials, NEW of \in SUBSET Installations,
         Begin(Without(gone), gone, of),
         \A c \in gone : memory[c] = "live",
         \A c \in Credentials : Of[c] \in of /\ memory[c] = "live" => c \in gone,
         holder' \in [Installations -> {"installed", "disabled", "uninstalled"}],
         \A c \in Credentials : holder'[Of[c]] # "installed" => holder[Of[c]] # "installed" \/ Of[c] \in of,
         UNCHANGED <<memory, saved, overdue, told, missed>>
  PROVE  VaultInv'
<1>1. saving.at = "no" /\ saving.of = {}
  BY DEF VaultInv, Idle, ChangeIsPlaced, Saving
<1>2. PICK next \in [Credentials -> Statuses] :
        next = Without(gone) /\ \A c \in Credentials : next[c] = IF c \in gone THEN "revoked" ELSE memory[c]
  BY WithoutIs DEF VaultInv
<1>3. \A c \in Credentials : saved[c] = memory'[c] \/ (saved[c] = "absent" /\ memory'[c] = "live")
  BY <1>1 DEF VaultInv, FileFollowsMemory
<1>4. \A c \in Credentials : /\ next[c] = memory'[c] \/ (memory'[c] = "live" /\ next[c] = "revoked")
                             /\ c \in gone => next[c] = "revoked"
                             /\ Of[c] \in of => next[c] # "live"
  BY <1>2
<1>5. \A c \in Credentials : memory'[c] = "live" /\ holder'[Of[c]] # "installed" => Of[c] \in of \cup missed
  BY <1>1 DEF VaultInv, CredentialsOfEnabled
<1>6. Begin(next, gone, of) /\ memory' \in [Credentials -> Statuses]
  BY <1>2 DEF VaultInv, VaultTypeOK
<1> QED
  BY <1>3, <1>4, <1>5, <1>6, BeginSteps

(* Disabling and uninstalling share everything but the status.             *)
LEMMA HolderSteps ==
  ASSUME VaultInv, Idle, NEW i \in Installations, NEW status \in {"disabled", "uninstalled"},
         holder' = [holder EXCEPT ![i] = status], RevokeInstallation(i),
         UNCHANGED <<memory, saved, overdue, told>>
  PROVE  VaultInv'
<1> USE VaultAssumption
<1> DEFINE gone == {c \in Credentials : Of[c] = i /\ memory[c] = "live"}
<1>1. saving.at = "no" /\ saving.of = {}
  BY DEF VaultInv, Idle, ChangeIsPlaced, Saving
<1>2. /\ holder' \in [Installations -> {"installed", "disabled", "uninstalled"}]
      /\ \A c \in Credentials : holder'[Of[c]] = IF Of[c] = i THEN status ELSE holder[Of[c]]
  BY DEF VaultInv, VaultTypeOK
<1>3. CASE gone = {}
  <2>1. missed' = missed \ {i} /\ UNCHANGED saving
    BY <1>3 DEF RevokeInstallation
  <2>2. VaultTypeOK'
    BY <1>2, <2>1 DEF VaultInv, VaultTypeOK
  <2>3. FileFollowsMemory' /\ ChangeIsSmall' /\ ChangeIsPlaced' /\ ToldIsRevoked'
    BY <1>1, <2>1 DEF VaultInv, FileFollowsMemory, ChangeIsSmall, ChangeIsPlaced, ToldIsRevoked, Saving
  <2>4. CredentialsOfEnabled' /\ FileOfEnabled'
    BY <1>1, <1>2, <1>3, <2>1 DEF VaultInv, CredentialsOfEnabled, FileOfEnabled
  <2> QED
    BY <2>2, <2>3, <2>4 DEF VaultInv
<1>4. CASE gone # {}
  <2>1. Begin(Without(gone), gone, {i}) /\ UNCHANGED missed
    BY <1>4 DEF RevokeInstallation
  <2>2. \A c \in Credentials : holder'[Of[c]] # "installed" => holder[Of[c]] # "installed" \/ Of[c] \in {i}
    BY <1>2
  <2>3. {i} \in SUBSET Installations /\ gone \in SUBSET Credentials
    OBVIOUS
  <2>4. \A c \in Credentials : Of[c] \in {i} /\ memory[c] = "live" => c \in gone
    OBVIOUS
  <2>5. \A c \in gone : memory[c] = "live"
    OBVIOUS
  <2> QED
    BY <1>2, <2>1, <2>2, <2>3, <2>4, <2>5, RevokingSteps
<1> QED
  BY <1>3, <1>4

(* Every change, each step of its save, a failing save and a restart keep*)
(* memory, file and change in agreement (CredentialVault).               *)
THEOREM VaultInductive == VaultInv /\ [VaultNext]_vault => VaultInv'
<1> SUFFICES ASSUME VaultInv, [VaultNext]_vault PROVE VaultInv'
  OBVIOUS
<1> USE VaultAssumption
<1>0. Idle => saving.at = "no" /\ saving.of = {}
  BY DEF VaultInv, Idle, ChangeIsPlaced, Saving
<1>1. ASSUME NEW c \in Credentials, Create(c) PROVE VaultInv'
  <2>1. /\ memory' \in [Credentials -> Statuses]
        /\ \A d \in Credentials : memory'[d] = IF d = c THEN "live" ELSE memory[d]
    BY <1>1 DEF VaultInv, VaultTypeOK, Create, Statuses
  <2>2. saved[c] = "absent"
    BY <1>0, <1>1 DEF VaultInv, FileFollowsMemory, Create
  <2>3. \A d \in Credentials : saved[d] = memory'[d] \/ (saved[d] = "absent" /\ memory'[d] = "live")
    BY <1>0, <1>1, <2>1, <2>2 DEF VaultInv, FileFollowsMemory, Create
  <2>4. \A d \in Credentials : memory'[d] = "live" /\ holder'[Of[d]] # "installed" => Of[d] \in {} \cup missed
    BY <1>0, <1>1, <2>1 DEF VaultInv, CredentialsOfEnabled, Create
  <2>5. Begin(memory', {}, {}) /\ holder' = holder
    BY <1>1 DEF Create
  <2>6. holder' \in [Installations -> {"installed", "disabled", "uninstalled"}]
    BY <2>5 DEF VaultInv, VaultTypeOK
  <2>7. \A d \in Credentials :
          /\ \/ memory'[d] = memory'[d]
             \/ memory'[d] = "live" /\ memory'[d] = "revoked"
             \/ memory'[d] = "absent" /\ memory'[d] = "live" /\ holder'[Of[d]] = "installed"
          /\ d \in {} => memory'[d] = "revoked"
          /\ Of[d] \in {} => memory'[d] # "live"
    OBVIOUS
  <2>8. Idle /\ UNCHANGED <<saved, overdue, told, missed>>
    BY <1>1 DEF Create
  <2> QED
    BY <2>1, <2>3, <2>4, <2>5, <2>6, <2>7, <2>8, BeginSteps
<1>2. ASSUME NEW c \in Credentials, NEW new \in Credentials, Rotate(c, new) PROVE VaultInv'
  <2>1. PICK old \in [Credentials -> Statuses] :
          old = Without({c}) /\ \A d \in Credentials : old[d] = IF d = c THEN "revoked" ELSE memory[d]
    BY WithoutIs DEF VaultInv
  <2>2. PICK next : next = [old EXCEPT ![new] = "live"]
    OBVIOUS
  <2>3. c # new /\ memory[c] = "live" /\ memory[new] = "absent" /\ holder[Of[new]] = "installed"
    BY <1>2 DEF Rotate, Usable
  <2>4. /\ next \in [Credentials -> Statuses]
        /\ next[new] = "live" /\ next[c] = "revoked"
        /\ \A d \in Credentials \ {c, new} : next[d] = memory[d]
    BY <2>1, <2>2, <2>3 DEF Statuses
  <2>5. Begin(next, {c}, {}) /\ UNCHANGED <<memory, saved, overdue, holder, told, missed>>
    BY <1>2, <2>1, <2>2 DEF Rotate, Rotated
  <2>6. /\ memory' \in [Credentials -> Statuses]
        /\ holder' \in [Installations -> {"installed", "disabled", "uninstalled"}]
    BY <2>5 DEF VaultInv, VaultTypeOK
  <2>7. \A d \in Credentials : saved[d] = memory'[d] \/ (saved[d] = "absent" /\ memory'[d] = "live")
    BY <1>0, <1>2, <2>5 DEF VaultInv, FileFollowsMemory, Rotate
  <2>8. \A d \in Credentials : memory'[d] = "live" /\ holder'[Of[d]] # "installed" => Of[d] \in {} \cup missed
    BY <1>0, <1>2, <2>5 DEF VaultInv, CredentialsOfEnabled, Rotate
  <2>9. \A d \in Credentials :
          /\ \/ next[d] = memory'[d]
             \/ memory'[d] = "live" /\ next[d] = "revoked"
             \/ memory'[d] = "absent" /\ next[d] = "live" /\ holder'[Of[d]] = "installed"
          /\ d \in {c} => next[d] = "revoked"
          /\ Of[d] \in {} => next[d] # "live"
    BY <2>3, <2>4, <2>5
  <2>10. Idle
    BY <1>2 DEF Rotate
  <2> QED
    BY <2>4, <2>5, <2>6, <2>7, <2>8, <2>9, <2>10, BeginSteps
<1>3. ASSUME NEW c \in Credentials, RevokeCredential(c) PROVE VaultInv'
  <2>1. holder' \in [Installations -> {"installed", "disabled", "uninstalled"}]
    BY <1>3 DEF VaultInv, VaultTypeOK, RevokeCredential
  <2> QED
    BY <1>3, <2>1, RevokingSteps DEF RevokeCredential
<1>4. ASSUME RevokeCredentialsOfUser PROVE VaultInv'
  <2>1. PICK gone \in SUBSET Credentials : gone = {c \in Credentials : memory[c] = "live"}
    OBVIOUS
  <2>2. Idle /\ Begin(Without(gone), gone, {}) /\ UNCHANGED <<memory, saved, overdue, holder, told, missed>>
    BY <1>4, <2>1 DEF RevokeCredentialsOfUser
  <2>3. holder' \in [Installations -> {"installed", "disabled", "uninstalled"}]
    BY <2>2 DEF VaultInv, VaultTypeOK
  <2> QED
    BY <2>1, <2>2, <2>3, RevokingSteps
<1>5. ASSUME NEW i \in Installations, DisableHolder(i) PROVE VaultInv'
  BY <1>5, HolderSteps DEF DisableHolder
<1>6. ASSUME NEW i \in Installations, UninstallHolder(i) PROVE VaultInv'
  BY <1>6, HolderSteps DEF UninstallHolder
<1>7. ASSUME NEW i \in Installations, EnableHolder(i) PROVE VaultInv'
  <2>1. /\ holder' \in [Installations -> {"installed", "disabled", "uninstalled"}]
        /\ \A c \in Credentials : holder'[Of[c]] # "installed" => holder[Of[c]] # "installed"
    BY <1>7 DEF VaultInv, VaultTypeOK, EnableHolder
  <2>2. saving.at = "no" /\ UNCHANGED <<memory, saved, overdue, saving, told, missed>>
    BY <1>0, <1>7 DEF EnableHolder
  <2>3. VaultTypeOK'
    BY <2>1, <2>2 DEF VaultInv, VaultTypeOK
  <2>4. FileFollowsMemory' /\ ChangeIsSmall' /\ ChangeIsPlaced' /\ ToldIsRevoked'
    BY <2>2 DEF VaultInv, FileFollowsMemory, ChangeIsSmall, ChangeIsPlaced, ToldIsRevoked, Saving
  <2>5. CredentialsOfEnabled' /\ FileOfEnabled'
    BY <2>1, <2>2 DEF VaultInv, CredentialsOfEnabled, FileOfEnabled
  <2> QED
    BY <2>3, <2>4, <2>5 DEF VaultInv
<1>8. ASSUME NEW c \in Credentials, Expire(c) PROVE VaultInv'
  <2>1. overdue' \subseteq Credentials
    BY <1>8 DEF VaultInv, VaultTypeOK, Expire
  <2> QED
    BY <1>8, <2>1 DEF Expire, VaultInv, VaultTypeOK, FileFollowsMemory, ChangeIsSmall, ChangeIsPlaced,
       ToldIsRevoked, Saving, CredentialsOfEnabled, FileOfEnabled
<1>9. ASSUME Write PROVE VaultInv'
  <2>1. /\ saving.at = "writing" /\ saving' \in [at : {"no", "writing", "written", "renamed", "down"},
             next : [Credentials -> Statuses], gone : SUBSET Credentials, of : SUBSET Installations]
        /\ saving'.at = "written" /\ saving'.next = saving.next /\ saving'.gone = saving.gone /\ saving'.of = saving.of
        /\ UNCHANGED <<memory, saved, overdue, holder, told, missed>>
    BY <1>9 DEF VaultInv, VaultTypeOK, Write
  <2>2. VaultTypeOK'
    BY <2>1 DEF VaultInv, VaultTypeOK
  <2>3. FileFollowsMemory' /\ ChangeIsSmall' /\ ChangeIsPlaced' /\ ToldIsRevoked'
    BY <2>1 DEF VaultInv, FileFollowsMemory, ChangeIsSmall, ChangeIsPlaced, ToldIsRevoked, Saving
  <2>4. CredentialsOfEnabled' /\ FileOfEnabled'
    BY <2>1 DEF VaultInv, CredentialsOfEnabled, FileOfEnabled
  <2> QED
    BY <2>2, <2>3, <2>4 DEF VaultInv
<1>10. ASSUME Rename PROVE VaultInv'
  <2>1. /\ saving.at = "written" /\ saving' \in [at : {"no", "writing", "written", "renamed", "down"},
             next : [Credentials -> Statuses], gone : SUBSET Credentials, of : SUBSET Installations]
        /\ saving'.at = "renamed" /\ saving'.next = saving.next /\ saving'.gone = saving.gone /\ saving'.of = saving.of
        /\ saved' = saving.next /\ UNCHANGED <<memory, overdue, holder, told, missed>>
    BY <1>10 DEF VaultInv, VaultTypeOK, Rename
  <2>2. VaultTypeOK'
    BY <2>1 DEF VaultInv, VaultTypeOK
  <2>3. FileFollowsMemory' /\ ChangeIsSmall' /\ ChangeIsPlaced'
    BY <2>1 DEF VaultInv, FileFollowsMemory, ChangeIsSmall, ChangeIsPlaced, Saving
  <2>4. ToldIsRevoked'
    BY <2>1 DEF VaultInv, VaultTypeOK, ToldIsRevoked, ChangeIsSmall, Saving
  <2>5. CredentialsOfEnabled' /\ FileOfEnabled'
    BY <2>1 DEF VaultInv, CredentialsOfEnabled, FileOfEnabled
  <2> QED
    BY <2>2, <2>3, <2>4, <2>5 DEF VaultInv
<1>11. ASSUME SaveFails PROVE VaultInv'
  <2>1. /\ saving.at \in {"writing", "written"} /\ missed' = missed \cup saving.of
        /\ saving' = [at |-> "no", next |-> memory, gone |-> {}, of |-> {}]
        /\ UNCHANGED <<memory, saved, overdue, holder, told>>
    BY <1>11 DEF SaveFails, Settled
  <2>2. VaultTypeOK'
    BY <2>1 DEF VaultInv, VaultTypeOK
  <2>3. FileFollowsMemory' /\ ChangeIsSmall' /\ ChangeIsPlaced' /\ ToldIsRevoked'
    BY <2>1 DEF VaultInv, FileFollowsMemory, ChangeIsSmall, ChangeIsPlaced, ToldIsRevoked, Saving
  <2>4. CredentialsOfEnabled' /\ FileOfEnabled'
    BY <2>1 DEF VaultInv, CredentialsOfEnabled, FileOfEnabled
  <2> QED
    BY <2>2, <2>3, <2>4 DEF VaultInv
<1>12. ASSUME Finish PROVE VaultInv'
  <2>1. /\ saving.at = "renamed" /\ saving' \in [at : {"no", "writing", "written", "renamed", "down"},
             next : [Credentials -> Statuses], gone : SUBSET Credentials, of : SUBSET Installations]
        /\ saving'.at = "no" /\ saving'.of = {}
        /\ memory' = saving.next /\ told' = told \cup saving.gone /\ missed' = missed \ saving.of
        /\ UNCHANGED <<saved, overdue, holder>>
    BY <1>12 DEF VaultInv, VaultTypeOK, Finish
  <2>2. VaultTypeOK' /\ saving.gone \subseteq Credentials
    BY <2>1 DEF VaultInv, VaultTypeOK
  <2>3. saved = saving.next
    BY <2>1 DEF VaultInv, ChangeIsPlaced
  <2>4. FileFollowsMemory' /\ ChangeIsSmall' /\ ChangeIsPlaced'
    BY <2>1, <2>3 DEF FileFollowsMemory, ChangeIsSmall, ChangeIsPlaced, Saving
  <2>5. ToldIsRevoked'
    BY <2>1, <2>2, <2>3 DEF VaultInv, ToldIsRevoked, ChangeIsSmall, Saving
  <2>6. CredentialsOfEnabled' /\ FileOfEnabled'
    BY <2>1 DEF VaultInv, CredentialsOfEnabled, FileOfEnabled, ChangeIsSmall, Saving
  <2> QED
    BY <2>2, <2>4, <2>5, <2>6 DEF VaultInv
<1>13. ASSUME VaultCrash PROVE VaultInv'
  <2>1. /\ saving.at # "down" /\ saving' \in [at : {"no", "writing", "written", "renamed", "down"},
             next : [Credentials -> Statuses], gone : SUBSET Credentials, of : SUBSET Installations]
        /\ saving'.at = "down" /\ saving'.of = {} /\ memory' = [c \in Credentials |-> "absent"]
        /\ missed' = IF saving.at = "renamed" THEN missed \ saving.of ELSE missed \cup saving.of
        /\ UNCHANGED <<saved, overdue, holder, told>>
    BY <1>13 DEF VaultInv, VaultTypeOK, VaultCrash
  <2>2. VaultTypeOK'
    BY <2>1 DEF VaultInv, VaultTypeOK, Statuses
  <2>3. FileFollowsMemory' /\ ChangeIsSmall' /\ ChangeIsPlaced' /\ ToldIsRevoked' /\ CredentialsOfEnabled'
    BY <2>1 DEF VaultInv, FileFollowsMemory, ChangeIsSmall, ChangeIsPlaced, ToldIsRevoked, Saving, CredentialsOfEnabled
  <2>4. saving.at \in {"no", "writing", "written", "renamed"}
    BY <2>1 DEF VaultInv, VaultTypeOK
  <2>5. FileOfEnabled'
    <3>1. CASE saving.at = "renamed"
      BY <2>1, <3>1 DEF VaultInv, FileOfEnabled, ChangeIsPlaced, ChangeIsSmall, Saving, CredentialsOfEnabled
    <3>2. CASE saving.at # "renamed"
      BY <2>1, <2>4, <3>2 DEF VaultInv, FileOfEnabled, FileFollowsMemory, CredentialsOfEnabled
    <3> QED
      BY <3>1, <3>2
  <2> QED
    BY <2>2, <2>3, <2>5 DEF VaultInv
<1>14. ASSUME ReadVault PROVE VaultInv'
  <2>1. /\ saving.at = "down" /\ memory' = saved
        /\ saving' = [at |-> "no", next |-> saved, gone |-> {}, of |-> {}]
        /\ UNCHANGED <<saved, overdue, holder, told, missed>>
    BY <1>14 DEF ReadVault
  <2>2. VaultTypeOK'
    BY <2>1 DEF VaultInv, VaultTypeOK
  <2>3. FileFollowsMemory' /\ ChangeIsSmall' /\ ChangeIsPlaced' /\ ToldIsRevoked'
    BY <2>1 DEF VaultInv, FileFollowsMemory, ChangeIsSmall, ChangeIsPlaced, ToldIsRevoked, Saving
  <2>4. CredentialsOfEnabled' /\ FileOfEnabled'
    BY <2>1 DEF VaultInv, CredentialsOfEnabled, FileOfEnabled
  <2> QED
    BY <2>2, <2>3, <2>4 DEF VaultInv
<1>15. CASE UNCHANGED vault
  BY <1>15 DEF vault, VaultInv, VaultTypeOK, FileFollowsMemory, ChangeIsSmall, ChangeIsPlaced,
     ToldIsRevoked, Saving, CredentialsOfEnabled, FileOfEnabled
<1> QED
  BY <1>1, <1>2, <1>3, <1>4, <1>5, <1>6, <1>7, <1>8, <1>9, <1>10, <1>11, <1>12, <1>13, <1>14, <1>15
     DEF VaultNext

(***************************************************************************)
(* For any number of credentials and installations: a revocation that was  *)
(* answered holds in memory and file through every failed save and every   *)
(* restart, and what an installation that is not installed still holds is  *)
(* being revoked or failed to be (CredentialVault.revoke, persist, read).  *)
(***************************************************************************)
THEOREM RevocationsLast == VaultSpec => []CredentialsSound
<1> QED
  BY VaultInitially, VaultInductive, VaultInvHolds, PTL DEF VaultSpec

(***************************************************************************)
(* The refinement: the rename is the abstract save, a creation is offered  *)
(* when it enters the list, and the end of Core forgets what is offered.   *)
(***************************************************************************)
Offered == {c \in Credentials : memory[c] = "live" /\ saved[c] = "absent"}

LEMMA RenameSaves ==
  ASSUME VaultInv, Rename
  PROVE  Store!StoreNext
<1>a. PICK taken \in SUBSET Credentials :
         taken = {c \in Credentials : memory[c] = "live" /\ saving.next[c] = "revoked"}
  OBVIOUS
<1>b. PICK brought \in SUBSET Credentials :
         brought = {c \in Credentials : memory[c] = "absent" /\ saving.next[c] = "live"}
  OBVIOUS
<1>1. /\ saving.at = "written" /\ memory' = memory /\ saved' = saving.next
      /\ saving.next \in [Credentials -> Statuses] /\ memory \in [Credentials -> Statuses]
  BY DEF VaultInv, VaultTypeOK, Rename
<1>2. \A c \in Credentials : saved[c] = memory[c] \/ (saved[c] = "absent" /\ memory[c] = "live")
  BY <1>1 DEF VaultInv, FileFollowsMemory
<1>3. \A c \in Credentials : Store!Known(c) = memory[c]
  BY <1>2 DEF Store!Known
<1>4. \A c \in Credentials : \/ saving.next[c] = memory[c]
                             \/ memory[c] = "live" /\ saving.next[c] = "revoked"
                             \/ memory[c] = "absent" /\ saving.next[c] = "live"
  BY <1>1 DEF VaultInv, ChangeIsSmall, Saving
<1>5. \A c \in Credentials : saving.next[c] = CASE c \in taken -> "revoked"
                                                [] c \in brought -> "live"
                                                [] OTHER -> Store!Known(c)
  BY <1>a, <1>b, <1>3, <1>4
<1>6. saving.next = [c \in Credentials |-> saving.next[c]]
  BY <1>1
<1>7. saving.next = [c \in Credentials |-> CASE c \in taken -> "revoked"
                                             [] c \in brought -> "live"
                                             [] OTHER -> Store!Known(c)]
  BY <1>5, <1>6
<1>8. {c \in Credentials : memory'[c] = "live" /\ saved'[c] = "absent"} = {}
  BY <1>1, <1>4
<1>9. \A c \in taken : Store!Known(c) = "live"
  BY <1>a, <1>3
<1>10. \A c \in brought : Store!Known(c) = "absent"
  BY <1>b, <1>3
<1>11. Store!Save(taken, brought)
  BY <1>1, <1>7, <1>8, <1>9, <1>10 DEF Store!Save
<1> QED
  BY <1>11 DEF Store!StoreNext

(* The rename is a save of the store, a restart forgets, and every other *)
(* step leaves the store alone (CredentialVault.persist).                *)
THEOREM VaultRefines == VaultInv /\ [VaultNext]_vault => [Store!StoreNext]_<<saved, Offered>>
<1> SUFFICES ASSUME VaultInv, [VaultNext]_vault PROVE [Store!StoreNext]_<<saved, Offered>>
  OBVIOUS
<1>0. \A c \in Credentials : saving.at = "no" => saved[c] = memory[c] \/ (saved[c] = "absent" /\ memory[c] = "live")
  BY DEF VaultInv, FileFollowsMemory
<1>1. ASSUME NEW c \in Credentials, Create(c) PROVE Store!StoreNext
  <2>1. /\ saving.at = "no" /\ memory[c] = "absent" /\ saved' = saved
        /\ memory' \in [Credentials -> Statuses]
        /\ \A d \in Credentials : memory'[d] = IF d = c THEN "live" ELSE memory[d]
    BY <1>1 DEF VaultInv, VaultTypeOK, Create, Idle, Statuses
  <2>2. saved[c] = "absent" /\ c \notin Offered
    BY <1>0, <2>1 DEF Offered
  <2>3. Store!Known(c) = "absent"
    BY <2>2 DEF Store!Known, Offered
  <2>4. {d \in Credentials : memory'[d] = "live" /\ saved'[d] = "absent"} = Offered \cup {c}
    BY <2>1, <2>2 DEF Offered
  <2>5. Store!Offer(c)
    BY <2>1, <2>3, <2>4 DEF Store!Offer, Offered
  <2> QED
    BY <2>5 DEF Store!StoreNext
<1>2. ASSUME UNCHANGED <<memory, saved>> PROVE UNCHANGED <<saved, Offered>>
  BY <1>2 DEF Offered
<1>3. CASE Rename
  BY <1>3, RenameSaves
<1>4. ASSUME Finish PROVE UNCHANGED <<saved, Offered>>
  <2>1. saving.at = "renamed" /\ memory' = saving.next /\ saved' = saved /\ saved = saving.next
    BY <1>4 DEF VaultInv, ChangeIsPlaced, Finish
  <2>2. \A c \in Credentials : ~(memory[c] = "live" /\ saved[c] = "absent")
    BY <2>1 DEF VaultInv, ChangeIsSmall, Saving
  <2> QED
    BY <2>1, <2>2 DEF Offered
<1>5. ASSUME VaultCrash PROVE Store!StoreNext
  <2>1. saved' = saved /\ {c \in Credentials : memory'[c] = "live" /\ saved'[c] = "absent"} = {}
    BY <1>5 DEF VaultCrash
  <2>2. Store!Forget
    BY <2>1 DEF Store!Forget
  <2> QED
    BY <2>2 DEF Store!StoreNext
<1>6. ASSUME ReadVault PROVE Store!StoreNext
  <2>1. saved' = saved /\ {c \in Credentials : memory'[c] = "live" /\ saved'[c] = "absent"} = {}
    BY <1>6 DEF ReadVault
  <2>2. Store!Forget
    BY <2>1 DEF Store!Forget
  <2> QED
    BY <2>2 DEF Store!StoreNext
<1>7. ASSUME NEW c \in Credentials, NEW new \in Credentials, Rotate(c, new) PROVE UNCHANGED <<memory, saved>>
  BY <1>7 DEF Rotate
<1>8. ASSUME NEW c \in Credentials, RevokeCredential(c) \/ Expire(c) PROVE UNCHANGED <<memory, saved>>
  BY <1>8 DEF RevokeCredential, Expire
<1>9. ASSUME NEW i \in Installations, DisableHolder(i) \/ UninstallHolder(i) \/ EnableHolder(i)
      PROVE  UNCHANGED <<memory, saved>>
  BY <1>9 DEF DisableHolder, UninstallHolder, EnableHolder
<1>10. ASSUME RevokeCredentialsOfUser \/ Write \/ SaveFails \/ UNCHANGED vault PROVE UNCHANGED <<memory, saved>>
  BY <1>10 DEF RevokeCredentialsOfUser, Write, SaveFails, vault
<1>11. ([VaultNext]_vault /\ ~UNCHANGED <<memory, saved>>) =>
         \/ \E c \in Credentials : Create(c)
         \/ Rename \/ Finish \/ VaultCrash \/ ReadVault
  BY <1>7, <1>8, <1>9, <1>10 DEF VaultNext
<1> QED
  BY <1>1, <1>2, <1>3, <1>4, <1>5, <1>6, <1>11

(***************************************************************************)
(* Memory, file and the steps of a save implement the abstract store: the  *)
(* rename is the one step that changes what survives (persist; "keeps      *)
(* memory and disk updates atomic", credential-vault.test.ts:59).          *)
(***************************************************************************)
THEOREM VaultImplementsStore == VaultSpec => ImplementsStore
<1>1. VaultInit => Store!StoreInit
  BY DEF VaultInit, Store!StoreInit
<1>2. VaultInv /\ [VaultNext]_vault
        => [Store!StoreNext]_<<saved, {c \in Credentials : memory[c] = "live" /\ saved[c] = "absent"}>>
  BY VaultRefines DEF Offered
<1> QED
  BY <1>1, <1>2, VaultInitially, VaultInductive, PTL DEF VaultSpec, ImplementsStore, Store!StoreSpec

------------------------------------------------------------------------------
(***************************************************************************)
(* Theorem about RateLimits: however attempts are spread, no stretch of a  *)
(* window's length holds twice what one window admits.  The strengthening  *)
(* splits a history at the start of the current window: since then the row *)
(* has counted every attempt, and the attempts of the window before can    *)
(* only be those that did not lock the subject. What is counted are finite *)
(* sets, by the theorems about cardinality.                                *)
(***************************************************************************)

(* The attempts of a history that its current window saw, those after its  *)
(* first instant, and those of the windows before.                         *)
Since(history, start)  == {a \in history : a.at >= start}
After(history, start)  == {a \in history : a.at > start}
Before(history, start) == {a \in history : a.at < start}

(* The row b of a bucket and its history h at the time now.                *)
BucketOK(b, h, now, limit) ==
  /\ b \in [start : 0 .. now, failures : 0 .. limit.failures, lockedUntil : Nat]
  /\ h \subseteq [at : 1 .. now, nth : Nat] /\ IsFiniteSet(h)
  /\ \A a \in h : now - a.at < limit.window /\ a.at < b.start + limit.window
  /\ b.failures = 0 => h = {}
  /\ b.failures > 0 /\ b.start = now => b.failures = 1
  /\ Cardinality(Since(h, b.start)) <= b.failures
  /\ b.failures > 0 => Cardinality(After(h, b.start)) <= b.failures - 1
  /\ Cardinality(Before(h, b.start)) <= limit.failures - 2
  /\ b.failures = limit.failures =>
       b.lockedUntil >= b.start + limit.lock /\ \A a \in h : b.lockedUntil >= a.at + limit.lock

(* The entry q of the quota and its history h at the time now.             *)
QuotaOK(q, h, now) ==
  /\ q \in [start : 0 .. now, completed : 0 .. TestsPerWindow, active : {0}]
  /\ h \subseteq [at : 1 .. now, nth : 1 .. TestsPerWindow] /\ IsFiniteSet(h)
  /\ \A a \in h : now - a.at < TestWindow /\ a.at < q.start + TestWindow
  /\ q.start = 0 => h = {}
  /\ q.start > 0 => q.completed >= 1
  /\ Cardinality(Since(h, q.start)) <= q.completed
  /\ q.start > 0 => Cardinality(After(h, q.start)) <= q.completed - 1
  /\ Cardinality(Before(h, q.start)) <= TestsPerWindow - 1

LimitsInv ==
  /\ minute \in Nat \ {0}
  /\ bucket = [s \in Subjects |-> bucket[s]] /\ counted = [s \in Subjects |-> counted[s]]
  /\ quota = [u \in Testers |-> quota[u]] /\ tested = [u \in Testers |-> tested[u]]
  /\ \A s \in Subjects : BucketOK(bucket[s], counted[s], minute, Limit[s])
  /\ \A u \in Testers : QuotaOK(quota[u], tested[u], minute)

(* A history has at most what its parts have. *)
LEMMA HistoryBound ==
  ASSUME NEW h, IsFiniteSet(h), h \subseteq [at : Nat, nth : Nat], NEW start \in Nat
  PROVE  /\ IsFiniteSet(Since(h, start)) /\ IsFiniteSet(After(h, start)) /\ IsFiniteSet(Before(h, start))
         /\ Cardinality(Since(h, start)) \in Nat /\ Cardinality(After(h, start)) \in Nat
         /\ Cardinality(Before(h, start)) \in Nat /\ Cardinality(h) \in Nat
         /\ Cardinality(h) <= Cardinality(Since(h, start)) + Cardinality(Before(h, start))
<1>1. Since(h, start) \subseteq h /\ After(h, start) \subseteq h /\ Before(h, start) \subseteq h
  BY DEF Since, After, Before
<1>2. IsFiniteSet(Since(h, start)) /\ IsFiniteSet(After(h, start)) /\ IsFiniteSet(Before(h, start))
  BY <1>1, FS_Subset
<1>3. h = Since(h, start) \cup Before(h, start)
  BY DEF Since, Before
<1>4. Since(h, start) \cap Before(h, start) = {}
  BY DEF Since, Before
<1>5. Cardinality(h) = Cardinality(Since(h, start)) + Cardinality(Before(h, start))
                        - Cardinality(Since(h, start) \cap Before(h, start))
  BY <1>2, <1>3, FS_Union
<1>6. Cardinality({}) = 0
  BY FS_EmptySet
<1>7. /\ Cardinality(Since(h, start)) \in Nat /\ Cardinality(After(h, start)) \in Nat
      /\ Cardinality(Before(h, start)) \in Nat /\ Cardinality(h) \in Nat
  BY <1>2, FS_CardinalityType
<1> QED
  BY <1>2, <1>4, <1>5, <1>6, <1>7

(* What is counted within fewer attempts is counted fewer times. *)
LEMMA FewerAttempts ==
  ASSUME NEW h, IsFiniteSet(h), NEW g, g \subseteq h
  PROVE  IsFiniteSet(g) /\ Cardinality(g) \in Nat /\ Cardinality(h) \in Nat /\ Cardinality(g) <= Cardinality(h)
BY FS_Subset, FS_CardinalityType

LEMMA OneMoreAttempt ==
  ASSUME NEW h, IsFiniteSet(h), NEW a
  PROVE  /\ IsFiniteSet(h \cup {a}) /\ Cardinality(h \cup {a}) \in Nat /\ Cardinality(h) \in Nat
         /\ Cardinality(h \cup {a}) <= Cardinality(h) + 1
BY FS_AddElement, FS_CardinalityType

(* A minute that passes only drops attempts from a history. *)
LEMMA MinutePassesBucket ==
  ASSUME NEW now \in Nat \ {0}, NEW s \in Subjects, NEW b, NEW h, BucketOK(b, h, now, Limit[s])
  PROVE  BucketOK(b, Recent(h, now + 1, Limit[s].window), now + 1, Limit[s])
<1> DEFINE g == Recent(h, now + 1, Limit[s].window)
<1>1. g \subseteq h
  BY DEF Recent
<1>2. b.start \in Nat /\ b.start <= now /\ b.failures \in Nat /\ b.lockedUntil \in Nat
  BY DEF BucketOK
<1>3. IsFiniteSet(h) /\ h \subseteq [at : Nat, nth : Nat]
  BY DEF BucketOK
<1>4. Since(g, b.start) \subseteq Since(h, b.start) /\ After(g, b.start) \subseteq After(h, b.start)
      /\ Before(g, b.start) \subseteq Before(h, b.start)
  BY <1>1 DEF Since, After, Before
<1>5. /\ IsFiniteSet(Since(h, b.start)) /\ IsFiniteSet(After(h, b.start)) /\ IsFiniteSet(Before(h, b.start))
  BY <1>2, <1>3, HistoryBound
<1>6. /\ Cardinality(Since(g, b.start)) \in Nat /\ Cardinality(After(g, b.start)) \in Nat
      /\ Cardinality(Before(g, b.start)) \in Nat
      /\ Cardinality(Since(h, b.start)) \in Nat /\ Cardinality(After(h, b.start)) \in Nat
      /\ Cardinality(Before(h, b.start)) \in Nat
      /\ Cardinality(Since(g, b.start)) <= Cardinality(Since(h, b.start))
      /\ Cardinality(After(g, b.start)) <= Cardinality(After(h, b.start))
      /\ Cardinality(Before(g, b.start)) <= Cardinality(Before(h, b.start))
  BY <1>4, <1>5, FewerAttempts
<1>7. IsFiniteSet(g)
  BY <1>1, <1>3, FS_Subset
<1>8. Limit[s].failures \in Nat
  BY LimitsAssumption
<1>9. /\ b \in [start : 0 .. now + 1, failures : 0 .. Limit[s].failures, lockedUntil : Nat]
      /\ g \subseteq [at : 1 .. now + 1, nth : Nat]
  BY <1>1, <1>8 DEF BucketOK
<1>10. \A a \in g : now + 1 - a.at < Limit[s].window /\ a.at < b.start + Limit[s].window
  BY <1>1, <1>3 DEF Recent, BucketOK
<1>11. /\ b.failures = 0 => g = {}
       /\ b.failures > 0 /\ b.start = now + 1 => b.failures = 1
       /\ b.failures = Limit[s].failures =>
            b.lockedUntil >= b.start + Limit[s].lock /\ \A a \in g : b.lockedUntil >= a.at + Limit[s].lock
  BY <1>1, <1>2 DEF BucketOK
<1>12. /\ Cardinality(Since(g, b.start)) <= b.failures
       /\ b.failures > 0 => Cardinality(After(g, b.start)) <= b.failures - 1
       /\ Cardinality(Before(g, b.start)) <= Limit[s].failures - 2
  BY <1>2, <1>6, <1>8 DEF BucketOK
<1> QED
  BY <1>7, <1>9, <1>10, <1>11, <1>12 DEF BucketOK

LEMMA MinutePassesQuota ==
  ASSUME NEW now \in Nat \ {0}, NEW q, NEW h, QuotaOK(q, h, now)
  PROVE  QuotaOK(q, Recent(h, now + 1, TestWindow), now + 1)
<1> DEFINE g == Recent(h, now + 1, TestWindow)
<1>1. g \subseteq h
  BY DEF Recent
<1>2. q.start \in Nat /\ q.completed \in Nat
  BY LimitsAssumption DEF QuotaOK
<1>3. IsFiniteSet(h) /\ h \subseteq [at : Nat, nth : Nat]
  BY LimitsAssumption DEF QuotaOK
<1>4. Since(g, q.start) \subseteq Since(h, q.start) /\ After(g, q.start) \subseteq After(h, q.start)
      /\ Before(g, q.start) \subseteq Before(h, q.start)
  BY <1>1 DEF Since, After, Before
<1>5. /\ IsFiniteSet(Since(h, q.start)) /\ IsFiniteSet(After(h, q.start)) /\ IsFiniteSet(Before(h, q.start))
  BY <1>2, <1>3, HistoryBound
<1>6. /\ Cardinality(Since(g, q.start)) \in Nat /\ Cardinality(After(g, q.start)) \in Nat
      /\ Cardinality(Before(g, q.start)) \in Nat
      /\ Cardinality(Since(h, q.start)) \in Nat /\ Cardinality(After(h, q.start)) \in Nat
      /\ Cardinality(Before(h, q.start)) \in Nat
      /\ Cardinality(Since(g, q.start)) <= Cardinality(Since(h, q.start))
      /\ Cardinality(After(g, q.start)) <= Cardinality(After(h, q.start))
      /\ Cardinality(Before(g, q.start)) <= Cardinality(Before(h, q.start))
  BY <1>4, <1>5, FewerAttempts
<1>7. IsFiniteSet(g)
  BY <1>1, <1>3, FS_Subset
<1>8. /\ q \in [start : 0 .. now + 1, completed : 0 .. TestsPerWindow, active : {0}]
      /\ g \subseteq [at : 1 .. now + 1, nth : 1 .. TestsPerWindow]
  BY <1>1 DEF QuotaOK
<1>9. \A a \in g : now + 1 - a.at < TestWindow /\ a.at < q.start + TestWindow
  BY <1>1, <1>3 DEF Recent, QuotaOK
<1>10. /\ q.start = 0 => g = {}
       /\ q.start > 0 => q.completed >= 1
  BY <1>1 DEF QuotaOK
<1>11. /\ Cardinality(Since(g, q.start)) <= q.completed
       /\ q.start > 0 => Cardinality(After(g, q.start)) <= q.completed - 1
       /\ Cardinality(Before(g, q.start)) <= TestsPerWindow - 1
  BY <1>2, <1>6, LimitsAssumption DEF QuotaOK
<1> QED
  BY <1>7, <1>8, <1>9, <1>10, <1>11 DEF QuotaOK

(* A failure that is admitted opens a window, in which nothing of the old  *)
(* window but attempts after its first instant and before its last one are *)
(* still recent, or is one more of the current window.                     *)
LEMMA FailureRecorded ==
  ASSUME minute \in Nat \ {0}, NEW s \in Subjects, BucketOK(bucket[s], counted[s], minute, Limit[s]),
         ~RateLimited(s), NEW r, r = Recorded(s), NEW h,
         h = IF r.failures = bucket[s].failures /\ r.start = bucket[s].start
             THEN counted[s] ELSE counted[s] \cup {[at |-> minute, nth |-> r.failures]}
  PROVE  BucketOK(r, h, minute, Limit[s])
<1> DEFINE b == bucket[s]
           c == counted[s]
           L == Limit[s].failures
           W == Limit[s].window
           new == [at |-> minute, nth |-> r.failures]
           over == b.failures = 0 \/ minute - b.start >= W
<1>1. /\ L \in Nat /\ L >= 2 /\ W \in Nat \ {0} /\ Limit[s].lock \in Nat /\ Limit[s].lock >= W
  BY LimitsAssumption
<1>2. /\ b.start \in Nat /\ b.start <= minute /\ b.failures \in 0 .. L /\ b.lockedUntil \in Nat
      /\ b.lockedUntil <= minute
  BY DEF BucketOK, RateLimited
<1>3. IsFiniteSet(c) /\ c \subseteq [at : Nat, nth : Nat] /\ c \subseteq [at : 1 .. minute, nth : Nat]
  BY DEF BucketOK
<1>4. /\ IsFiniteSet(Since(c, b.start)) /\ IsFiniteSet(After(c, b.start)) /\ IsFiniteSet(Before(c, b.start))
      /\ Cardinality(Since(c, b.start)) \in Nat /\ Cardinality(After(c, b.start)) \in Nat
      /\ Cardinality(Before(c, b.start)) \in Nat
  BY <1>2, <1>3, HistoryBound
<1>5. Cardinality({}) = 0 /\ IsFiniteSet({})
  BY FS_EmptySet
<1>6. \A a \in c : a.at \in Nat /\ a.at <= minute /\ minute - a.at < W /\ a.at < b.start + W
  BY <1>3 DEF BucketOK
<1>10. new = [at |-> minute, nth |-> r.failures]
  OBVIOUS
<1> HIDE DEF new
<1>7. CASE over
  <2>1. r = [start |-> minute, failures |-> 1, lockedUntil |-> 0]
    BY <1>1, <1>7 DEF Recorded
  <2>2. b.failures = 0 => c = {}
    BY DEF BucketOK
  <2>3. \A a \in c : a.at < minute /\ a.at > b.start
    BY <1>1, <1>2, <1>6, <1>7, <2>2
  <2>4. ~(r.failures = b.failures /\ r.start = b.start)
    BY <1>1, <1>2, <1>7, <2>1
  <2>5. h = c \cup {new}
    BY <1>10, <2>4
  <2>6. b.failures = L => c = {}
    BY <1>1, <1>2, <1>6 DEF BucketOK
  <2>7. c = After(c, b.start)
    BY <2>3 DEF After
  <2>8. Cardinality(c) \in Nat /\ Cardinality(c) <= L - 2
    BY <1>1, <1>2, <1>4, <1>5, <2>2, <2>6, <2>7 DEF BucketOK
  <2>9. new.at = minute /\ new \in [at : 1 .. minute, nth : Nat]
    BY <1>10, <2>1
  <2>10. Since(h, minute) = {new} /\ After(h, minute) = {} /\ Before(h, minute) = c
    BY <2>3, <2>5, <2>9, <1>6 DEF Since, After, Before
  <2>11. Cardinality(Since(h, minute)) = 1
    BY <2>10, FS_Singleton
  <2>12. IsFiniteSet(h)
    <3>1. IsFiniteSet(c \cup {new})
      BY <1>3, OneMoreAttempt
    <3> QED
      BY <2>5, <3>1
  <2>13. h \subseteq [at : 1 .. minute, nth : Nat]
    BY <1>3, <2>5, <2>9
  <2>14. \A a \in h : minute - a.at < W /\ a.at < minute + W
    BY <1>1, <1>6, <2>5, <2>9
  <2>15. r \in [start : 0 .. minute, failures : 0 .. L, lockedUntil : Nat]
    BY <1>1, <2>1
  <2>16. r.start = minute /\ r.failures = 1 /\ r.failures # L
    BY <1>1, <2>1
  <2>17. /\ Cardinality(Since(h, r.start)) <= r.failures
         /\ Cardinality(After(h, r.start)) <= r.failures - 1
         /\ Cardinality(Before(h, r.start)) <= L - 2
    <3>1. Cardinality(Since(h, r.start)) <= r.failures
      BY <2>11, <2>16
    <3>2. Cardinality(After(h, minute)) = 0
      BY <1>5, <2>10
    <3>3. Cardinality(After(h, r.start)) <= r.failures - 1
      <4>1. r.failures - 1 = 0
        BY <2>16
      <4>2. After(h, r.start) = After(h, minute)
        BY <2>16
      <4> QED
        BY <3>2, <4>1, <4>2
    <3>4. Cardinality(Before(h, r.start)) <= L - 2
      BY <2>8, <2>10, <2>16
    <3> QED
      BY <3>1, <3>3, <3>4
  <2> QED
    BY <2>12, <2>13, <2>14, <2>15, <2>16, <2>17 DEF BucketOK
<1>8. CASE ~over /\ b.start = minute
  <2>1. b.failures = 1
    BY <1>2, <1>8 DEF BucketOK
  <2>2. r = [start |-> minute, failures |-> 1, lockedUntil |-> 0] /\ h = c
    BY <1>1, <1>8, <2>1 DEF Recorded
  <2>3. r \in [start : 0 .. minute, failures : 0 .. L, lockedUntil : Nat]
    BY <1>1, <2>2
  <2>4. r.start = b.start /\ r.failures = b.failures /\ r.failures # L
    BY <1>1, <1>8, <2>1, <2>2
  <2> QED
    BY <2>2, <2>3, <2>4 DEF BucketOK
<1>9. CASE ~over /\ b.start # minute
  <2>1. b.failures # L
    BY <1>1, <1>2, <1>9 DEF BucketOK
  <2>2. /\ r.start = b.start /\ r.failures = b.failures + 1
        /\ r.lockedUntil = IF b.failures + 1 = L THEN minute + Limit[s].lock ELSE 0
        /\ r = [start |-> r.start, failures |-> r.failures, lockedUntil |-> r.lockedUntil]
    BY <1>1, <1>2, <1>9, <2>1 DEF Recorded
  <2>3. h = c \cup {new}
    BY <1>2, <1>10, <2>2
  <2>4. new.at = minute /\ new \in [at : 1 .. minute, nth : Nat]
    BY <1>2, <1>10, <2>2
  <2>5. Since(h, b.start) = Since(c, b.start) \cup {new} /\ After(h, b.start) = After(c, b.start) \cup {new}
        /\ Before(h, b.start) = Before(c, b.start)
    BY <1>2, <1>9, <2>3, <2>4 DEF Since, After, Before
  <2>6. /\ Cardinality(Since(h, b.start)) \in Nat /\ Cardinality(After(h, b.start)) \in Nat
        /\ Cardinality(Since(h, b.start)) <= Cardinality(Since(c, b.start)) + 1
        /\ Cardinality(After(h, b.start)) <= Cardinality(After(c, b.start)) + 1
    BY <1>4, <2>5, OneMoreAttempt
  <2>7. IsFiniteSet(h)
    <3>1. IsFiniteSet(c \cup {new})
      BY <1>3, OneMoreAttempt
    <3> QED
      BY <2>3, <3>1
  <2>8. h \subseteq [at : 1 .. minute, nth : Nat]
    BY <1>3, <2>3, <2>4
  <2>9. \A a \in h : minute - a.at < W /\ a.at < b.start + W
    BY <1>1, <1>2, <1>6, <1>9, <2>3, <2>4
  <2>10. r \in [start : 0 .. minute, failures : 0 .. L, lockedUntil : Nat]
    <3>1. r.start \in 0 .. minute /\ r.failures \in 0 .. L /\ r.lockedUntil \in Nat
      BY <1>1, <1>2, <2>1, <2>2
    <3> QED
      BY <3>1, <2>2
  <2>11. /\ Cardinality(Since(h, r.start)) <= r.failures
         /\ Cardinality(After(h, r.start)) <= r.failures - 1
         /\ Cardinality(Before(h, r.start)) <= L - 2
    <3>1. /\ Cardinality(Since(c, b.start)) <= b.failures
          /\ Cardinality(After(c, b.start)) <= b.failures - 1
          /\ Cardinality(Before(c, b.start)) <= L - 2
      BY <1>2, <1>9 DEF BucketOK
    <3>2. Cardinality(Since(h, b.start)) <= b.failures + 1
      BY <1>2, <1>4, <2>6, <3>1
    <3>3. Cardinality(After(h, b.start)) <= b.failures
      BY <1>2, <1>4, <2>6, <3>1
    <3> QED
      BY <1>2, <2>2, <2>5, <3>1, <3>2, <3>3
  <2>12. r.failures = L => r.lockedUntil >= r.start + Limit[s].lock /\ \A a \in h : r.lockedUntil >= a.at + Limit[s].lock
    BY <1>1, <1>2, <1>6, <2>2, <2>3, <2>4
  <2>13. r.failures > 1 /\ r.start # minute
    BY <1>2, <1>9, <2>2
  <2>14. r.start = b.start /\ r.failures # 0
    BY <1>2, <2>2
  <2> QED
    BY <2>7, <2>8, <2>9, <2>10, <2>11, <2>12, <2>13, <2>14 DEF BucketOK
<1> QED
  BY <1>7, <1>8, <1>9

(* A row that was deleted has counted nothing. *)
LEMMA EmptyBucket ==
  ASSUME NEW now \in Nat \ {0}, NEW s \in Subjects
  PROVE  BucketOK(NoBucket, {}, now, Limit[s])
<1>1. Since({}, 0) = {} /\ Before({}, 0) = {} /\ Cardinality({}) = 0 /\ IsFiniteSet({})
  BY FS_EmptySet DEF Since, Before
<1>2. Limit[s].failures \in Nat /\ Limit[s].failures >= 2
  BY LimitsAssumption
<1>3. /\ NoBucket \in [start : 0 .. now, failures : 0 .. Limit[s].failures, lockedUntil : Nat]
      /\ NoBucket.start = 0 /\ NoBucket.failures = 0
  BY <1>2 DEF NoBucket
<1> QED
  BY <1>1, <1>2, <1>3 DEF BucketOK

LEMMA EmptyQuota ==
  ASSUME NEW now \in Nat \ {0}
  PROVE  QuotaOK(NoQuota, {}, now)
<1>1. Since({}, 0) = {} /\ Before({}, 0) = {} /\ Cardinality({}) = 0 /\ IsFiniteSet({})
  BY FS_EmptySet DEF Since, Before
<1> QED
  BY <1>1, LimitsAssumption DEF QuotaOK, NoQuota

(* A speed test opens a window or is one more of the current one. *)
LEMMA TestCounted ==
  ASSUME minute \in Nat \ {0}, NEW u \in Testers, QuotaOK(quota[u], tested[u], minute), TryAcquire(u)
  PROVE  QuotaOK([CurrentQuota(u) EXCEPT !.completed = @ + 1],
                 tested[u] \cup {[at |-> minute, nth |-> CurrentQuota(u).completed + 1]}, minute)
<1> DEFINE q == quota[u]
           c == tested[u]
           now == CurrentQuota(u)
           new == [at |-> minute, nth |-> now.completed + 1]
           h == c \cup {new}
           over == q.start = 0 \/ minute - q.start >= TestWindow
<1>0. TestsPerWindow \in Nat \ {0} /\ TestWindow \in Nat \ {0}
  BY LimitsAssumption
<1>1. /\ q.start \in Nat /\ q.start <= minute /\ q.completed \in 0 .. TestsPerWindow /\ q.active = 0
      /\ q = [start |-> q.start, completed |-> q.completed, active |-> q.active]
  BY DEF QuotaOK
<1>2. IsFiniteSet(c) /\ c \subseteq [at : Nat, nth : Nat] /\ c \subseteq [at : 1 .. minute, nth : 1 .. TestsPerWindow]
  BY <1>0 DEF QuotaOK
<1>3. /\ IsFiniteSet(Since(c, q.start)) /\ IsFiniteSet(After(c, q.start)) /\ IsFiniteSet(Before(c, q.start))
      /\ Cardinality(Since(c, q.start)) \in Nat /\ Cardinality(After(c, q.start)) \in Nat
      /\ Cardinality(Before(c, q.start)) \in Nat
  BY <1>1, <1>2, HistoryBound
<1>4. Cardinality({}) = 0 /\ IsFiniteSet({})
  BY FS_EmptySet
<1>5. \A a \in c : a.at \in Nat /\ a.at <= minute /\ minute - a.at < TestWindow /\ a.at < q.start + TestWindow
  BY <1>2 DEF QuotaOK
<1>6. now.completed < TestsPerWindow /\ now.completed \in Nat
      /\ now = [start |-> now.start, completed |-> now.completed, active |-> 0]
  BY <1>1 DEF TryAcquire, CurrentQuota
<1>7. [now EXCEPT !.completed = @ + 1] = [start |-> now.start, completed |-> now.completed + 1, active |-> 0]
  BY <1>6
<1>8. new.at = minute /\ new \in [at : 1 .. minute, nth : 1 .. TestsPerWindow]
  BY <1>0, <1>6
<1>9. IsFiniteSet(h) /\ h \subseteq [at : 1 .. minute, nth : 1 .. TestsPerWindow]
  BY <1>2, <1>8, OneMoreAttempt
<1>10. CASE over
  <2>1. now.start = minute /\ now.completed = 0
    BY <1>10 DEF CurrentQuota
  <2>2. q.start = 0 => c = {}
    BY DEF QuotaOK
  <2>3. \A a \in c : a.at < minute /\ a.at > q.start
    BY <1>0, <1>1, <1>5, <1>10, <2>2
  <2>4. c = After(c, q.start)
    BY <2>3 DEF After
  <2>5. Cardinality(c) \in Nat /\ Cardinality(c) <= TestsPerWindow - 1
    BY <1>0, <1>1, <1>3, <1>4, <2>2, <2>4 DEF QuotaOK
  <2>6. Since(h, minute) = {new} /\ After(h, minute) = {} /\ Before(h, minute) = c
    BY <1>5, <1>8, <2>3 DEF Since, After, Before
  <2>7. Cardinality(Since(h, minute)) = 1
    BY <2>6, FS_Singleton
  <2>8. \A a \in h : minute - a.at < TestWindow /\ a.at < minute + TestWindow
    BY <1>0, <1>5, <1>8
  <2>9. [start |-> minute, completed |-> 0 + 1, active |-> 0] \in [start : 0 .. minute, completed : 0 .. TestsPerWindow, active : {0}]
    BY <1>0
  <2> HIDE DEF h
  <2>10. PICK r : r = [start |-> minute, completed |-> 0 + 1, active |-> 0]
    OBVIOUS
  <2>11. r.start = minute /\ r.completed = 1
    BY <2>10
  <2>12. /\ Cardinality(Since(h, r.start)) <= r.completed
         /\ Cardinality(After(h, r.start)) <= r.completed - 1
         /\ Cardinality(Before(h, r.start)) <= TestsPerWindow - 1
    BY <1>4, <2>5, <2>6, <2>7, <2>11
  <2>13. QuotaOK(r, h, minute)
    BY <1>9, <2>8, <2>9, <2>10, <2>11, <2>12 DEF QuotaOK
  <2> QED
    BY <1>7, <2>1, <2>10, <2>13 DEF h
<1>11. CASE ~over
  <2>1. now = q /\ q.start > 0
    BY <1>1, <1>11 DEF CurrentQuota
  <2>2. Since(h, q.start) = Since(c, q.start) \cup {new} /\ Before(h, q.start) = Before(c, q.start)
        /\ After(h, q.start) \subseteq After(c, q.start) \cup {new}
    BY <1>1, <1>8 DEF Since, After, Before
  <2>3. /\ Cardinality(Since(h, q.start)) \in Nat
        /\ Cardinality(Since(h, q.start)) <= Cardinality(Since(c, q.start)) + 1
        /\ IsFiniteSet(After(c, q.start) \cup {new}) /\ Cardinality(After(c, q.start) \cup {new}) \in Nat
        /\ Cardinality(After(c, q.start) \cup {new}) <= Cardinality(After(c, q.start)) + 1
    BY <1>3, <2>2, OneMoreAttempt
  <2>4. /\ Cardinality(After(h, q.start)) \in Nat
        /\ Cardinality(After(h, q.start)) <= Cardinality(After(c, q.start) \cup {new})
    BY <2>2, <2>3, FewerAttempts
  <2>5. \A a \in h : minute - a.at < TestWindow /\ a.at < q.start + TestWindow
    BY <1>0, <1>1, <1>5, <1>8, <1>11
  <2>10. /\ Cardinality(Since(c, q.start)) <= q.completed
         /\ Cardinality(After(c, q.start)) <= q.completed - 1
         /\ Cardinality(Before(c, q.start)) <= TestsPerWindow - 1
    BY <2>1 DEF QuotaOK
  <2>6. /\ Cardinality(Since(h, q.start)) <= q.completed + 1
        /\ Cardinality(After(h, q.start)) <= q.completed + 1 - 1
        /\ Cardinality(Before(h, q.start)) <= TestsPerWindow - 1
    <3> HIDE DEF h
    <3> QED
      BY <1>1, <1>3, <2>10, <2>2, <2>3, <2>4
  <2>7. [start |-> q.start, completed |-> q.completed + 1, active |-> 0] \in [start : 0 .. minute, completed : 0 .. TestsPerWindow, active : {0}]
    BY <1>0, <1>1, <1>6, <2>1
  <2>8. q.completed + 1 >= 1 /\ q.start # 0
    BY <1>1, <2>1
  <2> HIDE DEF h
  <2>9. QuotaOK([start |-> q.start, completed |-> q.completed + 1, active |-> 0], h, minute)
    BY <1>9, <2>5, <2>6, <2>7, <2>8 DEF QuotaOK
  <2> QED
    BY <1>7, <2>1, <2>9 DEF h
<1> QED
  BY <1>10, <1>11

LEMMA LimitsInitEstablishes == LimitsInit => LimitsInv
<1> SUFFICES ASSUME LimitsInit PROVE LimitsInv
  OBVIOUS
<1>1. minute \in Nat \ {0} /\ \A s \in Subjects : bucket[s] = NoBucket /\ counted[s] = {}
  BY DEF LimitsInit
<1>2. \A u \in Testers : quota[u] = NoQuota /\ tested[u] = {}
  BY DEF LimitsInit
<1>3. \A s \in Subjects : BucketOK(bucket[s], counted[s], minute, Limit[s])
  BY <1>1, EmptyBucket
<1>4. \A u \in Testers : QuotaOK(quota[u], tested[u], minute)
  BY <1>1, <1>2, EmptyQuota
<1>5. /\ bucket = [s \in Subjects |-> bucket[s]] /\ counted = [s \in Subjects |-> counted[s]]
      /\ quota = [u \in Testers |-> quota[u]] /\ tested = [u \in Testers |-> tested[u]]
  BY DEF LimitsInit
<1> QED
  BY <1>1, <1>3, <1>4, <1>5 DEF LimitsInv

LEMMA AttemptKeeps ==
  ASSUME LimitsInv, NEW s \in Subjects, ~RateLimited(s), RecordFailure(s) \/ ClearFailures(s),
         UNCHANGED <<minute, quota, tested>>
  PROVE  LimitsInv'
<1>1. BucketOK(bucket[s], counted[s], minute, Limit[s]) /\ minute \in Nat \ {0}
  BY DEF LimitsInv
<1>2. PICK r, h : /\ bucket' = [bucket EXCEPT ![s] = r] /\ counted' = [counted EXCEPT ![s] = h]
                  /\ BucketOK(r, h, minute, Limit[s])
  <2>1. CASE ClearFailures(s)
    BY <1>1, <2>1, EmptyBucket DEF ClearFailures
  <2>2. CASE RecordFailure(s)
    <3> DEFINE r == Recorded(s)
               h == IF r.failures = bucket[s].failures /\ r.start = bucket[s].start
                    THEN counted[s] ELSE counted[s] \cup {[at |-> minute, nth |-> r.failures]}
    <3>1. BucketOK(r, h, minute, Limit[s])
      BY <1>1, FailureRecorded
    <3>2. bucket' = [bucket EXCEPT ![s] = r]
      BY <2>2 DEF RecordFailure
    <3>3. counted = [counted EXCEPT ![s] = counted[s]]
      BY DEF LimitsInv
    <3>4. counted' = [counted EXCEPT ![s] = h]
      BY <2>2, <3>3 DEF RecordFailure
    <3> HIDE DEF r, h
    <3> QED
      BY <3>1, <3>2, <3>4
  <2> QED
    BY <2>1, <2>2
<1>3. \A v \in Subjects : BucketOK(bucket'[v], counted'[v], minute, Limit[v])
  BY <1>2 DEF LimitsInv
<1>4. bucket' = [v \in Subjects |-> bucket'[v]] /\ counted' = [v \in Subjects |-> counted'[v]]
  BY <1>2 DEF LimitsInv
<1> QED
  BY <1>3, <1>4 DEF LimitsInv

LEMMA SpeedTestKeeps ==
  ASSUME LimitsInv, NEW u \in Testers, SpeedTest(u)
  PROVE  LimitsInv'
<1>1. QuotaOK(quota[u], tested[u], minute) /\ minute \in Nat \ {0} /\ TryAcquire(u)
  BY DEF LimitsInv, SpeedTest
<1>2. PICK q, h : /\ quota' = [quota EXCEPT ![u] = q] /\ tested' = [tested EXCEPT ![u] = h]
                  /\ QuotaOK(q, h, minute)
  <2> DEFINE q == [CurrentQuota(u) EXCEPT !.completed = @ + 1]
             h == tested[u] \cup {[at |-> minute, nth |-> CurrentQuota(u).completed + 1]}
  <2>1. QuotaOK(q, h, minute)
    BY <1>1, TestCounted
  <2>2. quota' = [quota EXCEPT ![u] = q] /\ tested' = [tested EXCEPT ![u] = h]
    BY DEF SpeedTest
  <2> HIDE DEF q, h
  <2> QED
    BY <2>1, <2>2
<1>3. \A v \in Testers : QuotaOK(quota'[v], tested'[v], minute)
  BY <1>2 DEF LimitsInv
<1>4. quota' = [v \in Testers |-> quota'[v]] /\ tested' = [v \in Testers |-> tested'[v]]
  BY <1>2 DEF LimitsInv
<1>5. UNCHANGED <<minute, bucket, counted>>
  BY DEF SpeedTest
<1> QED
  BY <1>3, <1>4, <1>5 DEF LimitsInv

LEMMA MinuteKeeps ==
  ASSUME LimitsInv, Minute
  PROVE  LimitsInv'
<1>1. minute \in Nat \ {0} /\ minute' = minute + 1 /\ UNCHANGED <<bucket, quota>>
  BY DEF LimitsInv, Minute
<1>2. \A s \in Subjects : BucketOK(bucket[s], Recent(counted[s], minute + 1, Limit[s].window), minute + 1, Limit[s])
  BY <1>1, MinutePassesBucket DEF LimitsInv
<1>3. \A s \in Subjects : counted'[s] = Recent(counted[s], minute + 1, Limit[s].window)
  BY DEF Minute
<1>4. \A u \in Testers : QuotaOK(quota[u], Recent(tested[u], minute + 1, TestWindow), minute + 1)
  BY <1>1, MinutePassesQuota DEF LimitsInv
<1>5. \A u \in Testers : tested'[u] = Recent(tested[u], minute + 1, TestWindow)
  BY DEF Minute
<1>6. counted' = [s \in Subjects |-> counted'[s]] /\ tested' = [u \in Testers |-> tested'[u]]
  BY DEF Minute
<1>7. minute' \in Nat \ {0}
  BY <1>1
<1>8. \A s \in Subjects : BucketOK(bucket'[s], counted'[s], minute', Limit[s])
  BY <1>1, <1>2, <1>3
<1>9. \A u \in Testers : QuotaOK(quota'[u], tested'[u], minute')
  BY <1>1, <1>4, <1>5
<1> QED
  BY <1>1, <1>6, <1>7, <1>8, <1>9 DEF LimitsInv

LEMMA LimitsStepKeeps == LimitsInv /\ [LimitsNext]_limits => LimitsInv'
<1> SUFFICES ASSUME LimitsInv, [LimitsNext]_limits PROVE LimitsInv'
  OBVIOUS
<1>1. ASSUME NEW s \in Subjects \ Visitors, SignIn(s) PROVE LimitsInv'
  BY <1>1, AttemptKeeps DEF SignIn
<1>2. ASSUME NEW s \in Visitors, OpenEntry(s) PROVE LimitsInv'
  <2>1. s \in Subjects
    BY LimitsAssumption
  <2> QED
    BY <1>2, <2>1, AttemptKeeps DEF OpenEntry
<1>3. ASSUME NEW u \in Testers, SpeedTest(u) PROVE LimitsInv'
  BY <1>3, SpeedTestKeeps
<1>4. CASE Minute
  BY <1>4, MinuteKeeps
<1>5. CASE UNCHANGED limits
  BY <1>5 DEF limits, LimitsInv
<1> QED
  BY <1>1, <1>2, <1>3, <1>4, <1>5 DEF LimitsNext

(* What the windows allow one by one bounds any stretch of time. *)
LEMMA LimitsInvHolds == LimitsInv => AttemptsBounded
<1> SUFFICES ASSUME LimitsInv PROVE AttemptsBounded
  OBVIOUS
<1>1. ASSUME NEW s \in Subjects
      PROVE  Cardinality(counted[s]) <= 2 * Limit[s].failures - 2
  <2>1. BucketOK(bucket[s], counted[s], minute, Limit[s])
    BY DEF LimitsInv
  <2>2. /\ IsFiniteSet(counted[s]) /\ counted[s] \subseteq [at : Nat, nth : Nat] /\ bucket[s].start \in Nat
        /\ bucket[s].failures \in Nat /\ bucket[s].failures <= Limit[s].failures
        /\ Cardinality(Since(counted[s], bucket[s].start)) <= bucket[s].failures
        /\ Cardinality(Before(counted[s], bucket[s].start)) <= Limit[s].failures - 2
    BY <2>1, LimitsAssumption DEF BucketOK
  <2>3. /\ Cardinality(Since(counted[s], bucket[s].start)) \in Nat
        /\ Cardinality(Before(counted[s], bucket[s].start)) \in Nat /\ Cardinality(counted[s]) \in Nat
        /\ Cardinality(counted[s]) <= Cardinality(Since(counted[s], bucket[s].start))
                                      + Cardinality(Before(counted[s], bucket[s].start))
    BY <2>2, HistoryBound
  <2>4. Limit[s].failures \in Nat
    BY LimitsAssumption
  <2> QED
    BY <2>2, <2>3, <2>4
<1>2. ASSUME NEW u \in Testers
      PROVE  Cardinality(tested[u]) <= 2 * TestsPerWindow - 1
  <2>1. QuotaOK(quota[u], tested[u], minute)
    BY DEF LimitsInv
  <2>2. /\ IsFiniteSet(tested[u]) /\ tested[u] \subseteq [at : Nat, nth : Nat] /\ quota[u].start \in Nat
        /\ quota[u].completed \in Nat /\ quota[u].completed <= TestsPerWindow
        /\ Cardinality(Since(tested[u], quota[u].start)) <= quota[u].completed
        /\ Cardinality(Before(tested[u], quota[u].start)) <= TestsPerWindow - 1
    BY <2>1, LimitsAssumption DEF QuotaOK
  <2>3. /\ Cardinality(Since(tested[u], quota[u].start)) \in Nat
        /\ Cardinality(Before(tested[u], quota[u].start)) \in Nat /\ Cardinality(tested[u]) \in Nat
        /\ Cardinality(tested[u]) <= Cardinality(Since(tested[u], quota[u].start))
                                     + Cardinality(Before(tested[u], quota[u].start))
    BY <2>2, HistoryBound
  <2>4. TestsPerWindow \in Nat
    BY LimitsAssumption
  <2> QED
    BY <2>2, <2>3, <2>4
<1>3. LimitsTypeOK
  <2>1. \A s \in Subjects : /\ bucket[s] \in [start : 0 .. minute, failures : Nat, lockedUntil : Nat]
                            /\ counted[s] \subseteq [at : 1 .. minute, nth : Nat]
    BY LimitsAssumption DEF LimitsInv, BucketOK
  <2>2. \A u \in Testers : /\ quota[u] \in [start : 0 .. minute, completed : 0 .. TestsPerWindow, active : {0}]
                           /\ tested[u] \subseteq [at : 1 .. minute, nth : 1 .. TestsPerWindow]
    BY DEF LimitsInv, QuotaOK
  <2>3. /\ bucket \in [Subjects -> [start : 0 .. minute, failures : Nat, lockedUntil : Nat]]
        /\ counted \in [Subjects -> SUBSET [at : 1 .. minute, nth : Nat]]
    BY <2>1 DEF LimitsInv
  <2>4. /\ quota \in [Testers -> [start : 0 .. minute, completed : 0 .. TestsPerWindow, active : {0}]]
        /\ tested \in [Testers -> SUBSET [at : 1 .. minute, nth : 1 .. TestsPerWindow]]
    BY <2>2 DEF LimitsInv
  <2> QED
    BY <2>3, <2>4 DEF LimitsTypeOK, LimitsInv
<1> QED
  BY <1>1, <1>2, <1>3 DEF AttemptsBounded

(* However failed attempts and speed tests are spread over windows and     *)
(* locks, a stretch of time as long as a window holds fewer than twice     *)
(* what a window admits (recordFailedAttempt, isRateLimited, tryAcquire).  *)
THEOREM AttemptsStayBounded == LimitsSpec => []AttemptsBounded
<1>1. LimitsSpec => []LimitsInv
  BY LimitsInitEstablishes, LimitsStepKeeps, PTL DEF LimitsSpec
<1> QED
  BY <1>1, LimitsInvHolds, PTL

------------------------------------------------------------------------------
(***************************************************************************)
(* Theorem about ServiceBindings: the grants told to an administrator and  *)
(* the binding a request is answered with agree.  The strengthening: no    *)
(* two bindings are of the same name and owner, and owners are still       *)
(* installed.                                                              *)
(***************************************************************************)

(* Rows are unique, and their owners are still there. *)
RowsUnique(rows) ==
  \A b, c \in BindingIds : rows[b] # NoBinding /\ rows[b] = rows[c] => b = c

OwnersThere(rows, plugins) ==
  \A b \in BindingIds : rows[b].owner # None => plugins[rows[b].owner].status \in {"installed", "disabled"}

BindingsInv == BindingsTypeOK /\ RowsUnique(binding) /\ OwnersThere(binding, plugin)

LEMMA BindingsInitEstablishes == BindingsInit => BindingsInv
BY DEF BindingsInit, BindingsInv, BindingsTypeOK, RowsUnique, OwnersThere, NoBinding, NoPlugin

LEMMA BindKeeps ==
  ASSUME BindingsInv, NEW b \in BindingIds, NEW name \in BindingNames, NEW owner \in Plugins \cup {None},
         Bind(b, name, owner)
  PROVE  BindingsInv'
<1>1. PICK r : r = [name |-> name, owner |-> owner] /\ binding' = [binding EXCEPT ![b] = r]
  BY DEF Bind
<1>2. \A q \in BindingIds : binding[q] # r
  BY <1>1 DEF Bind
<1>3. r.owner = owner /\ (owner # None => plugin[owner].status = "installed")
  BY <1>1 DEF Bind, Installed
<1>4. r \in [name : BindingNames \cup {None}, owner : Plugins \cup {None}]
  BY <1>1
<1>5. BindingsTypeOK'
  BY <1>1, <1>4 DEF BindingsInv, BindingsTypeOK, Bind
<1>6. \A q \in BindingIds : binding'[q] = IF q = b THEN r ELSE binding[q]
  BY <1>1 DEF BindingsInv, BindingsTypeOK
<1>7. RowsUnique(binding')
  BY <1>2, <1>6 DEF BindingsInv, RowsUnique
<1>8. OwnersThere(binding', plugin')
  BY <1>3, <1>6 DEF BindingsInv, OwnersThere, Bind
<1> QED
  BY <1>5, <1>7, <1>8 DEF BindingsInv, RowsUnique, OwnersThere

LEMMA UnbindKeeps ==
  ASSUME BindingsInv, NEW b \in BindingIds, Unbind(b)
  PROVE  BindingsInv'
<1>1. \A q \in BindingIds : binding'[q] = IF q = b THEN NoBinding ELSE binding[q]
  BY DEF BindingsInv, BindingsTypeOK, Unbind
<1>2. BindingsTypeOK'
  BY DEF BindingsInv, BindingsTypeOK, Unbind, NoBinding
<1>3. RowsUnique(binding')
  BY <1>1 DEF BindingsInv, RowsUnique
<1>4. OwnersThere(binding', plugin')
  BY <1>1 DEF BindingsInv, OwnersThere, Unbind, NoBinding
<1> QED
  BY <1>2, <1>3, <1>4 DEF BindingsInv, RowsUnique, OwnersThere

(* The steps that leave the rows and only take a plugin on, or to another  *)
(* manifest, or disable or enable it.                                      *)
LEMMA PluginStepKeeps ==
  ASSUME BindingsInv, UNCHANGED binding, NEW i \in Plugins, NEW p, plugin' = [plugin EXCEPT ![i] = p],
         p \in [status : {"installed", "disabled"}, manifest : Manifests \cup {None}]
  PROVE  BindingsInv'
<1>1. BindingsTypeOK'
  BY DEF BindingsInv, BindingsTypeOK
<1>2. OwnersThere(binding', plugin')
  BY DEF BindingsInv, BindingsTypeOK, OwnersThere
<1> QED
  BY <1>1, <1>2 DEF BindingsInv, RowsUnique, OwnersThere

LEMMA UninstallKeeps ==
  ASSUME BindingsInv, NEW i \in Plugins, UninstallPlugin(i)
  PROVE  BindingsInv'
<1>1. \A q \in BindingIds : binding'[q] = IF binding[q].owner = i THEN NoBinding ELSE binding[q]
  BY DEF UninstallPlugin
<1>2. BindingsTypeOK'
  BY DEF BindingsInv, BindingsTypeOK, UninstallPlugin, NoBinding
<1>3. RowsUnique(binding')
  BY <1>1 DEF BindingsInv, RowsUnique
<1>4. \A j \in Plugins : j # i => plugin'[j] = plugin[j]
  BY DEF BindingsInv, BindingsTypeOK, UninstallPlugin
<1>5. OwnersThere(binding', plugin')
  BY <1>1, <1>4 DEF BindingsInv, BindingsTypeOK, OwnersThere, NoBinding
<1> QED
  BY <1>2, <1>3, <1>5 DEF BindingsInv, RowsUnique, OwnersThere

LEMMA BindingsStepKeeps == BindingsInv /\ [BindingsNext]_bindings => BindingsInv'
<1> SUFFICES ASSUME BindingsInv, [BindingsNext]_bindings PROVE BindingsInv'
  OBVIOUS
<1>0. ASSUME NEW i \in Plugins
      PROVE  plugin[i] \in [status : {"none", "installed", "disabled", "uninstalled"}, manifest : Manifests \cup {None}]
  BY DEF BindingsInv, BindingsTypeOK
<1>1. ASSUME NEW b \in BindingIds, NEW name \in BindingNames, NEW owner \in Plugins \cup {None}, Bind(b, name, owner)
      PROVE  BindingsInv'
  BY <1>1, BindKeeps
<1>2. ASSUME NEW b \in BindingIds, Unbind(b) PROVE BindingsInv'
  BY <1>2, UnbindKeeps
<1>3. ASSUME NEW i \in Plugins, NEW m \in Manifests, InstallPlugin(i, m) PROVE BindingsInv'
  BY <1>3, PluginStepKeeps DEF InstallPlugin
<1>4. ASSUME NEW i \in Plugins, NEW m \in Manifests, ChangeManifest(i, m) PROVE BindingsInv'
  <2>1. PICK p : p = [plugin[i] EXCEPT !.manifest = m] /\ plugin' = [plugin EXCEPT ![i] = p]
    BY <1>4 DEF ChangeManifest
  <2>2. p \in [status : {"installed", "disabled"}, manifest : Manifests \cup {None}]
    BY <1>0, <1>4, <2>1 DEF ChangeManifest, Installed
  <2> QED
    BY <1>4, <2>1, <2>2, PluginStepKeeps DEF ChangeManifest
<1>5. ASSUME NEW i \in Plugins, DisablePlugin(i) PROVE BindingsInv'
  <2>1. PICK p : p = [plugin[i] EXCEPT !.status = "disabled"] /\ plugin' = [plugin EXCEPT ![i] = p]
    BY <1>5 DEF DisablePlugin
  <2>2. p \in [status : {"installed", "disabled"}, manifest : Manifests \cup {None}]
    BY <1>0, <2>1
  <2> QED
    BY <1>5, <2>1, <2>2, PluginStepKeeps DEF DisablePlugin
<1>6. ASSUME NEW i \in Plugins, EnablePlugin(i) PROVE BindingsInv'
  <2>1. PICK p : p = [plugin[i] EXCEPT !.status = "installed"] /\ plugin' = [plugin EXCEPT ![i] = p]
    BY <1>6 DEF EnablePlugin
  <2>2. p \in [status : {"installed", "disabled"}, manifest : Manifests \cup {None}]
    BY <1>0, <2>1
  <2> QED
    BY <1>6, <2>1, <2>2, PluginStepKeeps DEF EnablePlugin
<1>7. ASSUME NEW i \in Plugins, UninstallPlugin(i) PROVE BindingsInv'
  BY <1>7, UninstallKeeps
<1>8. CASE UNCHANGED bindings
  BY <1>8 DEF bindings, BindingsInv, BindingsTypeOK, RowsUnique, OwnersThere
<1> QED
  BY <1>1, <1>2, <1>3, <1>4, <1>5, <1>6, <1>7, <1>8 DEF BindingsNext

(* Of rows that are unique, those of one name and one owner are at most one. *)
LEMMA AtMostOneOwned ==
  ASSUME RowsUnique(binding), NEW name \in BindingNames, NEW owner, None \notin BindingNames
  PROVE  Cardinality(Owned(name, owner)) <= 1
<1>1. \A b, c \in Owned(name, owner) : b = c
  BY DEF Owned, RowsUnique, NoBinding
<1>2. CASE Owned(name, owner) = {}
  BY <1>2, FS_EmptySet
<1>3. CASE Owned(name, owner) # {}
  <2>1. PICK b : b \in Owned(name, owner)
    BY <1>3
  <2>2. Owned(name, owner) = {b}
    BY <1>1, <2>1
  <2> QED
    BY <2>2, FS_Singleton
<1> QED
  BY <1>2, <1>3

LEMMA BindingsInvHolds == BindingsInv => GrantsTellTheTruth
<1> SUFFICES ASSUME BindingsInv PROVE GrantsTellTheTruth
  OBVIOUS
<1>1. ASSUME NEW i \in Plugins, NEW name \in BindingNames
      PROVE  Cardinality(ServiceBindingByName(name, i)) <= 1
  <2>1. ServiceBindingByName(name, i) = Owned(name, i) \/ ServiceBindingByName(name, i) = Owned(name, None)
    BY DEF ServiceBindingByName
  <2> QED
    BY <2>1, AtMostOneOwned, BindingsAssumption DEF BindingsInv
<1>2. ASSUME NEW i \in Plugins, NEW name \in BindingNames, NEW b \in Owned(name, None)
      PROVE  b \in ServiceBindingByName(name, i) <=> (i \in Authorized(b) /\ Owned(name, i) = {})
  <2>1. b \in BindingIds /\ binding[b].name = name /\ binding[b].owner = None
    BY DEF Owned
  <2>2. i # None
    BY BindingsAssumption
  <2>3. b \notin Owned(name, i)
    BY <2>1, <2>2 DEF Owned
  <2> QED
    BY <2>1, <2>3 DEF ServiceBindingByName, Authorized
<1> QED
  BY <1>1, <1>2 DEF GrantsTellTheTruth, BindingsInv, OwnersThere

(* Whatever is bound, unbound, installed, upgraded or removed, what        *)
(* serviceBindingGrants() tells is what serviceBindingByName() answers.    *)
THEOREM GrantsStayTrue == BindingsSpec => []GrantsTellTheTruth
<1>1. BindingsSpec => []BindingsInv
  BY BindingsInitEstablishes, BindingsStepKeeps, PTL DEF BindingsSpec
<1> QED
  BY <1>1, BindingsInvHolds, PTL

==============================================================================

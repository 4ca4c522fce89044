--------------------------- MODULE CredentialVault ---------------------------
(***************************************************************************)
(* The credential vault (src/src/credential-vault.ts), in memory and in    *)
(* its file, and the routes of src/src/app.ts that use it.  Nothing is     *)
(* awaited while a change is saved: what can come between its steps is a   *)
(* write that fails, or the end of Core.                                   *)
(***************************************************************************)
EXTENDS FiniteSets

CONSTANTS
  Credentials, Installations,
  Of             \* Of[c]: the installation of credential c; all of one user

ASSUME VaultAssumption == Of \in [Credentials -> Installations]

VARIABLES
  memory,        \* records: memory[c] is absent, live or revoked
  saved,          \* credentials.json
  overdue,       \* records past their expiry
  saving,        \* the change under way: [at, next, told, of]
  holder,        \* holder[i]: the status of the row of an installation that
                 \* may hold secrets
  told,          \* history: credentials whose revocation was answered
  missed         \* history: installations whose revocation could not be saved

vault == <<memory, saved, overdue, saving, holder, told, missed>>

Settled == [at |-> "no", next |-> memory, gone |-> {}, of |-> {}]

VaultInit ==
  /\ memory = [c \in Credentials |-> "absent"]
  /\ saved = [c \in Credentials |-> "absent"]
  /\ overdue = {}
  /\ saving = [at |-> "no", next |-> memory, gone |-> {}, of |-> {}]
  /\ holder = [i \in Installations |-> "installed"]
  /\ told = {} /\ missed = {}

Idle == saving.at = "no"
Usable(c) == memory[c] = "live" /\ c \notin overdue

(* resolve() and list() see records that are neither revoked nor overdue.  *)
Resolvable(c) == saving.at # "down" /\ Usable(c)

(* What revoke() and rotate() save; a record is replaced, never changed.    *)
Without(gone) == [c \in Credentials |-> IF c \in gone THEN "revoked" ELSE memory[c]]
Rotated(c, new) == [Without({c}) EXCEPT ![new] = "live"]

Begin(next, gone, of) == saving' = [at |-> "writing", next |-> next, gone |-> gone, of |-> of]

(***************************************************************************)
(* The routes: the installation that a credential is for has to be         *)
(* installed.  create() puts the record into the list before it saves it.  *)
(***************************************************************************)
Create(c) ==
  /\ Idle /\ memory[c] = "absent"
  /\ holder[Of[c]] = "installed"
  /\ memory' = [memory EXCEPT ![c] = "live"]
  /\ Begin(memory', {}, {})
  /\ UNCHANGED <<saved, overdue, holder, told, missed>>

(* rotate(), revoke() and the two that revoke many save a new list first.  *)
Rotate(c, new) ==
  /\ Idle /\ Usable(c)
  /\ memory[new] = "absent" /\ Of[new] = Of[c] /\ holder[Of[c]] = "installed"
  /\ Begin(Rotated(c, new), {c}, {})
  /\ UNCHANGED <<memory, saved, overdue, holder, told, missed>>

RevokeCredential(c) ==
  /\ Idle /\ memory[c] = "live"
  /\ Begin(Without({c}), {c}, {})
  /\ UNCHANGED <<memory, saved, overdue, holder, told, missed>>

(* revokeUser(): all records are of one user.                              *)
RevokeCredentialsOfUser ==
  LET gone == {c \in Credentials : memory[c] = "live"} IN
  /\ Idle /\ gone # {}
  /\ Begin(Without(gone), gone, {})
  /\ UNCHANGED <<memory, saved, overdue, holder, told, missed>>

(* Disabling an installation, or taking its secrets: first the row, then   *)
(* the vault.  If nothing is live, nothing is saved.                       *)
FaultyDisableHolder(i) ==
  /\ Idle /\ holder[i] = "installed"
  /\ holder' = [holder EXCEPT ![i] = "disabled"]
  /\ UNCHANGED <<memory, saved, overdue, saving, told, missed>>

RevokeInstallation(i) ==
  LET gone == {c \in Credentials : Of[c] = i /\ memory[c] = "live"} IN
  IF gone = {} THEN missed' = missed \ {i} /\ UNCHANGED saving
               ELSE Begin(Without(gone), gone, {i}) /\ UNCHANGED missed

DisableHolder(i) ==
  /\ Idle /\ holder[i] = "installed"
  /\ holder' = [holder EXCEPT ![i] = "disabled"]
  /\ RevokeInstallation(i)
  /\ UNCHANGED <<memory, saved, overdue, told>>

UninstallHolder(i) ==
  /\ Idle /\ holder[i] = "disabled"
  /\ holder' = [holder EXCEPT ![i] = "uninstalled"]
  /\ RevokeInstallation(i)
  /\ UNCHANGED <<memory, saved, overdue, told>>

EnableHolder(i) ==
  /\ Idle /\ holder[i] = "disabled"
  /\ holder' = [holder EXCEPT ![i] = "installed"]
  /\ UNCHANGED <<memory, saved, overdue, saving, told, missed>>

(***************************************************************************)
(* persist(): a temporary file beside the vault, then a rename.            *)
(***************************************************************************)
FaultyWrite ==
  /\ saving.at = "writing"
  /\ saved' = saving.next
  /\ saving' = [saving EXCEPT !.at = "written"]
  /\ UNCHANGED <<memory, overdue, holder, told, missed>>

Write ==
  /\ saving.at = "writing"
  /\ saving' = [saving EXCEPT !.at = "written"]
  /\ UNCHANGED <<memory, saved, overdue, holder, told, missed>>

Rename ==
  /\ saving.at = "written"
  /\ saved' = saving.next
  /\ saving' = [saving EXCEPT !.at = "renamed"]
  /\ UNCHANGED <<memory, overdue, holder, told, missed>>

SaveFails ==
  /\ saving.at \in {"writing", "written"}
  /\ missed' = missed \cup saving.of
  /\ saving' = Settled
  /\ UNCHANGED <<memory, saved, overdue, holder, told>>

Finish ==
  /\ saving.at = "renamed"
  /\ memory' = saving.next
  /\ told' = told \cup saving.gone
  /\ missed' = missed \ saving.of
  /\ saving' = [saving EXCEPT !.at = "no", !.gone = {}, !.of = {}]
  /\ UNCHANGED <<saved, overdue, holder>>

Expire(c) ==
  /\ Idle /\ memory[c] # "absent"
  /\ overdue' = overdue \cup {c}
  /\ UNCHANGED <<memory, saved, saving, holder, told, missed>>

VaultCrash ==
  /\ saving.at # "down"
  /\ missed' = IF saving.at = "renamed" THEN missed \ saving.of ELSE missed \cup saving.of
  /\ saving' = [saving EXCEPT !.at = "down", !.gone = {}, !.of = {}]
  /\ memory' = [c \in Credentials |-> "absent"]
  /\ UNCHANGED <<saved, overdue, holder, told>>

(* The constructor reads the file; a temporary file is not looked at.      *)
ReadVault ==
  /\ saving.at = "down"
  /\ memory' = saved
  /\ saving' = [at |-> "no", next |-> saved, gone |-> {}, of |-> {}]
  /\ UNCHANGED <<saved, overdue, holder, told, missed>>

VaultNext ==
  \/ \E c \in Credentials : Create(c)
  \/ \E c, new \in Credentials : Rotate(c, new)
  \/ \E c \in Credentials : RevokeCredential(c)
  \/ RevokeCredentialsOfUser
  \/ \E i \in Installations : DisableHolder(i)
  \/ \E i \in Installations : UninstallHolder(i)
  \/ \E i \in Installations : EnableHolder(i)
  \/ \E c \in Credentials : Expire(c)
  \/ Write \/ Rename \/ SaveFails \/ Finish \/ VaultCrash \/ ReadVault

VaultSpec == VaultInit /\ [][VaultNext]_vault

Statuses == {"absent", "live", "revoked"}

VaultTypeOK ==
  /\ memory \in [Credentials -> Statuses] /\ saved \in [Credentials -> Statuses]
  /\ overdue \subseteq Credentials /\ told \subseteq Credentials
  /\ saving \in [at : {"no", "writing", "written", "renamed", "down"}, next : [Credentials -> Statuses],
                 gone : SUBSET Credentials, of : SUBSET Installations]
  /\ holder \in [Installations -> {"installed", "disabled", "uninstalled"}] /\ missed \subseteq Installations

(***************************************************************************)
(* A credential whose revocation was answered is never handed out again,   *)
(* not after failed saves and not after a restart at any point (revoke,    *)
(* revokeInstallation, persist, read).                                     *)
(***************************************************************************)
RevokedStaysRevoked == \A c \in told : ~Resolvable(c) /\ saved[c] = "revoked"

(***************************************************************************)
(* An installation that is not installed has live credentials only while   *)
(* their revocation is being saved or after its last save failed (app.ts:  *)
(* disable changes the row first and is refused when it is tried again).   *)
(***************************************************************************)
CredentialsOfEnabled ==
  \A c \in Credentials : memory[c] = "live" /\ holder[Of[c]] # "installed" => Of[c] \in saving.of \cup missed

(***************************************************************************)
(* Memory and file, and the two steps of a save, implement a store whose   *)
(* every save is one step: "credential revocation keeps memory and disk    *)
(* updates atomic" (src/src/credential-vault.test.ts:59).  A record whose  *)
(* creation failed stays usable, and is stored by the next save.           *)
(***************************************************************************)
Store == INSTANCE CredentialStore
           WITH stored <- saved, offered <- {c \in Credentials : memory[c] = "live" /\ saved[c] = "absent"}
ImplementsStore == Store!StoreSpec

(***************************************************************************)
(* The vault as a whole: answered revocations last, and installations that *)
(* are not installed keep nothing that was not told to have failed.        *)
(***************************************************************************)
CredentialsSound == VaultTypeOK /\ RevokedStaysRevoked /\ CredentialsOfEnabled
=============================================================================

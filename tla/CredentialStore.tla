-------------------------- MODULE CredentialStore --------------------------
(***************************************************************************)
(* What the credential vault (src/src/credential-vault.ts) promises about  *)
(* its records: every save is one step, nothing that was revoked comes     *)
(* back, and only a record that is being created, or whose creation        *)
(* failed, may be lost.                                                    *)
(***************************************************************************)
CONSTANTS Credentials

VARIABLES
  stored,        \* stored[c]: what survives a restart
  offered        \* records that can be used but are not stored yet

StoreInit == stored = [c \in Credentials |-> "absent"] /\ offered = {}

Known(c) == IF c \in offered THEN "live" ELSE stored[c]

Offer(c) ==
  /\ Known(c) = "absent"
  /\ offered' = offered \cup {c}
  /\ UNCHANGED stored

(* One save takes everything that is known, withdraws some and adds some.  *)
Save(withdrawn, added) ==
  /\ \A c \in withdrawn : Known(c) = "live"
  /\ \A c \in added : Known(c) = "absent"
  /\ stored' = [c \in Credentials |-> CASE c \in withdrawn -> "revoked"
                                        [] c \in added -> "live"
                                        [] OTHER -> Known(c)]
  /\ offered' = {}

Forget == offered' = {} /\ UNCHANGED stored

StoreNext ==
  \/ \E c \in Credentials : Offer(c)
  \/ \E withdrawn, added \in SUBSET Credentials : Save(withdrawn, added)
  \/ Forget

StoreSpec == StoreInit /\ [][StoreNext]_<<stored, offered>>
=============================================================================

------------------------------ MODULE JobQueue ------------------------------
(***************************************************************************)
(* What the plugin_jobs table promises, whoever works on it: a bounded     *)
(* number of active jobs per scope, jobs of a scope begun oldest first,    *)
(* and a life cycle whose ends are final.                                  *)
(*                                                                         *)
(*    absent -> queued -> running -> succeeded | failed                    *)
(*                 \________\_____-> cancelled                             *)
(*                                                                         *)
(* Rows are numbered in the order (created_at, rowid) of the table.        *)
(* Definitions named Faulty... are never used by the specification: each   *)
(* is a plausible fault of the definition that follows it.                 *)
(***************************************************************************)
EXTENDS Naturals, FiniteSets

CONSTANTS
  Scopes,       \* (organization, user, installation) triples
  Types,        \* job types
  Handled,      \* types that have a Core-registered handler
  MaxJobs,      \* rows ever inserted (bound)
  MaxPerScope   \* MAX_ACTIVE_JOBS_PER_SCOPE

ASSUME QueueAssumption ==
  /\ MaxJobs \in Nat
  /\ MaxPerScope \in Nat
  /\ Handled \subseteq Types

VARIABLES
  status,       \* status[j]: JobStatus, or "absent" before row j is inserted
  scopeOf,      \* scopeOf[j], typeOf[j]: written when the row is inserted
  typeOf

rows == <<status, scopeOf, typeOf>>

JobIds == 1 .. MaxJobs
JobStatus == {"queued", "running", "succeeded", "failed", "cancelled"}

Unfinished(j) == status[j] \in {"queued", "running"}
ActiveJobs(s) == {j \in JobIds : Unfinished(j) /\ scopeOf[j] = s}

(* The row an insertion creates: row ids are given in order. *)
IsNext(j) == status[j] = "absent" /\ \A i \in JobIds : i < j => status[i] # "absent"

FaultyClaimable(s) ==
  LET queued == {j \in JobIds : status[j] = "queued" /\ scopeOf[j] = s}
  IN {j \in queued : typeOf[j] \in Handled /\ \A i \in queued : j <= i}

(* Queued rows of scope s that an executor may claim. *)
Claimable(s) == {j \in JobIds : status[j] = "queued" /\ scopeOf[j] = s /\ typeOf[j] \in Handled}
IsOldest(j, S) == j \in S /\ \A i \in S : j <= i

Init ==
  /\ status = [j \in JobIds |-> "absent"]
  /\ scopeOf \in [JobIds -> Scopes]
  /\ typeOf \in [JobIds -> Types]

Submit(j, s, t) ==
  /\ IsNext(j)
  /\ Cardinality(ActiveJobs(s)) < MaxPerScope
  /\ status' = [status EXCEPT ![j] = "queued"]
  /\ scopeOf' = [scopeOf EXCEPT ![j] = s]
  /\ typeOf' = [typeOf EXCEPT ![j] = t]

Begin(j) ==
  /\ IsOldest(j, Claimable(scopeOf[j]))
  /\ status' = [status EXCEPT ![j] = "running"]
  /\ UNCHANGED <<scopeOf, typeOf>>

Settle(j, outcome) ==
  /\ status[j] = "running"
  /\ status' = [status EXCEPT ![j] = outcome]
  /\ UNCHANGED <<scopeOf, typeOf>>

(* A set of jobs is cancelled, or found interrupted, in one statement. *)
Close(S, outcome) ==
  /\ \A j \in S : Unfinished(j)
  /\ status' = [j \in JobIds |-> IF j \in S THEN outcome ELSE status[j]]
  /\ UNCHANGED <<scopeOf, typeOf>>

Interrupted == {j \in JobIds : status[j] = "running"}

Next ==
  \/ \E j \in JobIds, s \in Scopes, t \in Types : Submit(j, s, t)
  \/ \E j \in JobIds : Begin(j)
  \/ \E j \in JobIds, o \in {"succeeded", "failed"} : Settle(j, o)
  \/ \E S \in SUBSET JobIds : Close(S, "cancelled")
  \/ Close(Interrupted, "failed")

Spec == Init /\ [][Next]_rows
=============================================================================

----------------------------- MODULE RateLimits -----------------------------
(***************************************************************************)
(* The buckets of failed attempts (src/src/repository.ts) with the two     *)
(* routes that ask them, sign-in and entry keys (src/src/app.ts), and the  *)
(* quota of speed tests (src/src/speed-test-quota.ts).  Each route looks   *)
(* at its bucket, decides and records without an await.                    *)
(*                                                                         *)
(* Time is a count of minutes.  What happens within one minute of the      *)
(* model happens at one instant of the code's clock.                       *)
(***************************************************************************)
EXTENDS Naturals, FiniteSets

CONSTANTS
  Subjects,      \* subjects of failed attempts, login:... and entry:...
  Visitors,      \* those of entry keys
  Limit,         \* Limit[s]: [failures, window, lock] of the route of s
  Testers,       \* users who run speed tests
  TestsPerWindow, TestWindow,
  MaxMinute      \* bound of the clock

(* The limits of the routes: 5 in 10 minutes lock for 15, 20 in 10 for 10. *)
ASSUME LimitsAssumption ==
  /\ Visitors \subseteq Subjects
  /\ \A s \in Subjects : /\ Limit[s].failures \in Nat /\ Limit[s].failures >= 2
                         /\ Limit[s].window \in Nat \ {0}
                         /\ Limit[s].lock \in Nat /\ Limit[s].lock >= Limit[s].window
  /\ TestsPerWindow \in Nat \ {0} /\ TestWindow \in Nat \ {0}

VARIABLES
  minute,
  bucket,        \* bucket[s]: the row [start, failures, lockedUntil]; failures = 0: no row
  counted,       \* history: counted[s], attempts that the row of s counted within
                 \* its last window of time and since the last success: [at, nth]
  quota,         \* quota[u]: [start, completed, active]; start = 0: no entry
  tested         \* history: tested[u], speed tests of u within the last window: [at, nth]

limits == <<minute, bucket, counted, quota, tested>>

NoBucket == [start |-> 0, failures |-> 0, lockedUntil |-> 0]
NoQuota == [start |-> 0, completed |-> 0, active |-> 0]

LimitsInit ==
  /\ minute = 1
  /\ bucket = [s \in Subjects |-> NoBucket]
  /\ counted = [s \in Subjects |-> {}]
  /\ quota = [u \in Testers |-> NoQuota]
  /\ tested = [u \in Testers |-> {}]

RateLimited(s) == bucket[s].lockedUntil > minute

(* A failure of the instant in which its window started leaves the count 1. *)
FaultyRecorded(s) ==
  LET over  == bucket[s].failures = 0 \/ minute - bucket[s].start > Limit[s].window
      start == IF over THEN minute ELSE bucket[s].start
      count == IF start = minute THEN 1 ELSE bucket[s].failures + 1
  IN  [start |-> start, failures |-> count,
       lockedUntil |-> IF count > Limit[s].failures THEN minute + Limit[s].lock ELSE 0]

Recorded(s) ==
  LET over  == bucket[s].failures = 0 \/ minute - bucket[s].start >= Limit[s].window
      start == IF over THEN minute ELSE bucket[s].start
      count == IF start = minute THEN 1 ELSE bucket[s].failures + 1
  IN  [start |-> start, failures |-> count,
       lockedUntil |-> IF count >= Limit[s].failures THEN minute + Limit[s].lock ELSE 0]

RecordFailure(s) ==
  /\ bucket' = [bucket EXCEPT ![s] = Recorded(s)]
  /\ counted' = IF Recorded(s).failures = bucket[s].failures /\ Recorded(s).start = bucket[s].start
                THEN counted
                ELSE [counted EXCEPT ![s] = @ \cup {[at |-> minute, nth |-> Recorded(s).failures]}]

ClearFailures(s) ==
  /\ bucket' = [bucket EXCEPT ![s] = NoBucket]
  /\ counted' = [counted EXCEPT ![s] = {}]

(* Sign-in with a wrong password or code, or with the right ones. *)
SignIn(s) ==
  /\ ~RateLimited(s)
  /\ RecordFailure(s) \/ ClearFailures(s)
  /\ UNCHANGED <<minute, quota, tested>>

(* A visit of an entry key that resolves or does not. *)
OpenEntry(s) ==
  /\ ~RateLimited(s)
  /\ RecordFailure(s) \/ ClearFailures(s)
  /\ UNCHANGED <<minute, quota, tested>>

(***************************************************************************)
(* Speed tests.  The route acquires and releases in one stretch.           *)
(***************************************************************************)
CurrentQuota(u) ==
  IF quota[u].start = 0 \/ minute - quota[u].start >= TestWindow
  THEN [start |-> minute, completed |-> 0, active |-> 0] ELSE quota[u]

TryAcquire(u) == CurrentQuota(u).active = 0 /\ CurrentQuota(u).completed < TestsPerWindow

SpeedTest(u) ==
  /\ TryAcquire(u)
  /\ quota' = [quota EXCEPT ![u] = [CurrentQuota(u) EXCEPT !.completed = @ + 1]]
  /\ tested' = [tested EXCEPT ![u] = @ \cup {[at |-> minute, nth |-> CurrentQuota(u).completed + 1]}]
  /\ UNCHANGED <<minute, bucket, counted>>

(* What happened within the last window of time, at the time now. *)
Recent(history, now, window) == {a \in history : now - a.at < window}

Minute ==
  /\ minute < MaxMinute
  /\ minute' = minute + 1
  /\ counted' = [s \in Subjects |-> Recent(counted[s], minute + 1, Limit[s].window)]
  /\ tested' = [u \in Testers |-> Recent(tested[u], minute + 1, TestWindow)]
  /\ UNCHANGED <<bucket, quota>>

LimitsNext ==
  \/ \E s \in Subjects \ Visitors : SignIn(s)
  \/ \E s \in Visitors : OpenEntry(s)
  \/ \E u \in Testers : SpeedTest(u)
  \/ Minute

LimitsSpec == LimitsInit /\ [][LimitsNext]_limits

LimitsTypeOK ==
  /\ minute \in Nat \ {0}
  /\ bucket \in [Subjects -> [start : 0 .. minute, failures : Nat, lockedUntil : Nat]]
  /\ counted \in [Subjects -> SUBSET [at : 1 .. minute, nth : Nat]]
  /\ quota \in [Testers -> [start : 0 .. minute, completed : 0 .. TestsPerWindow, active : {0}]]
  /\ tested \in [Testers -> SUBSET [at : 1 .. minute, nth : 1 .. TestsPerWindow]]

(***************************************************************************)
(* However failures are spread over windows and locks, any stretch of one  *)
(* window holds at most 2 * limit - 2 of them: all but the first and the   *)
(* locking one of a window, and a whole next one.  Speed tests that follow *)
(* one another may be one more: all but the first of a window, and a whole *)
(* next one (recordFailedAttempt, tryAcquire).  A window that rolls over   *)
(* early, or a lock that starts one failure late, would break this.        *)
(***************************************************************************)
AttemptsBounded ==
  /\ LimitsTypeOK
  /\ \A s \in Subjects : Cardinality(counted[s]) <= 2 * Limit[s].failures - 2
  /\ \A u \in Testers : Cardinality(tested[u]) <= 2 * TestsPerWindow - 1
=============================================================================

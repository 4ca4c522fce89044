---------------------------- MODULE NetworkQuota ----------------------------
(***************************************************************************)
(* The limit on a plugin's concurrent requests to one service binding:     *)
(* executeNetworkRequest (src/src/network-service.ts) counts the requests  *)
(* of each quota key in the process-wide map activeRequests.               *)
(*                                                                         *)
(* A request runs without interruption up to its first fetch, and again    *)
(* when the last answer has arrived; in between it only awaits, following  *)
(* redirects changes nothing that is modelled.                             *)
(***************************************************************************)
EXTENDS Naturals, FiniteSets

CONSTANTS
  Requests,     \* requests that can be under way at once (bound)
  QuotaKeys,    \* "<organization>:<user>:<installation>:<binding>"
  Limit,        \* maxConcurrentPerBinding
  NoKey         \* the request is not under way

VARIABLES
  activeRequests,   \* the map; a missing entry counts as zero
  keyOf,            \* keyOf[r]: quota key of the request r that is under way
  seen              \* seen[r]: its local `active`, read before the first await

vars == <<activeRequests, keyOf, seen>>

Init ==
  /\ activeRequests = [k \in QuotaKeys |-> 0]
  /\ keyOf = [r \in Requests |-> NoKey]
  /\ seen = [r \in Requests |-> 0]

(* The request is admitted; a request that is refused changes nothing. *)
Admit(r, k) ==
  /\ keyOf[r] = NoKey
  /\ activeRequests[k] < Limit
  /\ seen' = [seen EXCEPT ![r] = activeRequests[k]]
  /\ activeRequests' = [activeRequests EXCEPT ![k] = @ + 1]
  /\ keyOf' = [keyOf EXCEPT ![r] = k]

(* An answer, an error or the timeout: the finally block writes back the count
   the request saw when it was admitted. *)
Finish(r) ==
  /\ keyOf[r] # NoKey
  /\ activeRequests' = [activeRequests EXCEPT ![keyOf[r]] = seen[r]]
  /\ seen' = [seen EXCEPT ![r] = 0]
  /\ keyOf' = [keyOf EXCEPT ![r] = NoKey]

Next == \E r \in Requests : Finish(r) \/ \E k \in QuotaKeys : Admit(r, k)

Spec == Init /\ [][Next]_vars

-----------------------------------------------------------------------------
UnderWay(k) == {r \in Requests : keyOf[r] = k}

(* No more requests of a quota key are under way than the limit: what the test
   "limits concurrent requests per binding and releases the slot" says. *)
BindingLimit == \A k \in QuotaKeys : Cardinality(UnderWay(k)) <= Limit
=============================================================================
